------------------------ MODULE CandidateReviewProofs ------------------------
(* Theorems about CandidateReview, for every set of handlers and runs and   *)
(* for every bound.                                                          *)
EXTENDS CandidateReview, WellFoundedInduction, TLAPS

-----------------------------------------------------------------------------
(* The index a request names its evidence by.                               *)

LEMMA MaxExists ==
  ASSUME NEW n \in Nat, NEW I \in SUBSET (1 .. n), I # {}
  PROVE  Max(I) \in I
<1> DEFINE T == {n - i : i \in I}
<1>1. \A i \in I : i \in Nat /\ i <= n /\ n - i \in Nat
  OBVIOUS
<1>2. T \in SUBSET Nat /\ T # {}
  BY <1>1, Zenon
<1>3. PICK x \in T : \A y \in T : ~ (<<y, x>> \in OpToRel(<, Nat))
  <2> HIDE DEF T
  <2> QED BY <1>2, NatLessThanWellFounded, WFMin
<1>4. \A y \in T : ~ (y < x)
  BY <1>2, <1>3 DEF OpToRel
<1>5. PICK i \in I : x = n - i
  OBVIOUS
<1>6. ASSUME NEW j \in I PROVE i >= j
  <2>1. n - j \in T
    OBVIOUS
  <2>2. ~ (n - j < n - i)
    BY <1>4, <1>5, <2>1
  <2> HIDE DEF T
  <2> QED BY <1>1, <2>2
<1> QED BY <1>5, <1>6 DEF Max

LEMMA NewestIndex ==
  ASSUME NEW X, NEW records \in Seq(X), NEW r
  PROVE  Newest(records, r) \in 0 .. Len(records)
<1> DEFINE I == {i \in 1 .. Len(records) : records[i].rev = r}
<1>1. Newest(records, r) = IF I # {} THEN Max(I) ELSE 0
  BY DEF Newest, SelectLastInSeq
<1>2. I \in SUBSET (1 .. Len(records)) /\ Len(records) \in Nat
  OBVIOUS
<1>3. I # {} => Max(I) \in 1 .. Len(records)
  <2> HIDE DEF I
  <2> QED BY <1>2, MaxExists
<1> HIDE DEF I
<1> QED BY <1>1, <1>2, <1>3

-----------------------------------------------------------------------------
(* The inductive invariant: the tables, the records that are appended, what  *)
(* a publication rests on, and what each request may rely on at its stage.   *)

Policy == [rev : Revs, decision : {"allowed", "denied"}, execution : BOOLEAN, live : BOOLEAN]
Report == [rev : Revs, status : {"passed", "failed"}]

Kinds == {"none", "policy", "replay", "approve", "reject", "generic", "layer", "feedback"}
Stages == {"idle", "gate", "write", "approved", "insert", "bind", "tell", "apply"}
Requests ==
  [kind : Kinds, stage : Stages, rev : 0 .. MaxRev, policy : Nat, replay : Nat, run : Runs \cup {"none"}]

Tables ==
  /\ head \in 0 .. MaxRev
  /\ bound \subseteq rows /\ rows \subseteq 1 .. head
  /\ reviews \in [Revs -> SUBSET {"approve", "reject"}]
  /\ observed \in [Runs -> 0 .. MaxRev] /\ fed \in [Runs -> 0 .. head]
  /\ pointer \in 0 .. head
  /\ PointerIsBound

Records ==
  /\ policies \in Seq(Policy) /\ replays \in Seq(Report)
  /\ \A i \in DOMAIN policies : policies[i].rev \in rows
  /\ \A i \in DOMAIN replays : replays[i].rev \in bound

Backed(r) ==
  /\ reviews[r] = {"approve"}
  /\ pubs[r].policy \in DOMAIN policies
  /\ policies[pubs[r].policy].rev = r /\ policies[pubs[r].policy].execution
  /\ policies[pubs[r].policy].decision = "allowed"
  /\ pubs[r].replay \in DOMAIN replays
  /\ replays[pubs[r].replay] = [rev |-> r, status |-> "passed"]

Publications ==
  /\ pubs \in [Revs -> [policy : 0 .. Len(policies), replay : 0 .. Len(replays)]]
  /\ \A r \in Revs : Published(r) => Backed(r)

(* What a handler has read stays true of what it writes: only rows that are
   never deleted count, and a generic request has no replay to show. *)
Sound(q) ==
  /\ q.rev <= head
  /\ q.stage \in {"gate", "write", "bind"} => q.rev \in rows
  /\ q.stage \in {"gate", "write"} /\ q.kind \in {"approve", "reject", "replay"} => q.rev \in bound
  /\ q.stage = "tell" => q.rev \in bound
  /\ q.stage \in {"insert", "bind", "tell"} => q.rev \in 1 .. head
  /\ q.stage = "apply" => q.rev \in 1 .. head /\ q.run \in Runs
  /\ q.replay <= Len(replays)
  /\ q.kind = "generic" /\ q.stage = "write" /\ q.replay \in DOMAIN replays =>
       replays[q.replay].rev # q.rev

Handling == reqs \in [Handlers -> Requests] /\ \A h \in Handlers : Sound(reqs[h])

ReviewInv == Tables /\ Records /\ Publications /\ Handling

LEMMA InvImplies == ReviewInv => TypeOK /\ PublishedIsReviewed /\ PointerIsBound
<1> SUFFICES ASSUME ReviewInv PROVE TypeOK /\ PublishedIsReviewed /\ PointerIsBound
  OBVIOUS
<1>1. \A h \in Handlers : reqs[h].rev \in 0 .. head
  BY DEF ReviewInv, Handling, Sound, Requests, Tables
<1>2. TypeOK
  BY <1>1 DEF ReviewInv, Tables, Records, Publications, TypeOK
<1>3. PublishedIsReviewed
  BY DEF ReviewInv, Publications, Backed, PublishedIsReviewed
<1> QED BY <1>2, <1>3 DEF ReviewInv, Tables

LEMMA InitInv == Init => ReviewInv
<1> SUFFICES ASSUME Init PROVE ReviewInv
  OBVIOUS
<1>1. Tables
  BY ReviewAssumption DEF Init, Tables, PointerIsBound, Revs
<1>2. Records
  BY DEF Init, Records
<1>3. Publications
  BY DEF Init, Publications, Published, Unpublished
<1>4. Handling
  BY ReviewAssumption DEF Init, Handling, Sound, Idle, Request, Requests, Kinds, Stages
<1> QED BY <1>1, <1>2, <1>3, <1>4 DEF ReviewInv

-----------------------------------------------------------------------------
(* What a step leaves alone. *)

LEMMA Frames ==
  /\ Tables /\ UNCHANGED <<head, rows, bound, reviews, observed, fed, pointer>> => Tables'
  /\ Records /\ UNCHANGED <<policies, replays, rows, bound>> => Records'
  /\ Publications /\ UNCHANGED <<pubs, reviews, policies, replays>> => Publications'
  BY DEF Tables, PointerIsBound, Records, Publications, Published, Backed

(* What requests rely on only grows. *)
Grows ==
  /\ head <= head' /\ rows \subseteq rows' /\ bound \subseteq bound'
  /\ Len(replays) <= Len(replays')
  /\ \A i \in 1 .. Len(replays) : replays'[i] = replays[i]

LEMMA GrowsFrame ==
  ReviewInv /\ UNCHANGED <<head, rows, bound, replays>> => Grows
  BY DEF ReviewInv, Tables, Records, Grows

LEMMA StaysSound ==
  ASSUME ReviewInv, head' \in 0 .. MaxRev, replays' \in Seq(Report), Grows,
         NEW q \in Requests, Sound(q)
  PROVE  Sound(q)'
<1>1. /\ head \in Nat /\ head' \in Nat /\ head <= head'
      /\ rows \subseteq rows' /\ bound \subseteq bound'
      /\ q.rev \in Nat /\ q.replay \in Nat
  BY ReviewAssumption DEF ReviewInv, Tables, Grows, Requests
<1>2. q.rev <= head'
  BY <1>1 DEF Sound
<1>3. /\ q.stage \in {"gate", "write", "bind"} => q.rev \in rows'
      /\ q.stage \in {"gate", "write"} /\ q.kind \in {"approve", "reject", "replay"} => q.rev \in bound'
      /\ q.stage = "tell" => q.rev \in bound'
  BY <1>1 DEF Sound
<1>4. /\ q.stage \in {"insert", "bind", "tell"} => q.rev \in 1 .. head'
      /\ q.stage = "apply" => q.rev \in 1 .. head' /\ q.run \in Runs
  BY <1>1 DEF Sound
<1>5. q.replay <= Len(replays')
  <2>1. Len(replays) \in Nat /\ Len(replays') \in Nat
    BY DEF ReviewInv, Records
  <2> QED BY <1>1, <2>1 DEF Sound, Grows
<1>6. ASSUME q.kind = "generic", q.stage = "write", q.replay \in DOMAIN replays'
      PROVE  replays'[q.replay].rev # q.rev
  <2>1. q.replay \in 1 .. Len(replays)
    BY <1>1, <1>6 DEF Sound, ReviewInv, Records
  <2>2. q.replay \in DOMAIN replays
    BY <2>1 DEF ReviewInv, Records
  <2> QED BY <1>6, <2>1, <2>2 DEF Sound, Grows
<1> QED BY <1>2, <1>3, <1>4, <1>5, <1>6 DEF Sound

(* A step that answers or advances the request of one handler. *)
LEMMA Handled ==
  ASSUME ReviewInv, head' \in 0 .. MaxRev, replays' \in Seq(Report), Grows,
         NEW h \in Handlers, NEW q \in Requests, Sound(q)',
         reqs' = [reqs EXCEPT ![h] = q]
  PROVE  Handling'
<1>1. reqs' \in [Handlers -> Requests]
  BY DEF ReviewInv, Handling
<1>2. ASSUME NEW k \in Handlers PROVE Sound(reqs[k])'
  <2>1. CASE k = h
    <3>1. reqs'[k] = q
      BY <2>1 DEF ReviewInv, Handling
    <3> QED BY <3>1 DEF Sound
  <2>2. CASE k # h
    <3>1. reqs'[k] = reqs[k] /\ reqs[k] \in Requests /\ Sound(reqs[k])
      BY <2>2 DEF ReviewInv, Handling
    <3>2. PICK p \in Requests : p = reqs[k]
      BY <3>1
    <3>3. Sound(p)
      BY <3>1, <3>2
    <3>4. Sound(p)'
      BY <3>3, StaysSound
    <3> QED BY <3>1, <3>2, <3>4 DEF Sound
  <2> QED BY <2>1, <2>2
<1> QED BY <1>1, <1>2 DEF Handling

LEMMA Requesting ==
  /\ Idle \in Requests
  /\ \A q \in Requests, s \in Stages : [q EXCEPT !.stage = s] \in Requests
  BY ReviewAssumption DEF Idle, Request, Requests, Kinds, Stages

LEMMA IdleSound ==
  ASSUME head' \in Nat, replays' \in Seq(Report)
  PROVE  Sound(Idle)'
  BY DEF Sound, Idle, Request

LEMMA AnsweredHandled ==
  ASSUME ReviewInv, head' \in 0 .. MaxRev, replays' \in Seq(Report), Grows,
         NEW h \in Handlers, Answered(h)
  PROVE  Handling'
<1>1. head' \in Nat
  BY ReviewAssumption
<1>2. Sound(Idle)'
  BY <1>1, IdleSound
<1> QED BY <1>2, Requesting, Handled DEF Answered

LEMMA AdvancedHandled ==
  ASSUME ReviewInv, head' \in 0 .. MaxRev, replays' \in Seq(Report), Grows,
         NEW h \in Handlers, NEW s \in Stages, Advance(h, s),
         NEW q \in Requests, q = [reqs[h] EXCEPT !.stage = s], Sound(q)'
  PROVE  Handling'
<1>1. reqs' = [reqs EXCEPT ![h] = q]
  BY DEF Advance
<1> QED BY <1>1, Handled

(* A step that changes nothing but the requests. *)
Quiet == UNCHANGED <<head, rows, bound, policies, replays, reviews, pubs, observed, fed, pointer>>

LEMMA QuietFrame ==
  ASSUME ReviewInv, Quiet
  PROVE  /\ Tables' /\ Records' /\ Publications'
         /\ head' \in 0 .. MaxRev /\ replays' \in Seq(Report) /\ Grows
  BY Frames, GrowsFrame DEF ReviewInv, Quiet, Tables, Records

LEMMA QuietAsk ==
  ASSUME ReviewInv, Quiet, NEW h \in Handlers, NEW q \in Requests, Sound(q),
         reqs' = [reqs EXCEPT ![h] = q]
  PROVE  ReviewInv'
<1>1. Sound(q)'
  BY QuietFrame, StaysSound
<1>2. Handling'
  BY <1>1, QuietFrame, Handled
<1> QED BY <1>2, QuietFrame DEF ReviewInv

LEMMA QuietAnswer ==
  ASSUME ReviewInv, Quiet, NEW h \in Handlers, Answered(h)
  PROVE  ReviewInv'
  BY QuietFrame, AnsweredHandled DEF ReviewInv

LEMMA EvidencedRequest ==
  ASSUME ReviewInv, NEW q \in Requests
  PROVE  /\ Evidenced(q) \in Requests /\ Evidenced(q).replay <= Len(replays)
         /\ Evidenced(q).rev = q.rev /\ Evidenced(q).kind = q.kind /\ Evidenced(q).stage = q.stage
<1>1. Newest(policies, q.rev) \in Nat /\ Newest(replays, q.rev) \in 0 .. Len(replays)
  <2>1. policies \in Seq(Policy) /\ replays \in Seq(Report)
    BY DEF ReviewInv, Records
  <2>2. Newest(policies, q.rev) \in 0 .. Len(policies)
    BY <2>1, NewestIndex
  <2>3. Newest(replays, q.rev) \in 0 .. Len(replays)
    BY <2>1, NewestIndex
  <2> QED BY <2>1, <2>2, <2>3
<1>2. Len(replays) \in Nat
  BY DEF ReviewInv, Records
<1>3. PICK i \in Nat : i = Newest(policies, q.rev)
  BY <1>1
<1>4. PICK j \in Nat : j = Newest(replays, q.rev) /\ j <= Len(replays)
  BY <1>1, <1>2
<1>5. Evidenced(q) = [q EXCEPT !.policy = i, !.replay = j]
  BY <1>3, <1>4 DEF Evidenced
<1> QED BY <1>4, <1>5 DEF Requests

LEMMA Submitted ==
  ASSUME ReviewInv, NEW h \in Handlers, NEW kind \in {"approve", "reject"}, SubmitReview(h, kind)
  PROVE  ReviewInv'
<1>1. /\ Quiet /\ pointer \in bound /\ pointer \in rows /\ pointer \in 0 .. MaxRev /\ pointer <= head
  BY ReviewAssumption DEF SubmitReview, Quiet, CurrentReviewCandidate, ReviewInv, Tables
<1>2. PICK a \in Requests : a = Request(kind, "gate", pointer)
  BY <1>1 DEF Request, Requests, Kinds, Stages
<1>3. a.rev = pointer /\ a.kind = kind /\ a.stage = "gate" /\ a.replay = 0
  BY <1>2 DEF Request
<1>4. PICK q \in Requests :
        /\ q = (IF kind = "approve" THEN Evidenced(a) ELSE a)
        /\ q.rev = pointer /\ q.kind = kind /\ q.stage = "gate" /\ q.replay <= Len(replays)
  <2>1. 0 <= Len(replays)
    BY DEF ReviewInv, Records
  <2> QED BY <1>3, <2>1, EvidencedRequest
<1>5. reqs' = [reqs EXCEPT ![h] = q]
  BY <1>2, <1>4 DEF SubmitReview
<1>6. Sound(q)
  BY <1>1, <1>4 DEF Sound
<1> QED BY <1>1, <1>5, <1>6, QuietAsk

LEMMA Asked ==
  ASSUME ReviewInv, NEW h \in Handlers, StartReplay(h) \/ AskPolicy(h) \/ AskGenericPublish(h)
  PROVE  ReviewInv'
<1>1. Quiet
  BY DEF Quiet, StartReplay, AskPolicy, AskGenericPublish
<1>2. rows \subseteq 0 .. MaxRev /\ (\A r \in rows : r <= head) /\ bound \subseteq rows /\ 0 <= Len(replays)
  <2>1. \A r \in rows : r \in 1 .. head /\ head \in 0 .. MaxRev
    BY DEF ReviewInv, Tables
  <2>2. \A r \in rows : r \in 0 .. MaxRev /\ r <= head
    BY <2>1, ReviewAssumption
  <2>3. 0 <= Len(replays)
    BY DEF ReviewInv, Records
  <2>4. bound \subseteq rows
    BY DEF ReviewInv, Tables
  <2> QED BY <2>2, <2>3, <2>4
<1>3. CASE StartReplay(h)
  <2>1. pointer \in bound
    BY <1>3 DEF StartReplay, CurrentReviewCandidate
  <2>2. PICK q \in Requests : q = Request("replay", "write", pointer)
    BY <1>2, <2>1 DEF Request, Requests, Kinds, Stages
  <2>3. Sound(q)
    BY <1>2, <2>1, <2>2 DEF Sound, Request
  <2>4. reqs' = [reqs EXCEPT ![h] = q]
    BY <1>3, <2>2 DEF StartReplay
  <2> QED BY <1>1, <2>3, <2>4, QuietAsk
<1>4. CASE AskPolicy(h)
  <2>1. PICK r \in rows : reqs' = [reqs EXCEPT ![h] = Request("policy", "write", r)]
    BY <1>4 DEF AskPolicy
  <2>2. PICK q \in Requests : q = Request("policy", "write", r)
    BY <1>2, <2>1 DEF Request, Requests, Kinds, Stages
  <2>3. Sound(q)
    BY <1>2, <2>1, <2>2 DEF Sound, Request
  <2> QED BY <1>1, <2>1, <2>2, <2>3, QuietAsk
<1>5. CASE AskGenericPublish(h)
  <2>1. PICK r \in rows : reqs' = [reqs EXCEPT ![h] = Evidenced(Request("generic", "gate", r))]
    BY <1>5 DEF AskGenericPublish
  <2>2. PICK a \in Requests : a = Request("generic", "gate", r)
    BY <1>2, <2>1 DEF Request, Requests, Kinds, Stages
  <2>3. a.rev = r /\ a.kind = "generic" /\ a.stage = "gate"
    BY <2>2 DEF Request
  <2>4. PICK q \in Requests :
          q = Evidenced(a) /\ q.rev = r /\ q.kind = "generic" /\ q.stage = "gate" /\ q.replay <= Len(replays)
    BY <2>3, EvidencedRequest
  <2>5. Sound(q)
    BY <1>2, <2>4 DEF Sound
  <2> QED BY <1>1, <2>1, <2>2, <2>4, <2>5, QuietAsk
<1> QED BY <1>3, <1>4, <1>5

(* The gate of a generic publication lets only revisions without a binding
   pass, and those have no replay. *)
LEMMA Gated ==
  ASSUME ReviewInv, NEW h \in Handlers, PassGate(h)
  PROVE  ReviewInv'
<1>1. Quiet
  BY DEF Quiet, PassGate
<1>2. PICK p \in Requests : p = reqs[h] /\ Sound(p)
  BY DEF ReviewInv, Handling
<1>3. CASE Gate(p)
  <2>1. PICK q \in Requests : q = [p EXCEPT !.stage = "write"]
    BY Requesting DEF Stages
  <2>2. /\ q.rev = p.rev /\ q.kind = p.kind /\ q.replay = p.replay /\ q.stage = "write"
        /\ p.stage = "gate"
    BY <1>2, <2>1 DEF Requests, PassGate
  <2>3. q.kind = "generic" /\ q.replay \in DOMAIN replays => replays[q.replay].rev # q.rev
    BY <1>3, <2>2 DEF Gate, ReviewInv, Records
  <2>4. Sound(q)
    BY <1>2, <2>2, <2>3 DEF Sound
  <2>5. reqs' = [reqs EXCEPT ![h] = q]
    BY <1>2, <1>3, <2>1 DEF PassGate, Advance
  <2> QED BY <1>1, <2>4, <2>5, QuietAsk
<1>4. CASE ~ Gate(p)
  BY <1>1, <1>2, <1>4, QuietAnswer DEF PassGate
<1> QED BY <1>3, <1>4

LEMMA Dropped ==
  ASSUME ReviewInv, NEW h \in Handlers, NotProjected(h) \/ Lost(h)
  PROVE  ReviewInv'
  BY QuietAnswer DEF NotProjected, Lost, Quiet

-----------------------------------------------------------------------------
(* The records that are appended: what a publication names stays what it is. *)

LEMMA RecordsGrow ==
  ASSUME ReviewInv, UNCHANGED <<rows, bound, pubs, reviews>>,
         policies' \in Seq(Policy), replays' \in Seq(Report),
         Len(policies) <= Len(policies'), Len(replays) <= Len(replays'),
         \A i \in 1 .. Len(policies') : policies'[i].rev \in rows,
         \A i \in 1 .. Len(replays') : replays'[i].rev \in bound,
         \A i \in 1 .. Len(policies) :
           /\ policies'[i].rev = policies[i].rev /\ policies'[i].execution = policies[i].execution
           /\ policies'[i].decision = policies[i].decision,
         \A i \in 1 .. Len(replays) : replays'[i] = replays[i]
  PROVE  Records' /\ Publications'
<1>1. /\ policies \in Seq(Policy) /\ replays \in Seq(Report)
      /\ Len(policies) \in Nat /\ Len(replays) \in Nat
      /\ Len(policies') \in Nat /\ Len(replays') \in Nat
      /\ DOMAIN policies = 1 .. Len(policies) /\ DOMAIN replays = 1 .. Len(replays)
      /\ DOMAIN policies' = 1 .. Len(policies') /\ DOMAIN replays' = 1 .. Len(replays')
  BY DEF ReviewInv, Records
<1>2. Records'
  BY <1>1 DEF Records
<1>3. pubs' \in [Revs -> [policy : 0 .. Len(policies'), replay : 0 .. Len(replays')]]
  <2>1. 0 .. Len(policies) \subseteq 0 .. Len(policies') /\ 0 .. Len(replays) \subseteq 0 .. Len(replays')
    BY <1>1
  <2> QED BY <2>1 DEF ReviewInv, Publications
<1>4. ASSUME NEW r \in Revs, Published(r)' PROVE Backed(r)'
  <2>1. Backed(r)
    BY <1>4 DEF ReviewInv, Publications, Published
  <2>2. pubs[r].policy \in 1 .. Len(policies) /\ pubs[r].replay \in 1 .. Len(replays)
    BY <1>1, <2>1 DEF Backed
  <2>3. pubs[r].policy \in 1 .. Len(policies') /\ pubs[r].replay \in 1 .. Len(replays')
    BY <1>1, <2>2
  <2> QED BY <1>1, <2>1, <2>2, <2>3 DEF Backed
<1> QED BY <1>2, <1>3, <1>4 DEF Publications

LEMMA PolicyAppended ==
  ASSUME ReviewInv, UNCHANGED <<rows, bound, pubs, reviews, replays>>,
         NEW e \in Policy, e.rev \in rows, policies' = Append(policies, e)
  PROVE  Records' /\ Publications'
<1>1. policies \in Seq(Policy) /\ replays \in Seq(Report)
  BY DEF ReviewInv, Records
<1>2. /\ policies' \in Seq(Policy) /\ Len(policies') = Len(policies) + 1 /\ Len(policies) \in Nat
      /\ \A i \in 1 .. Len(policies) : policies'[i] = policies[i]
      /\ policies'[Len(policies) + 1] = e
  BY <1>1
<1>3. \A i \in 1 .. Len(policies') : policies'[i].rev \in rows
  <2>1. \A i \in 1 .. Len(policies) : policies[i].rev \in rows
    BY <1>1 DEF ReviewInv, Records
  <2> QED BY <1>2, <2>1
<1>4. \A i \in 1 .. Len(replays') : replays'[i].rev \in bound
  BY <1>1 DEF ReviewInv, Records
<1> QED BY <1>1, <1>2, <1>3, <1>4, RecordsGrow

LEMMA TablesFrame ==
  ASSUME ReviewInv, UNCHANGED <<head, rows, bound, reviews, observed, fed, pointer>>
  PROVE  Tables' /\ head' \in 0 .. MaxRev
  BY Frames DEF ReviewInv, Tables

LEMMA PolicySaved ==
  ASSUME ReviewInv, NEW h \in Handlers, SavePolicyDecision(h)
  PROVE  ReviewInv'
<1>1. /\ UNCHANGED <<head, rows, bound, replays, reviews, pubs, observed, fed, pointer>> /\ Answered(h)
  BY DEF SavePolicyDecision
<1>2. reqs[h].rev \in rows /\ rows \subseteq Revs
  <2>1. reqs[h].rev \in rows /\ rows \subseteq 1 .. head /\ head \in 0 .. MaxRev
    BY DEF SavePolicyDecision, ReviewInv, Handling, Sound, Tables
  <2> QED BY <2>1, ReviewAssumption DEF Revs
<1>3. PICK d \in {"allowed", "denied"} :
        policies' = Append(policies, [rev |-> reqs[h].rev, decision |-> d, execution |-> FALSE, live |-> TRUE])
  BY DEF SavePolicyDecision
<1>4. Records' /\ Publications'
  <2>1. PICK e \in Policy : e = [rev |-> reqs[h].rev, decision |-> d, execution |-> FALSE, live |-> TRUE]
    BY <1>2 DEF Policy
  <2>2. e.rev \in rows
    BY <1>2, <2>1
  <2> QED BY <1>1, <1>3, <2>1, <2>2, PolicyAppended
<1>5. Grows /\ replays' \in Seq(Report)
  BY <1>1, GrowsFrame DEF ReviewInv, Records
<1> QED BY <1>1, <1>4, <1>5, TablesFrame, AnsweredHandled DEF ReviewInv

(* A step of no handler: the requests rely on what they relied on. *)
LEMMA Unhandled ==
  ASSUME ReviewInv, head' \in 0 .. MaxRev, replays' \in Seq(Report), Grows, UNCHANGED reqs
  PROVE  Handling'
<1>1. ASSUME NEW k \in Handlers PROVE Sound(reqs[k])'
  <2>1. PICK p \in Requests : p = reqs[k] /\ Sound(p)
    BY DEF ReviewInv, Handling
  <2>2. Sound(p)'
    BY <2>1, StaysSound
  <2> QED BY <2>1, <2>2 DEF Sound
<1> QED BY <1>1 DEF Handling, ReviewInv

LEMMA Authorized ==
  ASSUME ReviewInv, NEW r \in Revs, AuthorizeExecution(r)
  PROVE  ReviewInv'
<1>1. UNCHANGED <<head, rows, bound, replays, reviews, pubs, observed, fed, reqs, pointer>> /\ r \in rows
  BY DEF AuthorizeExecution
<1>2. Records' /\ Publications'
  <2>1. PICK e \in Policy : e = [rev |-> r, decision |-> "allowed", execution |-> TRUE, live |-> TRUE]
    BY DEF Policy
  <2>2. e.rev \in rows /\ policies' = Append(policies, e)
    BY <1>1, <2>1 DEF AuthorizeExecution
  <2> QED BY <1>1, <2>2, PolicyAppended
<1>3. Grows /\ replays' \in Seq(Report)
  BY <1>1, GrowsFrame DEF ReviewInv, Records
<1> QED BY <1>1, <1>2, <1>3, TablesFrame, Unhandled DEF ReviewInv

LEMMA Expired ==
  ASSUME ReviewInv, NEW i \in DOMAIN policies, PolicyExpires(i)
  PROVE  ReviewInv'
<1>1. UNCHANGED <<head, rows, bound, replays, reviews, pubs, observed, fed, reqs, pointer>>
  BY DEF PolicyExpires
<1>2. policies \in Seq(Policy) /\ replays \in Seq(Report) /\ policies' = [policies EXCEPT ![i].live = FALSE]
  BY DEF ReviewInv, Records, PolicyExpires
<1>3. /\ policies' \in Seq(Policy) /\ Len(policies') = Len(policies)
      /\ \A j \in 1 .. Len(policies) :
           /\ policies'[j].rev = policies[j].rev /\ policies'[j].execution = policies[j].execution
           /\ policies'[j].decision = policies[j].decision
  <2>1. [policies[i] EXCEPT !.live = FALSE] \in Policy
    <3>1. policies[i] \in Policy
      BY <1>2
    <3>2. \A p \in Policy : [p EXCEPT !.live = FALSE] \in Policy
      BY DEF Policy
    <3> QED BY <3>1, <3>2
  <2>2. policies' \in Seq(Policy) /\ Len(policies') = Len(policies)
    BY <1>2, <2>1
  <2>3. \A j \in 1 .. Len(policies) :
          policies'[j] = IF j = i THEN [policies[i] EXCEPT !.live = FALSE] ELSE policies[j]
    BY <1>2
  <2>4. \A p \in Policy : LET e == [p EXCEPT !.live = FALSE] IN
          e.rev = p.rev /\ e.execution = p.execution /\ e.decision = p.decision
    BY DEF Policy
  <2> QED BY <1>2, <2>2, <2>3, <2>4
<1>4. \A j \in 1 .. Len(policies') : policies'[j].rev \in rows
  BY <1>2, <1>3 DEF ReviewInv, Records
<1>5. \A j \in 1 .. Len(replays') : replays'[j].rev \in bound
  BY <1>1, <1>2 DEF ReviewInv, Records
<1>6. Len(policies) <= Len(policies') /\ Len(replays) <= Len(replays')
  BY <1>1, <1>2, <1>3
<1>7. Records' /\ Publications'
  BY <1>1, <1>2, <1>3, <1>4, <1>5, <1>6, RecordsGrow
<1>8. Grows /\ replays' \in Seq(Report)
  BY <1>1, <1>2, GrowsFrame
<1> QED BY <1>1, <1>7, <1>8, TablesFrame, Unhandled DEF ReviewInv

LEMMA ReplaySaved ==
  ASSUME ReviewInv, NEW h \in Handlers, SaveReplayReport(h)
  PROVE  ReviewInv'
<1>1. UNCHANGED <<head, rows, bound, policies, reviews, pubs, observed, fed, pointer>> /\ Answered(h)
  BY DEF SaveReplayReport
<1>2. reqs[h].rev \in bound /\ reqs[h].rev \in Revs
  <2>1. /\ reqs[h].rev \in bound /\ bound \subseteq rows /\ rows \subseteq 1 .. head
        /\ head \in 0 .. MaxRev
    BY DEF SaveReplayReport, ReviewInv, Handling, Sound, Tables
  <2>2. reqs[h].rev \in 1 .. head
    BY <2>1
  <2> QED BY <2>1, <2>2, ReviewAssumption DEF Revs
<1>3. PICK t \in {"passed", "failed"} : replays' = Append(replays, [rev |-> reqs[h].rev, status |-> t])
  BY DEF SaveReplayReport
<1>4. PICK e \in Report : replays' = Append(replays, e) /\ e.rev \in bound
  BY <1>2, <1>3 DEF Report
<1>5. policies \in Seq(Policy) /\ replays \in Seq(Report)
  BY DEF ReviewInv, Records
<1>6. /\ replays' \in Seq(Report) /\ Len(replays') = Len(replays) + 1 /\ Len(replays) \in Nat
      /\ \A i \in 1 .. Len(replays) : replays'[i] = replays[i]
      /\ replays'[Len(replays) + 1] = e
  BY <1>4, <1>5
<1>7. \A i \in 1 .. Len(replays') : replays'[i].rev \in bound
  <2>1. \A i \in 1 .. Len(replays) : replays[i].rev \in bound
    BY <1>5 DEF ReviewInv, Records
  <2> QED BY <1>4, <1>6, <2>1
<1>8. \A i \in 1 .. Len(policies') : policies'[i].rev \in rows
  BY <1>1, <1>5 DEF ReviewInv, Records
<1>9. Records' /\ Publications'
  BY <1>1, <1>5, <1>6, <1>7, <1>8, RecordsGrow
<1>10. Grows
  <2>1. head \in Nat
    BY ReviewAssumption DEF ReviewInv, Tables
  <2> QED BY <1>1, <1>6, <2>1 DEF Grows
<1> QED BY <1>1, <1>6, <1>9, <1>10, TablesFrame, AnsweredHandled DEF ReviewInv

-----------------------------------------------------------------------------
(* The two transactions that decide a revision. *)

(* What is published rests on a replay, so it is bound to the map. *)
LEMMA ReplayedIsBound ==
  ASSUME ReviewInv, NEW i, NEW r, ReplayPassed(i, r)
  PROVE  r \in bound
  BY DEF ReviewInv, Records, ReplayPassed

LEMMA InRange ==
  ASSUME ReviewInv
  PROVE  /\ rows \subseteq Revs /\ bound \subseteq rows
         /\ head \in Nat /\ head \in 0 .. MaxRev /\ rows \subseteq 1 .. head /\ MaxRev \in Nat
<1>1. /\ bound \subseteq rows /\ rows \subseteq 1 .. head /\ head \in 0 .. MaxRev /\ MaxRev \in Nat
  BY ReviewAssumption DEF ReviewInv, Tables
<1>2. 1 .. head \subseteq 1 .. MaxRev
  BY <1>1
<1> QED BY <1>1, <1>2 DEF Revs

LEMMA Decided ==
  ASSUME ReviewInv, NEW h \in Handlers, PublishActionList(h)
  PROVE  ReviewInv'
<1>1. UNCHANGED <<head, rows, bound, policies, replays, observed, fed, pointer>>
  BY DEF PublishActionList
<1>2. PICK p \in Requests : p = reqs[h] /\ Sound(p)
  BY DEF ReviewInv, Handling
<1>3. p.stage = "write" /\ p.rev \in rows /\ p.rev \in Revs
  BY <1>2, InRange DEF PublishActionList, Sound
<1>4. Grows /\ replays' \in Seq(Report) /\ head' \in 0 .. MaxRev
  BY <1>1, GrowsFrame DEF ReviewInv, Records, Tables
<1>5. CASE ~ Publishable(p)
  <2>1. UNCHANGED <<reviews, pubs>> /\ Answered(h)
    BY <1>2, <1>5 DEF PublishActionList
  <2> QED BY <1>1, <2>1, QuietAnswer DEF Quiet
<1>6. CASE Publishable(p)
  <2>1. /\ reviews' = [reviews EXCEPT ![p.rev] = @ \cup {"approve"}]
        /\ pubs' = [pubs EXCEPT ![p.rev] = [policy |-> p.policy, replay |-> p.replay]]
    BY <1>2, <1>6 DEF PublishActionList
  <2>2. Tables'
    BY <1>1, <1>3, <2>1 DEF ReviewInv, Tables, PointerIsBound
  <2>3. Records'
    BY <1>1, Frames DEF ReviewInv
  <2>4. p.policy \in DOMAIN policies /\ p.replay \in DOMAIN replays
    BY <1>6 DEF Publishable, PolicyAllows, ReplayPassed
  <2>5. [policy |-> p.policy, replay |-> p.replay] \in [policy : 0 .. Len(policies), replay : 0 .. Len(replays)]
    <3>1. policies \in Seq(Policy) /\ replays \in Seq(Report)
      BY DEF ReviewInv, Records
    <3> QED BY <2>4, <3>1
  <2>6. pubs' \in [Revs -> [policy : 0 .. Len(policies'), replay : 0 .. Len(replays')]]
    BY <1>1, <2>1, <2>5 DEF ReviewInv, Publications
  <2>7. ASSUME NEW r \in Revs, Published(r)' PROVE Backed(r)'
    <3>1. CASE r = p.rev
      <4>1. pubs'[r] = [policy |-> p.policy, replay |-> p.replay]
        BY <1>3, <2>1, <3>1 DEF ReviewInv, Publications
      <4>2. reviews'[r] = {"approve"}
        BY <1>3, <1>6, <2>1, <3>1 DEF ReviewInv, Tables, Publishable
      <4> QED BY <1>1, <1>6, <2>4, <3>1, <4>1, <4>2 DEF Backed, Publishable, PolicyAllows, ReplayPassed
    <3>2. CASE r # p.rev
      <4>1. pubs'[r] = pubs[r] /\ reviews'[r] = reviews[r]
        BY <1>3, <2>1, <3>2 DEF ReviewInv, Publications, Tables
      <4> QED BY <1>1, <2>7, <4>1 DEF ReviewInv, Publications, Published, Backed
    <3> QED BY <3>1, <3>2
  <2>8. Handling'
    <3>1. CASE p.kind = "approve"
      <4>1. PICK q \in Requests : q = [p EXCEPT !.stage = "approved"]
        BY Requesting DEF Stages
      <4>2. /\ q.rev = p.rev /\ q.stage = "approved" /\ q.replay = p.replay
        BY <4>1 DEF Requests
      <4>3. Sound(q)
        BY <1>2, <4>2 DEF Sound
      <4>4. Sound(q)'
        BY <1>4, <4>3, StaysSound
      <4>5. Advance(h, "approved")
        BY <1>2, <1>6, <3>1 DEF PublishActionList
      <4>6. reqs' = [reqs EXCEPT ![h] = q]
        BY <1>2, <4>1, <4>5 DEF Advance
      <4> QED BY <1>4, <4>4, <4>6, Handled
    <3>2. CASE p.kind # "approve"
      BY <1>2, <1>4, <1>6, <3>2, AnsweredHandled DEF PublishActionList
    <3> QED BY <3>1, <3>2
  <2> QED BY <2>2, <2>3, <2>6, <2>7, <2>8 DEF ReviewInv, Publications
<1> QED BY <1>5, <1>6

LEMMA Rejected ==
  ASSUME ReviewInv, NEW h \in Handlers, RecordCandidateRejection(h)
  PROVE  ReviewInv'
<1>1. UNCHANGED <<head, rows, bound, policies, replays, pubs, observed, fed, pointer>> /\ Answered(h)
  BY DEF RecordCandidateRejection
<1>2. PICK v : v = reqs[h].rev
  OBVIOUS
<1>3. v \in Revs
  BY <1>2, InRange DEF ReviewInv, Handling, Sound, RecordCandidateRejection
<1>4. reviews' = IF Rejectable(v) THEN [reviews EXCEPT ![v] = @ \cup {"reject"}] ELSE reviews
  BY <1>2 DEF RecordCandidateRejection
<1>5. Tables'
  BY <1>1, <1>3, <1>4 DEF ReviewInv, Tables, PointerIsBound
<1>6. Records'
  BY <1>1, Frames DEF ReviewInv
<1>7. ASSUME NEW r \in Revs, Published(r)' PROVE Backed(r)'
  <2>1. Published(r) /\ Backed(r)
    BY <1>1, <1>7 DEF ReviewInv, Publications, Published
  <2>2. reviews'[r] = reviews[r]
    BY <1>3, <1>4, <2>1 DEF ReviewInv, Tables, Rejectable
  <2> QED BY <1>1, <2>1, <2>2 DEF Backed
<1>8. Publications'
  BY <1>1, <1>7 DEF ReviewInv, Publications
<1>9. Grows /\ replays' \in Seq(Report) /\ head' \in 0 .. MaxRev
  BY <1>1, GrowsFrame DEF ReviewInv, Records, Tables
<1> QED BY <1>1, <1>5, <1>6, <1>8, <1>9, AnsweredHandled DEF ReviewInv

-----------------------------------------------------------------------------
(* The head, the candidates and what the extension remembers. *)

(* A step that changes neither a record nor a publication. *)
LEMMA Unrecorded ==
  ASSUME ReviewInv, UNCHANGED <<policies, replays, reviews, pubs>>, Tables', Handling',
         rows \subseteq rows', bound \subseteq bound'
  PROVE  ReviewInv'
<1>1. Records'
  BY DEF ReviewInv, Records
<1>2. Publications'
  BY Frames DEF ReviewInv
<1> QED BY <1>1, <1>2 DEF ReviewInv

LEMMA GrowsTables ==
  ASSUME ReviewInv, replays' = replays, head <= head', rows \subseteq rows', bound \subseteq bound'
  PROVE  Grows /\ replays' \in Seq(Report)
  BY DEF ReviewInv, Records, Grows

LEMMA LayerStep ==
  ASSUME ReviewInv, NEW h \in Handlers, ApplyLayer(h) \/ RepeatLayer(h)
  PROVE  ReviewInv'
<1>1. CASE ApplyLayer(h)
  <2>1. /\ UNCHANGED <<rows, bound, policies, replays, reviews, pubs, observed, fed, pointer>>
        /\ head < MaxRev /\ head' = head + 1
    BY <1>1 DEF ApplyLayer
  <2>2. /\ head' \in 0 .. MaxRev /\ head <= head' /\ head' \in Nat
        /\ 0 .. head \subseteq 0 .. head' /\ 1 .. head \subseteq 1 .. head'
    BY <2>1, InRange
  <2>3. Tables'
    BY <2>1, <2>2 DEF ReviewInv, Tables, PointerIsBound
  <2>4. Grows /\ replays' \in Seq(Report)
    BY <2>1, <2>2, GrowsTables
  <2>5. PICK q \in Requests : q = Request("layer", "insert", head + 1)
    BY <2>1, <2>2 DEF Request, Requests, Kinds, Stages
  <2>6. Sound(q)'
    <3>1. /\ q.rev = head' /\ q.stage = "insert" /\ q.kind = "layer" /\ q.replay = 0
      BY <2>1, <2>5 DEF Request
    <3>2. head' \in 1 .. head' /\ 0 <= Len(replays')
      BY <2>1, <2>2, <2>4, InRange
    <3> QED BY <2>2, <3>1, <3>2 DEF Sound
  <2>7. Handling'
    BY <1>1, <2>2, <2>4, <2>5, <2>6, Handled DEF ApplyLayer
  <2> QED BY <2>1, <2>3, <2>7, Unrecorded
<1>2. CASE RepeatLayer(h)
  <2>1. PICK r \in 1 .. head : reqs' = [reqs EXCEPT ![h] = Request("layer", "insert", r)]
    BY <1>2 DEF RepeatLayer
  <2>2. r \in 0 .. MaxRev /\ r <= head /\ 0 <= Len(replays)
    BY InRange DEF ReviewInv, Records
  <2>3. PICK q \in Requests : q = Request("layer", "insert", r)
    BY <2>2 DEF Request, Requests, Kinds, Stages
  <2>4. Sound(q)
    BY <2>2, <2>3 DEF Sound, Request
  <2>5. Quiet
    BY <1>2 DEF RepeatLayer, Quiet
  <2> QED BY <2>1, <2>3, <2>4, <2>5, QuietAsk
<1> QED BY <1>1, <1>2

LEMMA ObservationStep ==
  ASSUME ReviewInv, NEW h \in Handlers, NEW run \in Runs, RecordObservation(h, run)
  PROVE  ReviewInv'
<1>1. UNCHANGED <<head, rows, bound, policies, replays, reviews, pubs, fed, pointer>>
  BY DEF RecordObservation
<1>2. PICK r \in Revs :
        /\ Published(r) /\ observed' = [observed EXCEPT ![run] = r]
        /\ reqs' = [reqs EXCEPT ![h] = [Request("feedback", "apply", r) EXCEPT !.run = run]]
  BY DEF RecordObservation
<1>3. r \in 0 .. MaxRev /\ r \in 1 .. head /\ r <= head /\ 0 <= Len(replays)
  <2>1. r \in bound
    <3>1. Backed(r)
      BY <1>2 DEF ReviewInv, Publications
    <3> QED BY <3>1 DEF ReviewInv, Records, Backed
  <2>2. r \in 1 .. head /\ head \in Nat /\ head \in 0 .. MaxRev /\ MaxRev \in Nat
    BY <2>1, InRange
  <2>3. 0 <= Len(replays)
    BY DEF ReviewInv, Records
  <2> QED BY <2>2, <2>3
<1>4. PICK q \in Requests : q = [Request("feedback", "apply", r) EXCEPT !.run = run]
  BY <1>3 DEF Request, Requests, Kinds, Stages
<1>5. Sound(q)
  <2>1. q.rev = r /\ q.kind = "feedback" /\ q.stage = "apply" /\ q.replay = 0 /\ q.run = run
    BY <1>4 DEF Request
  <2> QED BY <1>3, <2>1 DEF Sound
<1>6. Grows /\ replays' \in Seq(Report) /\ head' \in 0 .. MaxRev
  BY <1>1, GrowsFrame DEF ReviewInv, Records, Tables
<1>7. Sound(q)'
  BY <1>5, <1>6, StaysSound
<1>8. Handling'
  BY <1>2, <1>4, <1>6, <1>7, Handled
<1>9. Tables'
  BY <1>1, <1>2, ReviewAssumption DEF ReviewInv, Tables, PointerIsBound, Revs
<1> QED BY <1>1, <1>8, <1>9, Unrecorded

LEMMA FeedbackStep ==
  ASSUME ReviewInv, NEW h \in Handlers, ApplyFeedback(h)
  PROVE  ReviewInv'
<1>1. UNCHANGED <<rows, bound, policies, replays, reviews, pubs, observed, pointer>>
  BY DEF ApplyFeedback
<1>2. PICK p \in Requests : p = reqs[h] /\ Sound(p) /\ p.stage = "apply"
  BY DEF ReviewInv, Handling, ApplyFeedback
<1>3. p.run \in Runs /\ fed[p.run] \in 0 .. head
  BY <1>2 DEF Sound, ReviewInv, Tables
<1>4. CASE p.rev \notin bound
  <2>1. Answered(h) /\ UNCHANGED <<head, fed>>
    BY <1>2, <1>4 DEF ApplyFeedback
  <2> QED BY <1>1, <2>1, QuietAnswer DEF Quiet
<1>5. CASE p.rev \in bound
  <2>1. PICK result : result = IF fed[p.run] = 0 THEN head + 1 ELSE fed[p.run]
    OBVIOUS
  <2>2. /\ result <= MaxRev /\ head' = (IF fed[p.run] = 0 THEN result ELSE head)
        /\ fed' = [fed EXCEPT ![p.run] = result]
        /\ reqs' = [reqs EXCEPT ![h].stage = "insert", ![h].rev = result]
    BY <1>2, <1>5, <2>1 DEF ApplyFeedback
  <2>3. /\ result \in 1 .. head' /\ head' \in 0 .. MaxRev /\ head' \in Nat /\ head <= head'
        /\ result \in 0 .. MaxRev
    BY <1>3, <2>1, <2>2, InRange
  <2>4. 0 .. head \subseteq 0 .. head' /\ 1 .. head \subseteq 1 .. head' /\ result \in 0 .. head'
    BY <2>3, InRange
  <2>5. Tables'
    BY <1>1, <1>3, <2>2, <2>3, <2>4 DEF ReviewInv, Tables, PointerIsBound
  <2>6. Grows /\ replays' \in Seq(Report)
    BY <1>1, <2>3, GrowsTables
  <2>7. PICK q \in Requests : q = [p EXCEPT !.stage = "insert", !.rev = result]
    BY <2>3 DEF Requests, Stages
  <2>8. Sound(q)'
    <3>1. q.rev = result /\ q.stage = "insert" /\ q.replay = p.replay
      BY <2>7 DEF Requests
    <3>2. q.replay <= Len(replays') /\ q.rev <= head'
      BY <1>1, <1>2, <2>3, <3>1 DEF Sound
    <3> QED BY <2>3, <3>1, <3>2 DEF Sound
  <2>9. reqs' = [reqs EXCEPT ![h] = q]
    BY <1>2, <2>2, <2>7 DEF ReviewInv, Handling, Requests
  <2>10. Handling'
    BY <2>3, <2>6, <2>8, <2>9, Handled
  <2> QED BY <1>1, <2>5, <2>10, Unrecorded
<1> QED BY <1>4, <1>5

LEMMA InsertStep ==
  ASSUME ReviewInv, NEW h \in Handlers, InsertCandidate(h)
  PROVE  ReviewInv'
<1>1. UNCHANGED <<head, bound, policies, replays, reviews, pubs, observed, fed, pointer>>
  BY DEF InsertCandidate
<1>2. PICK p \in Requests : p = reqs[h] /\ Sound(p) /\ p.stage = "insert"
  BY DEF ReviewInv, Handling, InsertCandidate
<1>3. p.rev \in 1 .. head /\ rows' = rows \cup {p.rev}
  BY <1>2 DEF Sound, InsertCandidate
<1>4. Tables' /\ head' \in 0 .. MaxRev
  BY <1>1, <1>3 DEF ReviewInv, Tables, PointerIsBound
<1>5. Grows /\ replays' \in Seq(Report)
  BY <1>1, <1>3, InRange, GrowsTables
<1>6. PICK q \in Requests : q = [p EXCEPT !.stage = "bind"]
  BY Requesting DEF Stages
<1>7. Sound(q)'
  <2>1. q.rev = p.rev /\ q.stage = "bind" /\ q.replay = p.replay
    BY <1>6 DEF Requests
  <2> QED BY <1>1, <1>2, <1>3, <2>1 DEF Sound
<1>8. reqs' = [reqs EXCEPT ![h] = q]
  BY <1>2, <1>6 DEF InsertCandidate, Advance
<1>9. Handling'
  BY <1>4, <1>5, <1>7, <1>8, Handled
<1> QED BY <1>1, <1>3, <1>4, <1>9, Unrecorded

LEMMA BindStep ==
  ASSUME ReviewInv, NEW h \in Handlers, BindCandidate(h)
  PROVE  ReviewInv'
<1>1. UNCHANGED <<head, rows, policies, replays, reviews, pubs, observed, fed, pointer>>
  BY DEF BindCandidate
<1>2. PICK p \in Requests : p = reqs[h] /\ Sound(p) /\ p.stage = "bind"
  BY DEF ReviewInv, Handling, BindCandidate
<1>3. p.rev \in rows /\ p.rev \in 1 .. head /\ bound' = bound \cup {p.rev}
  BY <1>2 DEF Sound, BindCandidate
<1>4. Tables' /\ head' \in 0 .. MaxRev
  BY <1>1, <1>3 DEF ReviewInv, Tables, PointerIsBound
<1>5. Grows /\ replays' \in Seq(Report)
  BY <1>1, <1>3, InRange, GrowsTables
<1>6. Handling'
  <2>1. CASE Answered(h)
    BY <1>4, <1>5, <2>1, AnsweredHandled
  <2>2. CASE Advance(h, "tell")
    <3>1. PICK q \in Requests : q = [p EXCEPT !.stage = "tell"]
      BY Requesting DEF Stages
    <3>2. Sound(q)'
      <4>1. q.rev = p.rev /\ q.stage = "tell" /\ q.replay = p.replay
        BY <3>1 DEF Requests
      <4> QED BY <1>1, <1>2, <1>3, <4>1 DEF Sound
    <3>3. reqs' = [reqs EXCEPT ![h] = q]
      BY <1>2, <2>2, <3>1 DEF Advance
    <3> QED BY <1>4, <1>5, <3>2, <3>3, Handled
  <2> QED BY <2>1, <2>2 DEF BindCandidate
<1> QED BY <1>1, <1>3, <1>4, <1>6, Unrecorded

LEMMA PointerStep ==
  ASSUME ReviewInv,
         \/ \E h \in Handlers : ReceiveCandidate(h) \/ ForgetCandidate(h)
         \/ BrowserRestarts
  PROVE  ReviewInv'
<1>1. UNCHANGED <<head, rows, bound, policies, replays, reviews, pubs, observed, fed>>
  BY DEF ReceiveCandidate, ForgetCandidate, BrowserRestarts
<1>2. Grows /\ replays' \in Seq(Report) /\ head' \in 0 .. MaxRev
  BY <1>1, GrowsFrame DEF ReviewInv, Records, Tables
<1>3. ASSUME pointer' \in 0 .. head, pointer' # 0 => pointer' \in bound PROVE Tables'
  BY <1>1, <1>3 DEF ReviewInv, Tables, PointerIsBound
<1>4. ASSUME NEW h \in Handlers, ReceiveCandidate(h) PROVE ReviewInv'
  <2>1. reqs[h].rev \in bound /\ pointer' = reqs[h].rev /\ Answered(h)
    BY <1>4 DEF ReceiveCandidate, ReviewInv, Handling, Sound
  <2>2. pointer' \in 0 .. head
    BY <2>1, InRange
  <2> QED BY <1>1, <1>2, <1>3, <2>1, <2>2, AnsweredHandled, Unrecorded
<1>5. ASSUME NEW h \in Handlers, ForgetCandidate(h) PROVE ReviewInv'
  <2>1. pointer' = 0 /\ Answered(h) /\ 0 \in 0 .. head
    BY <1>5, InRange DEF ForgetCandidate
  <2> QED BY <1>1, <1>2, <1>3, <2>1, AnsweredHandled, Unrecorded
<1>6. ASSUME BrowserRestarts PROVE ReviewInv'
  <2>1. pointer' = 0 /\ UNCHANGED reqs /\ 0 \in 0 .. head
    BY <1>6, InRange DEF BrowserRestarts
  <2> QED BY <1>1, <1>2, <1>3, <2>1, Unhandled, Unrecorded
<1> QED BY <1>4, <1>5, <1>6

LEMMA NextInv == ReviewInv /\ [Next]_vars => ReviewInv'
<1> SUFFICES ASSUME ReviewInv, [Next]_vars PROVE ReviewInv'
  OBVIOUS
<1>1. ASSUME NEW h \in Handlers,
             \/ SubmitReview(h, "approve") \/ SubmitReview(h, "reject")
             \/ StartReplay(h) \/ AskPolicy(h) \/ AskGenericPublish(h) \/ PassGate(h)
      PROVE  ReviewInv'
  BY <1>1, Submitted, Asked, Gated
<1>2. ASSUME NEW h \in Handlers,
             \/ SavePolicyDecision(h) \/ SaveReplayReport(h)
             \/ PublishActionList(h) \/ RecordCandidateRejection(h)
      PROVE  ReviewInv'
  BY <1>2, PolicySaved, ReplaySaved, Decided, Rejected
<1>3. ASSUME NEW h \in Handlers,
             \/ ApplyLayer(h) \/ RepeatLayer(h) \/ ApplyFeedback(h)
             \/ \E run \in Runs : RecordObservation(h, run)
      PROVE  ReviewInv'
  BY <1>3, LayerStep, FeedbackStep, ObservationStep
<1>4. ASSUME NEW h \in Handlers,
             \/ InsertCandidate(h) \/ NotProjected(h) \/ BindCandidate(h)
             \/ ReceiveCandidate(h) \/ ForgetCandidate(h) \/ Lost(h)
      PROVE  ReviewInv'
  BY <1>4, InsertStep, Dropped, BindStep, PointerStep
<1>5. ASSUME \/ \E r \in Revs : AuthorizeExecution(r)
             \/ \E i \in DOMAIN policies : PolicyExpires(i)
             \/ BrowserRestarts
      PROVE  ReviewInv'
  BY <1>5, Authorized, Expired, PointerStep
<1>6. CASE UNCHANGED vars
  <2>1. Quiet /\ UNCHANGED reqs
    BY <1>6 DEF vars, Quiet
  <2> QED BY <2>1, QuietFrame, Unhandled DEF ReviewInv
<1> QED BY <1>1, <1>2, <1>3, <1>4, <1>5, <1>6 DEF Next

LEMMA Invariant == Spec => []ReviewInv
  BY InitInv, NextInv, PTL DEF Spec

-----------------------------------------------------------------------------
(* Every record belongs to a revision of the list, and every binding to a    *)
(* revision the map has had.                                                 *)
THEOREM ReviewTyping == Spec => []TypeOK
  BY Invariant, InvImplies, PTL

(* What PublishActionList has published was approved and never rejected, on  *)
(* a policy for execution and a passed replay of that very revision.         *)
THEOREM OnlyReviewedPublished == Spec => []PublishedIsReviewed
  BY Invariant, InvImplies, PTL

(* The candidate the extension remembers has a durable binding.              *)
THEOREM BoundPointer == Spec => []PointerIsBound
  BY Invariant, InvImplies, PTL

(* Only the transaction of PublishActionList publishes, and it does so only  *)
(* while the revision is the head: the replay it asks for exists only for a  *)
(* revision with a binding, and the binding has to be current.               *)
LEMMA PublishingStep ==
  ASSUME ReviewInv, [Next]_vars, pubs' # pubs
  PROVE  \E h \in Handlers :
           /\ PublishActionList(h) /\ reqs[h].rev \in bound /\ head = reqs[h].rev
           /\ pubs' = [pubs EXCEPT ![reqs[h].rev] = [policy |-> reqs[h].policy, replay |-> reqs[h].replay]]
           /\ ReplayPassed(reqs[h].replay, reqs[h].rev)
<1>1. PICK h \in Handlers : PublishActionList(h)
  BY DEF Next, vars, SubmitReview, StartReplay, AskPolicy, AskGenericPublish, PassGate,
     SavePolicyDecision, SaveReplayReport, RecordCandidateRejection, ForgetCandidate,
     ApplyLayer, RepeatLayer, RecordObservation, ApplyFeedback, InsertCandidate, NotProjected,
     BindCandidate, ReceiveCandidate, Lost, AuthorizeExecution, PolicyExpires, BrowserRestarts
<1>2. /\ Publishable(reqs[h])
      /\ pubs' = [pubs EXCEPT ![reqs[h].rev] = [policy |-> reqs[h].policy, replay |-> reqs[h].replay]]
  BY <1>1 DEF PublishActionList
<1>3. ReplayPassed(reqs[h].replay, reqs[h].rev)
  BY <1>2 DEF Publishable
<1>4. reqs[h].rev \in bound
  BY <1>3, ReplayedIsBound
<1> QED BY <1>1, <1>2, <1>3, <1>4 DEF Publishable, BindingCurrent

THEOREM PublishedAtHead == Spec => PublishedOnHead
<1>1. ReviewInv /\ [Next]_vars => [\A r \in Revs : Published(r)' /\ ~Published(r) => head = r]_vars
  <2> SUFFICES ASSUME ReviewInv, [Next]_vars, NEW r \in Revs, Published(r)', ~Published(r)
               PROVE  head = r
    OBVIOUS
  <2>1. pubs' # pubs
    BY DEF Published
  <2>2. PICK h \in Handlers :
          /\ head = reqs[h].rev
          /\ pubs' = [pubs EXCEPT ![reqs[h].rev] = [policy |-> reqs[h].policy, replay |-> reqs[h].replay]]
    BY <2>1, PublishingStep
  <2> QED BY <2>2 DEF Published, ReviewInv, Publications
<1> QED BY <1>1, Invariant, PTL DEF Spec, PublishedOnHead

(* The generic route publishes nothing of the ambient scope: its gate has    *)
(* found no binding, so its request has no replay to rest on, then or later. *)
THEOREM GenericPublishesNothing == Spec => BoundOnlyThroughReview
<1>1. ReviewInv /\ [Next]_vars =>
        [\A h \in Handlers : reqs[h].kind = "generic" => UNCHANGED pubs \/ reqs'[h] = reqs[h]]_vars
  <2> SUFFICES ASSUME ReviewInv, [Next]_vars, NEW h \in Handlers, reqs[h].kind = "generic", pubs' # pubs
               PROVE  reqs'[h] = reqs[h]
    OBVIOUS
  <2>1. PICK k \in Handlers : PublishActionList(k) /\ ReplayPassed(reqs[k].replay, reqs[k].rev)
    BY PublishingStep
  <2>2. k # h
    <3>1. Sound(reqs[k]) /\ reqs[k].stage = "write"
      BY <2>1 DEF ReviewInv, Handling, PublishActionList
    <3> QED BY <2>1, <3>1 DEF Sound, ReplayPassed
  <2>3. reqs \in [Handlers -> Requests]
    BY DEF ReviewInv, Handling
  <2>4. Advance(k, "approved") \/ Answered(k)
    BY <2>1 DEF PublishActionList
  <2> QED BY <2>2, <2>3, <2>4 DEF Advance, Answered
<1> QED BY <1>1, Invariant, PTL DEF Spec, BoundOnlyThroughReview

(* ApplyRunObservationFeedback counts a run once: delivered again, or by two *)
(* handlers at the same time, it never moves the head a second time.         *)
LEMMA OthersWait ==
  ASSUME ReviewInv, NEW h \in Handlers, NEW k \in Handlers, k # h, NEW q, reqs' = [reqs EXCEPT ![k] = q]
  PROVE  reqs'[h] = reqs[h]
  BY DEF ReviewInv, Handling

LEMMA HeadMoves ==
  ASSUME ReviewInv, [Next]_vars
  PROVE  \/ UNCHANGED <<head, fed>>
         \/ \E h \in Handlers : ApplyLayer(h)
         \/ \E h \in Handlers : ApplyFeedback(h)
  BY DEF Next, vars, SubmitReview, StartReplay, AskPolicy, AskGenericPublish, PassGate,
     SavePolicyDecision, SaveReplayReport, PublishActionList, RecordCandidateRejection,
     ForgetCandidate, RepeatLayer, RecordObservation, InsertCandidate, NotProjected,
     BindCandidate, ReceiveCandidate, Lost, AuthorizeExecution, PolicyExpires, BrowserRestarts

THEOREM FeedbackCountedOnce == Spec => FeedbackOnce
<1> DEFINE Once ==
      \A run \in Runs :
        /\ fed'[run] = fed[run] \/ (fed[run] = 0 /\ fed'[run] = head' /\ head' > head)
        /\ \A h \in Handlers :
             reqs[h].stage = "apply" /\ reqs[h].run = run /\ fed[run] # 0 /\ reqs'[h] # reqs[h] => head' = head
<1>1. ReviewInv /\ [Next]_vars => [Once]_vars
  <2> SUFFICES ASSUME ReviewInv, [Next]_vars PROVE Once
    OBVIOUS
  <2>1. CASE UNCHANGED <<head, fed>>
    BY <2>1
  <2>2. ASSUME NEW k \in Handlers, ApplyLayer(k) PROVE Once
    <3>1. fed' = fed /\ reqs[k].stage = "idle"
      BY <2>2 DEF ApplyLayer, Idle, Request
    <3>2. ASSUME NEW h \in Handlers, reqs[h].stage = "apply" PROVE reqs'[h] = reqs[h]
      <4>1. k # h
        BY <3>1, <3>2
      <4>2. PICK q : reqs' = [reqs EXCEPT ![k] = q]
        BY <2>2 DEF ApplyLayer
      <4> QED BY <4>1, <4>2, OthersWait
    <3> QED BY <3>1, <3>2
  <2>3. ASSUME NEW k \in Handlers, ApplyFeedback(k) PROVE Once
    <3>1. PICK p \in Requests : p = reqs[k] /\ Sound(p) /\ p.stage = "apply"
      BY <2>3 DEF ReviewInv, Handling, ApplyFeedback
    <3>2. p.run \in Runs /\ head \in Nat /\ fed \in [Runs -> 0 .. head]
      BY <3>1, InRange DEF Sound, ReviewInv, Tables
    <3>3. \/ UNCHANGED <<head, fed>>
          \/ fed[p.run] # 0 /\ head' = head /\ fed' = [fed EXCEPT ![p.run] = fed[p.run]]
          \/ fed[p.run] = 0 /\ head' = head + 1 /\ fed' = [fed EXCEPT ![p.run] = head + 1]
      BY <2>3, <3>1 DEF ApplyFeedback
    <3>4. ASSUME NEW run \in Runs
          PROVE  fed'[run] = fed[run] \/ (fed[run] = 0 /\ fed'[run] = head' /\ head' > head)
      BY <3>2, <3>3
    <3>5. ASSUME NEW run \in Runs, NEW h \in Handlers, reqs[h].run = run, fed[run] # 0, reqs'[h] # reqs[h]
          PROVE  head' = head
      <4>1. CASE h = k
        BY <3>1, <3>3, <3>5, <4>1
      <4>2. CASE h # k
        <5>1. \E q : reqs' = [reqs EXCEPT ![k] = q]
          <6>1. reqs \in [Handlers -> Requests]
            BY DEF ReviewInv, Handling
          <6>2. CASE Answered(k)
            BY <6>2 DEF Answered
          <6>3. CASE \E v : reqs' = [reqs EXCEPT ![k].stage = "insert", ![k].rev = v]
            <7>1. PICK v : reqs' = [reqs EXCEPT ![k].stage = "insert", ![k].rev = v]
              BY <6>3
            <7>2. reqs' = [reqs EXCEPT ![k] = [reqs[k] EXCEPT !.stage = "insert", !.rev = v]]
              BY <6>1, <7>1
            <7> QED BY <7>2
          <6> QED BY <2>3, <6>2, <6>3 DEF ApplyFeedback
        <5> QED BY <3>5, <4>2, <5>1, OthersWait
      <4> QED BY <4>1, <4>2
    <3> QED BY <3>4, <3>5
  <2> QED BY <2>1, <2>2, <2>3, HeadMoves
<1>2. Spec => [][Once]_vars
  <2> HIDE DEF Once
  <2> QED BY <1>1, Invariant, PTL DEF Spec
<1> QED BY <1>2 DEF FeedbackOnce
=============================================================================
