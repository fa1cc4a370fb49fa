------------------------- MODULE AmbientDeliveryProofs -------------------------
(* Theorems about AmbientDelivery, for every set of tabs, scopes, patches and
   runs and for every bound. *)
EXTENDS AmbientDelivery, SequenceTheorems, TLAPS

-------------------------------------------------------------------------------
(* The inductive type invariant: a loop or a delivery that is under way has a
   layer, and a loop that waits has a delivery. *)

Flight ==
  /\ \A t \in Tabs :
       /\ loop[t].at \in {"check", "send", "wait", "receipt"} => loop[t].layer \in Layer
       /\ loop[t].at = "wait" => loop[t].call \in CallIds
  /\ \A c \in CallIds : calls[c].stage \in InFlight => calls[c].layer \in Layer

LoopFlight(l) ==
  /\ l.at \in {"check", "send", "wait", "receipt"} => l.layer \in Layer
  /\ l.at = "wait" => l.call \in CallIds
CallFlight(k) == k.stage \in InFlight => k.layer \in Layer

TypeInv == TypeOK /\ Flight

Loops == loop \in [Tabs -> Loop] /\ \A t \in Tabs : LoopFlight(loop[t])
Calls == calls \in [CallIds -> Call] /\ \A c \in CallIds : CallFlight(calls[c])
TabsOK == tab \in [Tabs -> Tab]
WorkerOK ==
  /\ counter \in [Scopes -> 0..MaxSeq]
  /\ session \in 1..MaxSessions
  /\ policy \in [Scopes -> [revision : Nat, allowed : BOOLEAN]]
  /\ notice \in [Tabs -> {"none", "allowed", "revoked"}]
  /\ pointer \in [Scopes -> Nat]
  /\ docs \in Nat /\ faults \in Nat

(* The same, by owner, as the steps change it. *)
LEMMA TypeParts == TypeInv <=> Loops /\ Calls /\ TabsOK /\ WorkerOK /\ SpoolOK /\ StoreOK
  BY DEF TypeInv, TypeOK, Flight, Loops, Calls, TabsOK, WorkerOK, ClientOK, LoopFlight, CallFlight

LEMMA Rejoin == Loops' /\ Calls' /\ TabsOK' /\ WorkerOK' /\ SpoolOK' /\ StoreOK' => TypeInv'
  BY DEF TypeInv, TypeOK, Flight, Loops, Calls, TabsOK, WorkerOK, ClientOK, LoopFlight, CallFlight

LEMMA Frames ==
  /\ Loops /\ UNCHANGED loop => Loops'
  /\ Calls /\ UNCHANGED calls => Calls'
  /\ TabsOK /\ UNCHANGED tab => TabsOK'
  /\ WorkerOK /\ UNCHANGED <<counter, session, policy, notice, pointer, docs, faults>> => WorkerOK'
  /\ SpoolOK /\ UNCHANGED spoolVars => SpoolOK'
  /\ StoreOK /\ UNCHANGED serverVars => StoreOK'
  BY DEF Loops, Calls, TabsOK, WorkerOK, SpoolOK, StoreOK, spoolVars, serverVars

LEMMA RecordTypes ==
  /\ IdleLoop \in Loop /\ LoopFlight(IdleLoop)
  /\ FreeCall \in Call /\ CallFlight(FreeCall)
  /\ Finished \in Call /\ CallFlight(Finished)
  BY StoreAssumption DEF IdleLoop, Loop, LoopStates, Outcomes, LoopFlight, FreeCall, Finished, Call,
     Stages, CallFlight, InFlight, CallIds

LEMMA TabTypes ==
  /\ \A s \in Scopes, c \in Captures, b \in BOOLEAN : Document(s, c, b) \in Tab
  /\ \A d \in Tab : Revoke(d) \in Tab /\ Interrupted(d) \in Tab /\ Stopped(d) \in Tab
  BY DEF Document, Tab, Captures, Revoke, Stopped, Attached, Interrupted

LEMMA WakeType ==
  ASSUME NEW l \in Loop, LoopFlight(l)
  PROVE  WakeLoop(l) \in Loop /\ LoopFlight(WakeLoop(l))
  BY DEF Loop, LoopStates, LoopFlight, WakeLoop

(* A function of records that changes at one point keeps its type. *)
LEMMA OneLoop ==
  ASSUME Loops, NEW t \in Tabs, NEW l \in Loop, LoopFlight(l), loop' = [loop EXCEPT ![t] = l]
  PROVE  Loops'
  BY DEF Loops

LEMMA OneCall ==
  ASSUME Calls, NEW c \in CallIds, NEW k \in Call, CallFlight(k), calls' = [calls EXCEPT ![c] = k]
  PROVE  Calls'
  BY DEF Calls

LEMMA InitType == Init => TypeInv
  <1> SUFFICES ASSUME Init PROVE TypeInv
    OBVIOUS
  <1>1. Loops /\ Calls
    BY RecordTypes DEF Init, Loops, Calls
  <1>2. TabsOK
    <2>1. PICK home \in [Tabs -> Scopes] : tab = [t \in Tabs |-> Document(home[t], "none", FALSE)]
      BY DEF Init
    <2> QED BY <2>1, TabTypes DEF TabsOK, Captures
  <1>3. WorkerOK /\ SpoolOK
    BY StoreAssumption DEF Init, WorkerOK, SpoolOK
  <1>4. StoreOK
    <2>1. EmptyScope \in Scope
      BY DEF EmptyScope, Scope
    <2> QED BY <2>1 DEF Init, StoreOK
  <1> QED BY <1>1, <1>2, <1>3, <1>4, TypeParts

-------------------------------------------------------------------------------
(* Documents and their loops *)

LEMMA DraftType ==
  ASSUME TypeInv, NEW t \in Tabs, DrawNumber(t)
  PROVE  TabsOK' /\ counter' \in [Scopes -> 0..MaxSeq]
  <1> DEFINE d == tab[t]
             n == counter[d.scope] + 1
             l == [scope |-> d.scope, session |-> session, seq |-> n,
                   observed |-> IF d.first THEN d.carried ELSE TRUE, policy |-> d.policy]
  <1>1. d \in Tab /\ n \in 1..MaxSeq /\ session \in 1..MaxSessions
    BY StoreAssumption, TypeParts DEF DrawNumber, TabsOK, WorkerOK, Tab
  <1>2. l \in Layer
    BY <1>1 DEF Layer, Tab
  <1>3. [d EXCEPT !.first = FALSE, !.draft = l] \in Tab
    BY <1>1, <1>2 DEF Tab
  <1>4. tab' = [tab EXCEPT ![t] = [d EXCEPT !.first = FALSE, !.draft = l]]
    BY TypeParts DEF DrawNumber, TabsOK
  <1>5. counter' = [counter EXCEPT ![d.scope] = n]
    BY DEF DrawNumber
  <1> HIDE DEF d, n, l
  <1>6. TabsOK'
    BY <1>3, <1>4, TypeParts DEF TabsOK
  <1>7. n \in 0..MaxSeq
    BY <1>1, StoreAssumption
  <1> QED BY <1>5, <1>6, <1>7, TypeParts DEF WorkerOK

LEMMA EnqueueType ==
  ASSUME TypeInv, NEW t \in Tabs, Enqueue(t)
  PROVE  SpoolOK' /\ TabsOK' /\ Loops'
  <1>1. tab[t] \in Tab /\ tab[t].draft \in Layer /\ loop[t] \in Loop /\ LoopFlight(loop[t])
    BY TypeParts DEF Enqueue, TabsOK, Tab, Loops
  <1>2. [layer |-> tab[t].draft, state |-> "queued", at |-> arrivals] \in SpoolRecord
    BY <1>1, TypeParts DEF SpoolOK, SpoolRecord
  <1>3. SpoolOK'
    BY <1>1, <1>2, TypeParts DEF Enqueue, SpoolOK
  <1>4. [tab[t] EXCEPT !.draft = NoLayer] \in Tab
    BY <1>1 DEF Tab
  <1>5. TabsOK'
    BY <1>4, TypeParts DEF Enqueue, TabsOK
  <1>6. Loops'
    BY <1>1, WakeType, OneLoop, TypeParts DEF Enqueue, Loops
  <1> QED BY <1>3, <1>5, <1>6

LEMMA PolicyEventType ==
  ASSUME TypeInv, NEW t \in Tabs, PolicyEvent(t)
  PROVE  TabsOK' /\ Loops'
  <1> DEFINE d == tab[t]
             p == policy[d.scope]
  <1>1. d \in Tab /\ loop[t] \in Loop /\ LoopFlight(loop[t]) /\ Loops /\ TabsOK
        /\ p \in [revision : Nat, allowed : BOOLEAN]
    BY TypeParts DEF TabsOK, Loops, WorkerOK, Tab
  <1>2. loop' = loop \/ loop' = [loop EXCEPT ![t] = WakeLoop(loop[t])]
    BY <1>1 DEF PolicyEvent, Loops
  <1>3. Loops'
    BY <1>1, <1>2, WakeType, OneLoop, Frames
  <1>4. [d EXCEPT !.capture = "asked", !.first = TRUE, !.carried = @ /\ d.capture # "off",
                  !.policy = IF p.allowed THEN p.revision ELSE 0] \in Tab
    BY <1>1 DEF Tab, Captures
  <1>5. \/ tab' = tab
        \/ tab' = [tab EXCEPT ![t] = Revoke(d)]
        \/ tab' = [tab EXCEPT ![t] = [d EXCEPT !.capture = "asked", !.first = TRUE, !.carried = @ /\ d.capture # "off",
                                               !.policy = IF p.allowed THEN p.revision ELSE 0]]
    BY <1>1 DEF PolicyEvent, TabsOK
  <1>6. TabsOK'
    BY <1>1, <1>4, <1>5, TabTypes DEF TabsOK
  <1> QED BY <1>3, <1>6

LEMMA DocumentStep ==
  ASSUME TypeInv, NEW t \in Tabs, InDocument(t)
  PROVE  TypeInv'
  <1>1. ASSUME NEW s \in Scopes, NEW carried \in BOOLEAN, Navigate(t, s, carried)
        PROVE  TypeInv'
    <2>1. TabsOK'
      BY <1>1, TabTypes, TypeParts DEF Navigate, TabsOK, Captures
    <2>2. Loops'
      BY <1>1, RecordTypes, OneLoop, TypeParts DEF Navigate
    <2>3. WorkerOK'
      BY <1>1, TypeParts DEF Navigate, WorkerOK
    <2> QED BY <1>1, <2>1, <2>2, <2>3, TypeParts, Frames, Rejoin DEF Navigate
  <1>2. CASE Start(t)
    <2>1. policy[tab[t].scope] \in [revision : Nat, allowed : BOOLEAN] /\ tab[t] \in Tab
      BY TypeParts DEF TabsOK, Tab, WorkerOK
    <2>2. TabsOK'
      BY <1>2, <2>1, TypeParts DEF Start, TabsOK, Tab, Captures
    <2> QED BY <1>2, <2>2, TypeParts, Frames, Rejoin DEF Start
  <1>3. CASE Attach(t)
    <2>1. TabsOK'
      BY <1>3, TypeParts DEF Attach, TabsOK, Tab, Captures
    <2> QED BY <1>3, <2>1, TypeParts, Frames, Rejoin DEF Attach
  <1>4. CASE DrawNumber(t)
    <2>1. WorkerOK'
      BY <1>4, DraftType, TypeParts DEF DrawNumber, WorkerOK
    <2> QED BY <1>4, <2>1, DraftType, TypeParts, Frames, Rejoin DEF DrawNumber
  <1>5. CASE Enqueue(t)
    BY <1>5, EnqueueType, TypeParts, Frames, Rejoin DEF Enqueue
  <1>6. CASE PolicyEvent(t)
    <2>1. WorkerOK'
      BY <1>6, TypeParts DEF PolicyEvent, WorkerOK
    <2> QED BY <1>6, <2>1, PolicyEventType, TypeParts, Frames, Rejoin DEF PolicyEvent
  <1> QED BY <1>1, <1>2, <1>3, <1>4, <1>5, <1>6 DEF InDocument

LEMMA LoopStep ==
  ASSUME TypeInv, NEW t \in Tabs, InLoop(t)
  PROVE  TypeInv'
  <1>1. loop[t] \in Loop /\ LoopFlight(loop[t]) /\ tab[t] \in Tab
    BY TypeParts DEF Loops, TabsOK
  <1>2. CASE TakeOldest(t)
    <2>1. \A r \in Queued : r.layer \in Layer
      BY TypeParts DEF Queued, SpoolOK, SpoolRecord
    <2>2. \E l \in Loop : LoopFlight(l) /\ loop' = [loop EXCEPT ![t] = l]
      <3>1. CASE Queued = {}
        BY <1>2, <3>1, RecordTypes DEF TakeOldest
      <3>2. CASE Queued # {}
        <4>1. PICK r \in Queued : loop' = [loop EXCEPT ![t].at = "check", ![t].layer = r.layer]
          BY <1>2, <3>2 DEF TakeOldest
        <4>2. loop' = [loop EXCEPT ![t] = [loop[t] EXCEPT !.at = "check", !.layer = r.layer]]
          BY <4>1, TypeParts DEF Loops
        <4> QED BY <1>1, <2>1, <4>2 DEF Loop, LoopStates, LoopFlight
      <3> QED BY <3>1, <3>2
    <2>3. Loops'
      BY <2>2, OneLoop, TypeParts
    <2> QED BY <1>2, <2>3, TypeParts, Frames, Rejoin DEF TakeOldest
  <1>3. CASE CheckPolicy(t)
    <2>1. loop[t].layer \in Layer
      BY <1>1, <1>3 DEF CheckPolicy, LoopFlight
    <2>2. LoopFlight([loop[t] EXCEPT !.at = "send"]) /\ [loop[t] EXCEPT !.at = "send"] \in Loop
      BY <1>1, <2>1 DEF LoopFlight, Loop, LoopStates
    <2>3. \/ loop' = [loop EXCEPT ![t] = [loop[t] EXCEPT !.at = "send"]]
          \/ loop' = [loop EXCEPT ![t] = IdleLoop]
      BY <1>3, TypeParts DEF CheckPolicy, Loops
    <2>4. Loops'
      BY <2>2, <2>3, RecordTypes, OneLoop, TypeParts
    <2>5. tab' = tab \/ tab' = [tab EXCEPT ![t] = Revoke(tab[t])]
      BY <1>3, TypeParts DEF CheckPolicy, TabsOK
    <2>6. TabsOK'
      BY <2>5, <1>1, TabTypes, TypeParts DEF TabsOK
    <2> QED BY <1>3, <2>4, <2>6, TypeParts, Frames, Rejoin DEF CheckPolicy
  <1>4. CASE Send(t)
    <2>1. loop[t].layer \in Layer
      BY <1>1, <1>4 DEF Send, LoopFlight
    <2>2. PICK c \in CallIds :
            /\ calls' = [calls EXCEPT ![c] = [FreeCall EXCEPT !.stage = "load", !.layer = loop[t].layer]]
            /\ loop' = [loop EXCEPT ![t].at = "wait", ![t].call = c]
      BY <1>4 DEF Send
    <2>3. [FreeCall EXCEPT !.stage = "load", !.layer = loop[t].layer] \in Call
      BY <2>1, RecordTypes DEF Call, Stages
    <2>4. CallFlight([FreeCall EXCEPT !.stage = "load", !.layer = loop[t].layer])
      BY <2>1, RecordTypes DEF Call, CallFlight
    <2>5. Calls'
      BY <2>2, <2>3, <2>4, OneCall, TypeParts
    <2>6. loop' = [loop EXCEPT ![t] = [loop[t] EXCEPT !.at = "wait", !.call = c]]
      BY <2>2, TypeParts DEF Loops
    <2>7. [loop[t] EXCEPT !.at = "wait", !.call = c] \in Loop
          /\ LoopFlight([loop[t] EXCEPT !.at = "wait", !.call = c])
      BY <1>1, <2>1 DEF Loop, LoopStates, LoopFlight
    <2>8. Loops'
      BY <2>6, <2>7, OneLoop, TypeParts
    <2> QED BY <1>4, <2>5, <2>8, TypeParts, Frames, Rejoin DEF Send
  <1>5. CASE Receive(t)
    <2>1. [IdleLoop EXCEPT !.at = "next"] \in Loop /\ LoopFlight([IdleLoop EXCEPT !.at = "next"])
      BY RecordTypes DEF Loop, LoopStates, LoopFlight
    <2>2. Loops'
      BY <1>5, <2>1, OneLoop, TypeParts DEF Receive
    <2>3. \A r \in SpoolRecord : [r EXCEPT !.state = "reparse"] \in SpoolRecord
      BY DEF SpoolRecord
    <2>4. SpoolOK'
      BY <1>5, <2>3, TypeParts DEF Receive, SpoolOK, Named
    <2> QED BY <1>5, <2>2, <2>4, TypeParts, Frames, Rejoin DEF Receive
  <1> QED BY <1>2, <1>3, <1>4, <1>5 DEF InLoop

-------------------------------------------------------------------------------
(* The store *)

LEMMA InputType ==
  ASSUME NEW k \in Call, k.layer \in Layer
  PROVE  InputOf(k) \in Input
  BY DEF InputOf, RequestOf, Input, Request, Call

LEMMA HeadType == \A m \in Scope : HeadRevision(m) \in Nat
  BY LenProperties DEF HeadRevision, Scope

LEMMA StatusType ==
  ASSUME NEW m, NEW in, NEW contentOk
  PROVE  Decide(m, in, contentOk) \in Statuses
  BY DEF Decide, Statuses

LEMMA RecordType ==
  ASSUME NEW m \in Scope, NEW in \in Input, NEW status \in Statuses, NEW ready \in BOOLEAN
  PROVE  Record(m, in, status, ready) \in Scope /\ ResultRevision(m, status) \in Nat
  <1>1. ResultRevision(m, status) \in Nat
    BY HeadType DEF ResultRevision
  <1>2. [input |-> in, status |-> status, revision |-> ResultRevision(m, status)] \in Receipt
    BY <1>1 DEF Receipt
  <1>3. [layer |-> in.request.layer, run |-> NoRun, base |-> in.request.base, ready |-> ready] \in Revision
    BY DEF Input, Request, Revision
  <1>4. in.request.layer.seq \in Nat
    BY StoreAssumption DEF Input, Request, Layer
  <1>5. \A rev \in Revision : Append(m.revisions, rev) \in Seq(Revision)
    BY AppendProperties DEF Scope
  <1>6. m.last \in Nat /\ m.revisions \in Seq(Revision) /\ m.receipts \in SUBSET Receipt
    BY DEF Scope
  <1> QED BY <1>1, <1>2, <1>3, <1>4, <1>5, <1>6 DEF Record, Scope

LEMMA LearnType ==
  ASSUME NEW m \in Scope, NEW run \in Runs, NEW ready \in BOOLEAN
  PROVE  LearnFrom(m, run, ready) \in Scope
  <1>1. [layer |-> NoLayer, run |-> run, base |-> HeadRevision(m), ready |-> ready] \in Revision
    BY HeadType DEF Revision
  <1>2. Append(m.revisions, [layer |-> NoLayer, run |-> run, base |-> HeadRevision(m), ready |-> ready])
          \in Seq(Revision)
    BY <1>1, AppendProperties DEF Scope
  <1> QED BY <1>2 DEF LearnFrom, Scope

(* A call that changes some of its fields. *)
LEMMA CallFields ==
  ASSUME NEW k \in Call, k.layer \in Layer,
         NEW stage \in Stages, NEW outcome \in Outcomes, NEW n \in Nat
  PROVE  /\ [k EXCEPT !.stage = stage, !.outcome = outcome] \in Call
         /\ [k EXCEPT !.stage = stage, !.outcome = outcome, !.revision = n] \in Call
         /\ CallFlight([k EXCEPT !.stage = stage, !.outcome = outcome])
         /\ CallFlight([k EXCEPT !.stage = stage, !.outcome = outcome, !.revision = n])
  BY DEF Call, CallFlight

LEMMA AnsweredType ==
  ASSUME Calls, NEW c \in CallIds, calls[c].layer \in Layer, NEW o \in Outcomes,
         calls' = Answered(c, o)
  PROVE  Calls'
  <1> DEFINE k == [calls[c] EXCEPT !.stage = "reply", !.outcome = o]
  <1>1. k \in Call /\ CallFlight(k)
    BY CallFields DEF Calls, Stages
  <1>2. calls' = [calls EXCEPT ![c] = k]
    BY DEF Answered, Calls
  <1> HIDE DEF k
  <1> QED BY <1>1, <1>2, OneCall

LEMMA ContinueType ==
  ASSUME Calls, NEW c \in CallIds, calls[c].layer \in Layer, NEW n \in Nat,
         NEW status \in Statuses \cup {"duplicate"}, calls' = Continue(c, status, n)
  PROVE  Calls'
  <1> DEFINE k == calls[c]
  <1>1. k \in Call
    BY DEF Calls
  <1>2. CASE status = "conflict" /\ k.gen = 0
    <2>1. calls' = [calls EXCEPT ![c] = [k EXCEPT !.stage = "load", !.gen = 1]]
      BY <1>2 DEF Continue, Calls
    <2>2. [k EXCEPT !.stage = "load", !.gen = 1] \in Call
          /\ CallFlight([k EXCEPT !.stage = "load", !.gen = 1])
      BY <1>1 DEF Call, Stages, CallFlight
    <2> QED BY <2>1, <2>2, OneCall
  <1>3. CASE status \in {"applied", "duplicate"}
    <2>1. calls' = [calls EXCEPT ![c] = [k EXCEPT !.stage = "project", !.outcome = status, !.revision = n]]
      BY <1>3 DEF Continue, Calls
    <2>2. [k EXCEPT !.stage = "project", !.outcome = status, !.revision = n] \in Call
          /\ CallFlight([k EXCEPT !.stage = "project", !.outcome = status, !.revision = n])
      BY <1>1, <1>3, CallFields DEF Stages, Outcomes
    <2> QED BY <2>1, <2>2, OneCall
  <1>4. CASE ~(status = "conflict" /\ k.gen = 0) /\ status \notin {"applied", "duplicate"}
    <2>1. calls' = Answered(c, status)
      BY <1>4 DEF Continue
    <2> QED BY <2>1, AnsweredType DEF Statuses, Outcomes
  <1> QED BY <1>2, <1>3, <1>4

LEMMA ServerStep ==
  ASSUME TypeInv, NEW c \in CallIds, InServer(c)
  PROVE  TypeInv'
  <1> DEFINE k == calls[c]
             s == k.layer.scope
  <1>1. k \in Call /\ Calls /\ CallFlight(k)
    BY TypeParts DEF Calls
  <1>2. k.layer \in Layer
    BY <1>1 DEF InServer, Load, Parse, Apply, Project, InsertCandidate, Bind, Reply, CallFlight,
                InFlight, Stages
  <1>3. s \in Scopes /\ map[s] \in Scope /\ k.revision \in Nat /\ StoreOK
    BY <1>1, <1>2, TypeParts DEF Layer, StoreOK, Call
  <1>4. CASE Load(c)
    <2> DEFINE m == map[s]
               j == [k EXCEPT !.stage = "parse", !.base = HeadRevision(m), !.prev = m.last]
    <2>1. j \in Call /\ CallFlight(j)
      BY <1>1, <1>2, <1>3, HeadType DEF Call, Stages, Scope, CallFlight
    <2>2. calls' = [calls EXCEPT ![c] = j] \/ calls' = Answered(c, "rejected")
      BY <1>4 DEF Load
    <2>3. Calls'
      BY <1>1, <1>2, <2>1, <2>2, OneCall, AnsweredType DEF Outcomes
    <2> QED BY <1>4, <2>3, TypeParts, Frames, Rejoin DEF Load, clientVars, WorkerOK
  <1>5. CASE Parse(c)
    <2>1. ASSUME NEW a \in Patches \cup {NoChange},
                 calls' = [calls EXCEPT ![c].stage = "apply", ![c].answer = a]
          PROVE  Calls'
      <3>1. calls' = [calls EXCEPT ![c] = [k EXCEPT !.stage = "apply", !.answer = a]]
        BY <2>1, <1>1 DEF Calls
      <3>2. [k EXCEPT !.stage = "apply", !.answer = a] \in Call
            /\ CallFlight([k EXCEPT !.stage = "apply", !.answer = a])
        BY <1>1, <1>2 DEF Call, Stages, CallFlight
      <3> QED BY <1>1, <3>1, <3>2, OneCall
    <2>2. Calls'
      BY <1>1, <1>2, <1>5, <2>1, AnsweredType DEF Parse, Outcomes
    <2> QED BY <1>5, <2>2, TypeParts, Frames, Rejoin DEF Parse, clientVars
  <1>6. CASE Apply(c)
    <2>1. InputOf(k) \in Input
      BY <1>1, <1>2, InputType
    <2>2. ASSUME NEW r \in Receipts(map[s], InputOf(k)),
                 calls' = Continue(c, Repeated(r, InputOf(k)), r.revision), UNCHANGED map
          PROVE  Calls' /\ StoreOK'
      <3>1. r \in Receipt
        BY <1>3 DEF Receipts, Scope
      <3>2. Repeated(r, InputOf(k)) \in Statuses \cup {"duplicate"} /\ r.revision \in Nat
        BY <3>1 DEF Repeated, Receipt, Statuses
      <3>3. StoreOK'
        BY <1>3, <1>6, <2>2 DEF StoreOK, Apply
      <3> QED BY <1>1, <1>2, <2>2, <3>2, <3>3, ContinueType
    <2>3. ASSUME NEW contentOk \in BOOLEAN, NEW ready \in BOOLEAN, NEW status \in Statuses,
                 map' = [map EXCEPT ![s] = Record(map[s], InputOf(k), status, ready)],
                 calls' = Continue(c, status, ResultRevision(map[s], status))
          PROVE  Calls' /\ StoreOK'
      <3>1. Record(map[s], InputOf(k), status, ready) \in Scope /\ ResultRevision(map[s], status) \in Nat
        BY <1>3, <2>1, RecordType
      <3>2. StoreOK'
        BY <1>3, <1>6, <2>3, <3>1 DEF StoreOK, Apply
      <3> QED BY <1>1, <1>2, <2>3, <3>1, <3>2, ContinueType
    <2>4. Calls' /\ StoreOK'
      BY <1>6, <2>2, <2>3, StatusType DEF Apply
    <2> QED BY <1>6, <2>4, TypeParts, Frames, Rejoin DEF Apply, clientVars
  <1>7. CASE Project(c)
    <2>1. ASSUME NEW stamp \in Stamps, NEW stage \in {"insert", "bind"},
                 calls' = [calls EXCEPT ![c].stamp = stamp, ![c].stage = stage]
          PROVE  Calls'
      <3>1. calls' = [calls EXCEPT ![c] = [k EXCEPT !.stamp = stamp, !.stage = stage]]
        BY <2>1, <1>1 DEF Calls
      <3>2. [k EXCEPT !.stamp = stamp, !.stage = stage] \in Call
            /\ CallFlight([k EXCEPT !.stamp = stamp, !.stage = stage])
        BY <1>1, <1>2 DEF Call, Stages, CallFlight
      <3> QED BY <1>1, <3>1, <3>2, OneCall
    <2>2. Calls'
      BY <1>1, <1>2, <1>7, <2>1, AnsweredType DEF Project, Outcomes
    <2> QED BY <1>7, <2>2, TypeParts, Frames, Rejoin DEF Project, clientVars
  <1>8. CASE InsertCandidate(c)
    <2>1. ASSUME calls' = [calls EXCEPT ![c].stage = "bind"]
          PROVE  Calls'
      <3>1. calls' = [calls EXCEPT ![c] = [k EXCEPT !.stage = "bind"]]
        BY <2>1, <1>1 DEF Calls
      <3>2. [k EXCEPT !.stage = "bind"] \in Call /\ CallFlight([k EXCEPT !.stage = "bind"])
        BY <1>1, <1>2 DEF Call, Stages, CallFlight
      <3> QED BY <1>1, <3>1, <3>2, OneCall
    <2>2. Calls'
      BY <1>1, <1>2, <1>8, <2>1, AnsweredType DEF InsertCandidate, Outcomes
    <2>3. [revision |-> k.revision, stamp |-> k.stamp] \in [revision : Nat, stamp : Stamps \cup {FeedbackStamp}]
      BY <1>1 DEF Call, FeedbackStamp
    <2>4. StoreOK'
      BY <1>3, <1>8, <2>3 DEF InsertCandidate, StoreOK
    <2> QED BY <1>8, <2>2, <2>4, TypeParts, Frames, Rejoin DEF InsertCandidate, clientVars
  <1>9. CASE Bind(c)
    <2>1. ASSUME calls' = [calls EXCEPT ![c].stage = "reply"]
          PROVE  Calls'
      <3>1. calls' = [calls EXCEPT ![c] = [k EXCEPT !.stage = "reply"]]
        BY <2>1, <1>1 DEF Calls
      <3>2. [k EXCEPT !.stage = "reply"] \in Call /\ CallFlight([k EXCEPT !.stage = "reply"])
        BY <1>1, <1>2 DEF Call, Stages, CallFlight
      <3> QED BY <1>1, <3>1, <3>2, OneCall
    <2>2. Calls'
      BY <1>1, <1>2, <1>9, <2>1, AnsweredType DEF Bind, Outcomes
    <2>3. StoreOK'
      BY <1>3, <1>9 DEF Bind, StoreOK
    <2> QED BY <1>9, <2>2, <2>3, TypeParts, Frames, Rejoin DEF Bind, clientVars
  <1>10. CASE Reply(c)
    <2>1. Calls'
      BY <1>1, <1>10, RecordTypes, OneCall DEF Reply
    <2>2. \A t \in Tabs : [loop[t] EXCEPT !.at = "receipt", !.call = 0, !.outcome = k.outcome] \in Loop
      <3>1. k.outcome \in Outcomes
        BY <1>1 DEF Call
      <3>2. \A l \in Loop, o \in Outcomes : [l EXCEPT !.at = "receipt", !.call = 0, !.outcome = o] \in Loop
        BY DEF Loop, LoopStates
      <3> QED BY <3>1, <3>2, TypeParts DEF Loops
    <2>3. \A t \in Tabs : Waits(t, c) =>
            LoopFlight([loop[t] EXCEPT !.at = "receipt", !.call = 0, !.outcome = k.outcome])
      BY TypeParts DEF Loops, Loop, LoopFlight, Waits
    <2>4. Loops'
      BY <1>10, <2>2, <2>3, RecordTypes, TypeParts DEF Reply, Loops
    <2>5. pointer' \in [Scopes -> Nat]
      BY <1>3, <1>10, TypeParts DEF Reply, WorkerOK
    <2>6. WorkerOK'
      BY <1>10, <2>5, TypeParts DEF Reply, WorkerOK
    <2> QED BY <1>10, <2>1, <2>4, <2>6, TypeParts, Frames, Rejoin DEF Reply
  <1> QED BY <1>4, <1>5, <1>6, <1>7, <1>8, <1>9, <1>10 DEF InServer

-------------------------------------------------------------------------------
(* Feedback, policy and failures *)

LEMMA FeedbackStep ==
  ASSUME TypeInv, NEW s \in Scopes, Feedback(s)
  PROVE  TypeInv'
  <1>1. ASSUME NEW run \in Runs, Observe(s, run) PROVE TypeInv'
    <2>1. PICK ready \in BOOLEAN : map' = [map EXCEPT ![s] = LearnFrom(@, run, ready)]
      BY <1>1 DEF Observe
    <2>2. StoreOK'
      BY <1>1, <2>1, LearnType, TypeParts DEF Observe, StoreOK
    <2> QED BY <1>1, <2>2, TypeParts, Frames, Rejoin DEF Observe, clientVars
  <1>2. RunRevisions(s) \subseteq Nat
    BY HeadType, TypeParts DEF RunRevisions, StoreOK
  <1>3. CASE InsertObserved(s)
    <2>1. \A n \in Nat : [revision |-> n, stamp |-> FeedbackStamp]
                            \in [revision : Nat, stamp : Stamps \cup {FeedbackStamp}]
      OBVIOUS
    <2>2. StoreOK'
      BY <1>2, <1>3, <2>1, TypeParts DEF InsertObserved, StoreOK
    <2> QED BY <1>3, <2>2, TypeParts, Frames, Rejoin DEF InsertObserved, clientVars
  <1>4. CASE BindObserved(s)
    <2>1. StoreOK'
      BY <1>2, <1>4, TypeParts DEF BindObserved, StoreOK
    <2> QED BY <1>4, <2>1, TypeParts, Frames, Rejoin DEF BindObserved, clientVars
  <1> QED BY <1>1, <1>3, <1>4 DEF Feedback

LEMMA PolicyStep ==
  ASSUME TypeInv, NEW s \in Scopes, NEW allowed \in BOOLEAN, DecidePolicy(s, allowed)
  PROVE  TypeInv'
  <1>1. policy' \in [Scopes -> [revision : Nat, allowed : BOOLEAN]]
    BY TypeParts DEF DecidePolicy, WorkerOK
  <1>2. WorkerOK'
    BY <1>1, TypeParts DEF DecidePolicy, WorkerOK
  <1> QED BY <1>2, TypeParts, Frames, Rejoin DEF DecidePolicy

LEMMA UnheardType == ASSUME Calls, calls' = Unheard PROVE Calls'
  <1>1. \A k \in Call : CallFlight(k) =>
          [k EXCEPT !.heard = FALSE] \in Call /\ CallFlight([k EXCEPT !.heard = FALSE])
    BY DEF Call, CallFlight
  <1> QED BY <1>1 DEF Calls, Unheard

LEMMA DiscardType ==
  ASSUME SpoolOK, NEW gone, gone \subseteq spool, Discard(gone)
  PROVE  SpoolOK'
  BY DEF SpoolOK, Discard, SpoolRecord

LEMMA FaultType == ASSUME WorkerOK, Fault PROVE faults' \in Nat
  BY DEF WorkerOK, Fault

LEMMA FailureStep ==
  ASSUME TypeInv, Failure
  PROVE  TypeInv'
  <1>1. ASSUME NEW c \in CallIds, CallFails(c) PROVE TypeInv'
    <2>1. Calls'
      BY <1>1, RecordTypes, OneCall, TypeParts DEF CallFails
    <2>2. Loops'
      BY <1>1, RecordTypes, TypeParts DEF CallFails, Loops
    <2>3. WorkerOK'
      BY <1>1, FaultType, TypeParts DEF CallFails, WorkerOK
    <2> QED BY <1>1, <2>1, <2>2, <2>3, TypeParts, Frames, Rejoin DEF CallFails
  <1>2. CASE WorkerStops
    <2>1. TabsOK'
      BY <1>2, TabTypes, TypeParts DEF WorkerStops, TabsOK
    <2>2. Loops'
      BY <1>2, RecordTypes, TypeParts DEF WorkerStops, Loops
    <2>3. WorkerOK'
      BY <1>2, FaultType, TypeParts DEF WorkerStops, WorkerOK
    <2>4. Calls'
      BY <1>2, UnheardType, TypeParts DEF WorkerStops
    <2> QED BY <1>2, <2>1, <2>2, <2>3, <2>4, TypeParts, Frames, Rejoin DEF WorkerStops
  <1>3. CASE Expire
    <2>1. SpoolOK'
      BY <1>3, DiscardType, TypeParts DEF Expire
    <2>2. WorkerOK'
      BY <1>3, FaultType, TypeParts DEF Expire, WorkerOK, clientVars
    <2> QED BY <1>3, <2>1, <2>2, TypeParts, Frames, Rejoin DEF Expire, clientVars
  <1>4. ASSUME NEW s \in Scopes, RemoveMatching(s) PROVE TypeInv'
    <2>1. SpoolOK'
      BY <1>4, DiscardType, TypeParts DEF RemoveMatching
    <2>2. WorkerOK'
      BY <1>4, FaultType, TypeParts DEF RemoveMatching, WorkerOK, clientVars
    <2> QED BY <1>4, <2>1, <2>2, TypeParts, Frames, Rejoin DEF RemoveMatching, clientVars
  <1>5. CASE BrowserRestart
    <2>1. TabsOK'
      <3>1. \A t \in Tabs : tab[t].scope \in Scopes
        BY TypeParts DEF TabsOK, Tab
      <3> QED BY <1>5, <3>1, TabTypes DEF BrowserRestart, TabsOK, Captures
    <2>2. Loops'
      BY <1>5, RecordTypes, TypeParts DEF BrowserRestart, Loops
    <2>3. session' \in 1..MaxSessions /\ 0 \in 0..MaxSeq
      BY <1>5, StoreAssumption, TypeParts DEF BrowserRestart, WorkerOK
    <2>4. WorkerOK'
      BY <1>5, <2>3, FaultType, TypeParts DEF BrowserRestart, WorkerOK
    <2>5. Calls'
      BY <1>5, UnheardType, TypeParts DEF BrowserRestart
    <2>6. SpoolOK'
      BY <1>5, DiscardType, TypeParts DEF BrowserRestart
    <2> QED BY <1>5, <2>1, <2>2, <2>4, <2>5, <2>6, TypeParts, Frames, Rejoin DEF BrowserRestart
  <1> QED BY <1>1, <1>2, <1>3, <1>4, <1>5 DEF Failure

LEMMA TypeStep == TypeInv /\ [Next]_vars => TypeInv'
  <1> SUFFICES ASSUME TypeInv, [Next]_vars PROVE TypeInv'
    OBVIOUS
  <1>1. CASE UNCHANGED vars
    <2>1. UNCHANGED <<loop, calls, tab, counter, session, policy, notice, pointer, docs, faults>>
          /\ UNCHANGED spoolVars /\ UNCHANGED serverVars
      BY <1>1 DEF vars, clientVars
    <2> QED BY <2>1, TypeParts, Frames, Rejoin
  <1> QED BY <1>1, DocumentStep, LoopStep, ServerStep, FeedbackStep, PolicyStep, FailureStep DEF Next

(* Every reachable state is well typed, for any number of tabs, scopes,
   deliveries, browser sessions and failures. *)
THEOREM DeliveryTyping == Spec => []TypeOK
  <1>1. TypeInv => TypeOK
    BY DEF TypeInv
  <1> QED BY <1>1, InitType, TypeStep, PTL DEF Spec

-------------------------------------------------------------------------------
(* The store implements the log *)

Entries == {LogEntry(r) : r \in Revision}

LEMMA LogOfType ==
  ASSUME NEW m \in Scope
  PROVE  LogOf(m) \in Seq(Entries) /\ Len(LogOf(m)) = HeadRevision(m)
  <1>1. m.revisions \in Seq(Revision) /\ HeadRevision(m) \in Nat
    BY HeadType DEF Scope
  <1>2. \A n \in 1..HeadRevision(m) : m.revisions[n] \in Revision
    BY <1>1, ElementOfSeq DEF HeadRevision
  <1>3. LogOf(m) \in [1..HeadRevision(m) -> Entries]
    BY <1>2 DEF LogOf, Entries
  <1>4. LogOf(m) \in Seq(Entries)
    BY <1>1, <1>3, SeqDef
  <1>5. DOMAIN LogOf(m) = 1..HeadRevision(m) /\ DOMAIN LogOf(m) = 1..Len(LogOf(m))
    BY <1>4, LenProperties DEF LogOf
  <1>6. Len(LogOf(m)) \in Nat
    BY <1>4, LenProperties
  <1> QED BY <1>1, <1>4, <1>5, <1>6

(* A revision more in the row is an entry more in the log. *)
LEMMA LogOfAppend ==
  ASSUME NEW m \in Scope, NEW n \in Scope, NEW r \in Revision,
         n.revisions = Append(m.revisions, r)
  PROVE  LogOf(n) = Append(LogOf(m), LogEntry(r))
  <1>1. m.revisions \in Seq(Revision) /\ HeadRevision(m) \in Nat
    BY HeadType DEF Scope
  <1>2. HeadRevision(n) = HeadRevision(m) + 1
    BY <1>1, AppendProperties DEF HeadRevision
  <1>3. LogOf(n) \in Seq(Entries) /\ Len(LogOf(n)) = HeadRevision(n)
        /\ LogOf(m) \in Seq(Entries) /\ Len(LogOf(m)) = HeadRevision(m)
    BY LogOfType
  <1>4. LogEntry(r) \in Entries
    BY DEF Entries
  <1> DEFINE l == Append(LogOf(m), LogEntry(r))
  <1>5. l \in Seq(Entries) /\ Len(l) = HeadRevision(m) + 1 /\ l[HeadRevision(m) + 1] = LogEntry(r)
        /\ \A i \in 1..HeadRevision(m) : l[i] = LogOf(m)[i]
    BY <1>3, <1>4, AppendProperties
  <1>6. n.revisions[HeadRevision(m) + 1] = r /\ \A i \in 1..HeadRevision(m) : n.revisions[i] = m.revisions[i]
    BY <1>1, AppendProperties DEF HeadRevision
  <1>7. \A i \in 1..(HeadRevision(m) + 1) : LogOf(n)[i] = LogEntry(n.revisions[i])
    BY <1>2 DEF LogOf
  <1>8. \A i \in 1..HeadRevision(m) : LogOf(m)[i] = LogEntry(m.revisions[i])
    BY DEF LogOf
  <1> HIDE DEF l
  <1>9. \A i \in 1..(HeadRevision(m) + 1) : LogOf(n)[i] = l[i]
    <2> TAKE i \in 1..(HeadRevision(m) + 1)
    <2>1. CASE i = HeadRevision(m) + 1
      BY <1>5, <1>6, <1>7, <2>1
    <2>2. CASE i \in 1..HeadRevision(m)
      BY <1>5, <1>6, <1>7, <1>8, <2>2
    <2> QED BY <1>1, <2>1, <2>2
  <1>10. LogOf(n) = l
    BY <1>2, <1>3, <1>5, <1>9, SeqEqual
  <1> QED BY <1>10 DEF l

(* What a decision does to a scope, as the log sees it. *)
LEMMA RecordLog ==
  ASSUME NEW m \in Scope, NEW in \in Input, NEW contentOk \in BOOLEAN, NEW ready \in BOOLEAN
  PROVE  LET status == Decide(m, in, contentOk)
             n == Record(m, in, status, ready)
             seq == in.request.layer.seq IN
         \/ /\ n.last = seq /\ seq > m.last /\ seq \in 1..MaxSeq
            /\ \/ LogOf(n) = Append(LogOf(m), Log!Revision(seq, NoRun, Len(LogOf(m))))
               \/ LogOf(n) = LogOf(m)
         \/ n.last = m.last /\ LogOf(n) = LogOf(m)
  <1> DEFINE status == Decide(m, in, contentOk)
             n == Record(m, in, status, ready)
             seq == in.request.layer.seq
             base == in.request.base
             r == [layer |-> in.request.layer, run |-> NoRun, base |-> base, ready |-> ready]
  <1>1. seq \in 1..MaxSeq /\ in.request.layer \in Layer /\ base \in Nat
    BY DEF Input, Request, Layer
  <1>2. n \in Scope
    BY RecordType, StatusType
  <1>3. m.last \in Nat /\ HeadRevision(m) \in Nat
    BY HeadType DEF Scope
  <1>4. CASE status = "applied"
    <2>1. ~Conflicts(m, in)
      BY <1>4 DEF Decide
    <2>2. base = HeadRevision(m) /\ seq > m.last
      BY <1>1, <1>3, <2>1, StoreAssumption DEF Conflicts
    <2>3. n.last = seq /\ n.revisions = Append(m.revisions, r)
      BY <1>4 DEF Record, Accepted
    <2>4. r \in Revision
      BY <1>1 DEF Revision
    <2>5. LogOf(n) = Append(LogOf(m), LogEntry(r))
      BY <1>2, <2>3, <2>4, LogOfAppend
    <2>6. LogEntry(r) = Log!Revision(seq, NoRun, Len(LogOf(m)))
      BY <1>1, <2>2, LogOfType, StoreAssumption DEF LogEntry, Log!Revision
    <2> QED BY <1>1, <2>2, <2>3, <2>5, <2>6
  <1>5. CASE status = "no_change"
    <2>1. ~Conflicts(m, in)
      BY <1>5 DEF Decide
    <2>2. seq > m.last
      BY <1>1, <1>3, <2>1, StoreAssumption DEF Conflicts
    <2>3. n.last = seq /\ n.revisions = m.revisions
      BY <1>5 DEF Record, Accepted
    <2>4. LogOf(n) = LogOf(m)
      BY <2>3 DEF LogOf, HeadRevision
    <2> QED BY <1>1, <2>2, <2>3, <2>4
  <1>6. CASE status \notin {"applied", "no_change"}
    <2>1. n.last = m.last /\ n.revisions = m.revisions
      BY <1>6 DEF Record, Accepted
    <2>2. LogOf(n) = LogOf(m)
      BY <2>1 DEF LogOf, HeadRevision
    <2> QED BY <2>1, <2>2
  <1> QED BY <1>4, <1>5, <1>6

LEMMA LogInit == Init => Log!Init
  <1> SUFFICES ASSUME Init PROVE Log!Init
    OBVIOUS
  <1>1. EmptyScope \in Scope /\ HeadRevision(EmptyScope) = 0
    BY EmptySeq DEF EmptyScope, Scope, HeadRevision
  <1>2. LogOf(EmptyScope) = << >>
    BY <1>1, LogOfType, EmptySeq
  <1>3. \A s \in Scopes : map[s] = EmptyScope
    BY DEF Init
  <1> QED BY <1>2, <1>3 DEF Init, Log!Init, EmptyScope

LEMMA ApplyLog ==
  ASSUME TypeInv, NEW c \in CallIds, Apply(c)
  PROVE  [Log!Next]_(Log!vars)
  <1> DEFINE s == calls[c].layer.scope
             in == InputOf(calls[c])
  <1>1. calls[c] \in Call /\ calls[c].layer \in Layer
    BY TypeParts DEF Calls, CallFlight, Apply, InFlight, Stages
  <1>2. s \in Scopes /\ map \in [Scopes -> Scope] /\ in \in Input /\ learned' = learned
    BY <1>1, TypeParts, InputType DEF Layer, StoreOK, Apply
  <1> HIDE DEF s, in
  <1>3. CASE UNCHANGED map
    BY <1>2, <1>3 DEF Log!vars
  <1>4. ASSUME NEW contentOk \in BOOLEAN, NEW ready \in BOOLEAN,
               map' = [map EXCEPT ![s] = Record(map[s], in, Decide(map[s], in, contentOk), ready)]
        PROVE  [Log!Next]_(Log!vars)
    <2> DEFINE n == Record(map[s], in, Decide(map[s], in, contentOk), ready)
               seq == in.request.layer.seq
               log == [x \in Scopes |-> LogOf(map[x])]
               frontier == [x \in Scopes |-> map[x].last]
    <2>1. map' = [map EXCEPT ![s] = n]
      BY <1>4
    <2>2. \/ /\ n.last = seq /\ seq > map[s].last /\ seq \in 1..MaxSeq
             /\ \/ LogOf(n) = Append(LogOf(map[s]), Log!Revision(seq, NoRun, Len(LogOf(map[s]))))
                \/ LogOf(n) = LogOf(map[s])
          \/ n.last = map[s].last /\ LogOf(n) = LogOf(map[s])
      BY <1>2, RecordLog
    <2> HIDE DEF n, seq
    <2>3. log' = [log EXCEPT ![s] = LogOf(n)] /\ frontier' = [frontier EXCEPT ![s] = n.last]
      BY <1>2, <2>1
    <2>4. CASE n.last = map[s].last /\ LogOf(n) = LogOf(map[s])
      BY <1>2, <2>3, <2>4 DEF Log!vars
    <2>5. CASE /\ n.last = seq /\ seq > map[s].last /\ seq \in 1..MaxSeq
               /\ LogOf(n) = Append(LogOf(map[s]), Log!Revision(seq, NoRun, Len(LogOf(map[s]))))
      <3>1. PICK x \in Scopes, n1 \in 1..MaxSeq : x = s /\ n1 = seq
        BY <1>2, <2>5
      <3>2. Log!Accept(x, n1)
        BY <1>2, <2>3, <2>5, <3>1 DEF Log!Accept
      <3> QED BY <3>2 DEF Log!Next
    <2>6. CASE n.last = seq /\ seq > map[s].last /\ seq \in 1..MaxSeq /\ LogOf(n) = LogOf(map[s])
      <3>1. PICK x \in Scopes, n1 \in 1..MaxSeq : x = s /\ n1 = seq
        BY <1>2, <2>6
      <3>2. Log!Pass(x, n1)
        BY <1>2, <2>3, <2>6, <3>1 DEF Log!Pass
      <3> QED BY <3>2 DEF Log!Next
    <2> QED BY <2>2, <2>4, <2>5, <2>6
  <1> QED BY <1>3, <1>4 DEF Apply, s, in

LEMMA ObserveLog ==
  ASSUME TypeInv, NEW s \in Scopes, NEW run \in Runs, Observe(s, run)
  PROVE  Log!Next
  <1>1. PICK ready \in BOOLEAN : map' = [map EXCEPT ![s] = LearnFrom(map[s], run, ready)]
    BY DEF Observe
  <1>2. map \in [Scopes -> Scope]
    BY TypeParts DEF StoreOK
  <1> DEFINE n == LearnFrom(map[s], run, ready)
             r == [layer |-> NoLayer, run |-> run, base |-> HeadRevision(map[s]), ready |-> ready]
             log == [x \in Scopes |-> LogOf(map[x])]
             frontier == [x \in Scopes |-> map[x].last]
  <1>3. n \in Scope /\ r \in Revision
    BY <1>2, LearnType, HeadType DEF Revision
  <1>4. n.last = map[s].last /\ n.revisions = Append(map[s].revisions, r)
    BY <1>2 DEF LearnFrom, Scope
  <1>5. LogOf(n) = Append(LogOf(map[s]), LogEntry(r))
    BY <1>2, <1>3, <1>4, LogOfAppend
  <1>6. LogEntry(r) = Log!Revision(0, run, Len(LogOf(map[s])))
    BY <1>2, LogOfType DEF LogEntry, Log!Revision
  <1> HIDE DEF n, r
  <1>7. log' = [log EXCEPT ![s] = LogOf(n)] /\ frontier' = frontier
    BY <1>1, <1>2, <1>4 DEF n
  <1>8. Log!Learn(s, run)
    BY <1>2, <1>5, <1>6, <1>7 DEF Log!Learn, Observe
  <1> QED BY <1>8 DEF Log!Next

LEMMA LogStep == TypeInv /\ [Next]_vars => [Log!Next]_(Log!vars)
  <1> SUFFICES ASSUME TypeInv, [Next]_vars PROVE [Log!Next]_(Log!vars)
    OBVIOUS
  <1>1. ASSUME UNCHANGED <<map, learned>> PROVE [Log!Next]_(Log!vars)
    BY <1>1 DEF Log!vars
  <1>2. CASE UNCHANGED vars
    BY <1>1, <1>2 DEF vars, serverVars
  <1>3. ASSUME NEW t \in Tabs, InDocument(t) \/ InLoop(t) PROVE UNCHANGED <<map, learned>>
    BY <1>3 DEF InDocument, InLoop, Navigate, Start, Attach, DrawNumber, Enqueue, PolicyEvent,
                TakeOldest, CheckPolicy, Send, Receive, serverVars
  <1>4. ASSUME NEW c \in CallIds, InServer(c), ~Apply(c) PROVE UNCHANGED <<map, learned>>
    BY <1>4 DEF InServer, Load, Parse, Project, InsertCandidate, Bind, Reply, serverVars
  <1>5. ASSUME NEW s \in Scopes, InsertObserved(s) \/ BindObserved(s) \/ (\E a \in BOOLEAN : DecidePolicy(s, a))
        PROVE  UNCHANGED <<map, learned>>
    BY <1>5 DEF InsertObserved, BindObserved, DecidePolicy, serverVars
  <1>6. CASE Failure
    BY <1>1, <1>6 DEF Failure, CallFails, WorkerStops, Expire, RemoveMatching, BrowserRestart, serverVars
  <1> QED BY <1>1, <1>2, <1>3, <1>4, <1>5, <1>6, ApplyLog, ObserveLog DEF Next, Feedback

(* The rows of the store implement the append-only log, whatever deliveries
   overlap, are repeated, stop half way or are computed on an old head: each
   revision comes from the one before it, and layers are accepted in order. *)
THEOREM StoreImplementsLog == Spec => ImplementsLog
  <1> QED BY InitType, TypeStep, LogInit, LogStep, PTL DEF Spec, ImplementsLog, Log!Spec

-------------------------------------------------------------------------------
(* No layer is lost.  The strengthening says what the deletion of a record
   relies on: the layers that documents hold have their number to themselves
   (Numbered), and a call or a loop that has heard of acceptance has a receipt
   behind it (Decided). *)

Held ==
  ({r.layer : r \in spool} \cup {tab[t].draft : t \in Tabs} \cup {loop[t].layer : t \in Tabs})
    \ {NoLayer}

Numbered ==
  /\ \A l \in Held : l.session = session /\ l.seq <= counter[l.scope]
  /\ \A l, m \in Held : l.scope = m.scope /\ l.seq = m.seq => l = m

KnowsAccepted(k) ==
  k.stage \in {"project", "insert", "bind"} \/ (k.stage = "reply" /\ k.outcome \in Delivered)
CallsDecided == \A c \in CallIds : KnowsAccepted(calls[c]) => calls[c].layer \in AcceptedLayers

LoopsDecided ==
  \A t \in Tabs :
    /\ loop[t].at = "wait" => /\ calls[loop[t].call].stage \in InFlight
                              /\ calls[loop[t].call].layer = loop[t].layer
    /\ loop[t].at = "receipt" /\ loop[t].outcome \in Delivered => loop[t].layer \in AcceptedLayers

AccountInv == TypeInv /\ Numbered /\ CallsDecided /\ LoopsDecided /\ LayerAccountedFor

(* A decision keeps the receipts there are, and acceptance has one. *)
LEMMA RecordReceipts ==
  ASSUME NEW m \in Scope, NEW in \in Input, NEW status \in Statuses, NEW ready \in BOOLEAN
  PROVE  /\ AcceptedIn(m) \subseteq AcceptedIn(Record(m, in, status, ready))
         /\ status \in Accepted => in.request.layer \in AcceptedIn(Record(m, in, status, ready))
  <1> DEFINE n == Record(m, in, status, ready)
             new == [input |-> in, status |-> status, revision |-> ResultRevision(m, status)]
  <1>1. m.receipts \subseteq n.receipts
    BY DEF Record
  <1>2. status \in Accepted => new \in n.receipts
    BY DEF Record
  <1>3. new.input.request.layer = in.request.layer /\ new.status = status
    OBVIOUS
  <1> HIDE DEF n, new
  <1>4. AcceptedIn(m) \subseteq AcceptedIn(n)
    BY <1>1 DEF AcceptedIn
  <1>5. status \in Accepted => in.request.layer \in AcceptedIn(n)
    BY <1>2, <1>3 DEF AcceptedIn
  <1> QED BY <1>4, <1>5 DEF n

(* What a delivery's step in the store does to the receipts and to what the
   delivery knows. *)
LEMMA ApplyReceipts ==
  ASSUME TypeInv, NEW c \in CallIds, Apply(c)
  PROVE  /\ AcceptedLayers \subseteq AcceptedLayers'
         /\ calls'[c].layer = calls[c].layer /\ calls'[c].stage \in InFlight
         /\ KnowsAccepted(calls'[c]) => calls[c].layer \in AcceptedLayers'
         /\ \A d \in CallIds \ {c} : calls'[d] = calls[d]
  <1> DEFINE k == calls[c]
             s == k.layer.scope
             in == InputOf(k)
  <1>1. k \in Call /\ k.layer \in Layer /\ calls \in [CallIds -> Call]
    BY TypeParts DEF Calls, CallFlight, Apply, InFlight, Stages
  <1>2. s \in Scopes /\ map \in [Scopes -> Scope] /\ in \in Input /\ in.request.layer = k.layer
    BY <1>1, TypeParts, InputType DEF Layer, StoreOK, InputOf, RequestOf
  <1>3. ASSUME NEW status \in Statuses \cup {"duplicate"}, NEW n \in Nat, calls' = Continue(c, status, n)
        PROVE  /\ calls'[c].layer = k.layer /\ calls'[c].stage \in InFlight
               /\ KnowsAccepted(calls'[c]) => status \in Accepted \cup {"duplicate"}
               /\ \A d \in CallIds \ {c} : calls'[d] = calls[d]
    <2>1. CASE status = "conflict" /\ k.gen = 0
      BY <1>1, <1>3, <2>1 DEF Continue, Call, KnowsAccepted, InFlight, Stages
    <2>2. CASE status \in {"applied", "duplicate"}
      BY <1>1, <1>3, <2>2 DEF Continue, Call, Accepted, InFlight, Stages
    <2>3. CASE ~(status = "conflict" /\ k.gen = 0) /\ status \notin {"applied", "duplicate"}
      BY <1>1, <1>3, <2>3 DEF Continue, Answered, Call, KnowsAccepted, Accepted, Delivered, InFlight, Stages,
                              Statuses
    <2> QED BY <2>1, <2>2, <2>3
  <1> HIDE DEF k, s, in
  <1>4. ASSUME NEW r \in Receipts(map[s], in), calls' = Continue(c, Repeated(r, in), r.revision), UNCHANGED map
        PROVE  /\ AcceptedLayers \subseteq AcceptedLayers'
               /\ calls'[c].layer = k.layer /\ calls'[c].stage \in InFlight
               /\ KnowsAccepted(calls'[c]) => k.layer \in AcceptedLayers'
               /\ \A d \in CallIds \ {c} : calls'[d] = calls[d]
    <2>1. r \in Receipt /\ r \in map[s].receipts /\ r.input.request.layer = k.layer
      BY <1>2 DEF Receipts, Scope
    <2>2. Repeated(r, in) \in Statuses \cup {"duplicate"} /\ r.revision \in Nat
      BY <2>1 DEF Repeated, Receipt, Statuses
    <2>3. Repeated(r, in) \in Accepted \cup {"duplicate"} => r.status \in Accepted
      BY <2>1 DEF Repeated, Accepted, Receipt, Statuses
    <2>4. r.status \in Accepted => k.layer \in AcceptedIn(map[s])
      BY <2>1 DEF AcceptedIn
    <2>5. AcceptedLayers' = AcceptedLayers
      BY <1>4 DEF AcceptedLayers
    <2> QED BY <1>2, <1>3, <1>4, <2>2, <2>3, <2>4, <2>5 DEF AcceptedLayers
  <1>5. ASSUME NEW status \in Statuses, NEW ready \in BOOLEAN,
               map' = [map EXCEPT ![s] = Record(map[s], in, status, ready)],
               calls' = Continue(c, status, ResultRevision(map[s], status))
        PROVE  /\ AcceptedLayers \subseteq AcceptedLayers'
               /\ calls'[c].layer = k.layer /\ calls'[c].stage \in InFlight
               /\ KnowsAccepted(calls'[c]) => k.layer \in AcceptedLayers'
               /\ \A d \in CallIds \ {c} : calls'[d] = calls[d]
    <2>1. /\ AcceptedIn(map[s]) \subseteq AcceptedIn(map'[s])
          /\ status \in Accepted => k.layer \in AcceptedIn(map'[s])
      BY <1>2, <1>5, RecordReceipts
    <2>2. \A x \in Scopes : AcceptedIn(map[x]) \subseteq AcceptedIn(map'[x])
      BY <1>2, <1>5, <2>1
    <2>3. AcceptedLayers \subseteq AcceptedLayers'
      BY <2>2 DEF AcceptedLayers
    <2>4. ResultRevision(map[s], status) \in Nat
      BY <1>2, HeadType DEF ResultRevision
    <2>5. status # "duplicate"
      BY DEF Statuses
    <2>6. k.layer \in AcceptedIn(map'[s]) => k.layer \in AcceptedLayers'
      BY <1>2 DEF AcceptedLayers
    <2> QED BY <1>3, <1>5, <2>1, <2>3, <2>4, <2>5, <2>6
  <1> QED BY <1>4, <1>5, StatusType DEF Apply, k, s, in

LEMMA AcceptedGrow ==
  ASSUME TypeInv, [Next]_vars
  PROVE  AcceptedLayers \subseteq AcceptedLayers'
  <1>1. ASSUME UNCHANGED map PROVE AcceptedLayers \subseteq AcceptedLayers'
    BY <1>1 DEF AcceptedLayers
  <1>2. CASE UNCHANGED vars
    BY <1>1, <1>2 DEF vars, serverVars
  <1>3. ASSUME NEW t \in Tabs, InDocument(t) \/ InLoop(t) PROVE UNCHANGED map
    BY <1>3 DEF InDocument, InLoop, Navigate, Start, Attach, DrawNumber, Enqueue, PolicyEvent,
                TakeOldest, CheckPolicy, Send, Receive, serverVars
  <1>4. ASSUME NEW c \in CallIds, InServer(c), ~Apply(c) PROVE UNCHANGED map
    BY <1>4 DEF InServer, Load, Parse, Project, InsertCandidate, Bind, Reply, serverVars
  <1>5. ASSUME NEW s \in Scopes, InsertObserved(s) \/ BindObserved(s) \/ (\E a \in BOOLEAN : DecidePolicy(s, a))
        PROVE  UNCHANGED map
    BY <1>5 DEF InsertObserved, BindObserved, DecidePolicy, serverVars
  <1>6. CASE Failure
    BY <1>1, <1>6 DEF Failure, CallFails, WorkerStops, Expire, RemoveMatching, BrowserRestart, serverVars
  <1>7. ASSUME NEW s \in Scopes, NEW run \in Runs, Observe(s, run)
        PROVE  AcceptedLayers \subseteq AcceptedLayers'
    <2>1. map \in [Scopes -> Scope]
      BY TypeParts DEF StoreOK
    <2>2. \A x \in Scopes : map'[x].receipts = map[x].receipts
      BY <1>7, <2>1 DEF Observe, LearnFrom, Scope
    <2> QED BY <2>2 DEF AcceptedLayers, AcceptedIn
  <1> QED BY <1>1, <1>2, <1>3, <1>4, <1>5, <1>6, <1>7, ApplyReceipts DEF Next, Feedback

(* Numbered: the layers held after a step were held before it, but for the one
   that draws the next number. *)
LEMMA HeldParts ==
  /\ \A r \in spool : r.layer \in Held \cup {NoLayer}
  /\ \A t \in Tabs : tab[t].draft \in Held \cup {NoLayer} /\ loop[t].layer \in Held \cup {NoLayer}
  BY DEF Held

LEMMA NumberedFrom ==
  ASSUME Numbered, UNCHANGED <<counter, session>>,
         \A r \in spool' : r.layer \in Held \cup {NoLayer},
         \A t \in Tabs : tab'[t].draft \in Held \cup {NoLayer},
         \A t \in Tabs : loop'[t].layer \in Held \cup {NoLayer}
  PROVE  Numbered'
  <1>1. Held' \subseteq Held
    <2> DEFINE H == Held
    <2>1. /\ \A r \in spool' : r.layer \in H \cup {NoLayer}
          /\ \A t \in Tabs : tab'[t].draft \in H \cup {NoLayer} /\ loop'[t].layer \in H \cup {NoLayer}
      OBVIOUS
    <2> HIDE DEF H
    <2>2. Held' \subseteq H
      BY <2>1 DEF Held
    <2> QED BY <2>2 DEF H
  <1> QED BY <1>1 DEF Numbered

LEMMA DrawNumbered ==
  ASSUME TypeInv, Numbered, NEW t \in Tabs, DrawNumber(t)
  PROVE  Numbered'
  <1> DEFINE d == tab[t]
             n == counter[d.scope] + 1
             l == [scope |-> d.scope, session |-> session, seq |-> n,
                   observed |-> IF d.first THEN d.carried ELSE TRUE, policy |-> d.policy]
  <1>1. d \in Tab /\ d.scope \in Scopes /\ counter \in [Scopes -> 0..MaxSeq] /\ n \in Nat
    BY StoreAssumption, TypeParts DEF TabsOK, WorkerOK, Tab
  <1>2. counter' = [counter EXCEPT ![d.scope] = n] /\ session' = session
    BY DEF DrawNumber
  <1>3. Held' \subseteq Held \cup {l}
    <2>1. \A x \in Tabs : tab'[x].draft \in {tab[x].draft, l}
      BY <1>1, TypeParts DEF DrawNumber, TabsOK, Tab
    <2>2. spool' = spool /\ loop' = loop
      BY DEF DrawNumber, spoolVars
    <2> HIDE DEF l
    <2> QED BY <2>1, <2>2 DEF Held
  <1>4. l.scope = d.scope /\ l.seq = n /\ l.session = session
    OBVIOUS
  <1>5. \A h \in Held : h.scope \in Scopes /\ h.seq \in Nat
    <2>1. Held \subseteq Layer
      BY TypeParts DEF Held, SpoolOK, SpoolRecord, TabsOK, Tab, Loops, Loop
    <2> QED BY <2>1, StoreAssumption DEF Layer
  <1>6. \A h \in Held : h.session = session /\ h.seq <= counter[h.scope]
    BY DEF Numbered
  <1> HIDE DEF l
  <1>7. \A h \in Held : h.seq <= counter'[h.scope] /\ (h.scope = d.scope => h.seq # n)
    BY <1>1, <1>2, <1>5, <1>6
  <1>8. l.seq <= counter'[l.scope]
    BY <1>1, <1>2, <1>4
  <1>9. \A h \in Held' : h.session = session' /\ h.seq <= counter'[h.scope]
    BY <1>2, <1>3, <1>4, <1>6, <1>7, <1>8
  <1>10. \A h, m \in Held' : h.scope = m.scope /\ h.seq = m.seq => h = m
    BY <1>3, <1>4, <1>7 DEF Numbered
  <1> QED BY <1>9, <1>10 DEF Numbered

LEMMA NumberedStep ==
  ASSUME TypeInv, Numbered, [Next]_vars
  PROVE  Numbered'
  <1>1. tab \in [Tabs -> Tab] /\ loop \in [Tabs -> Loop]
    BY TypeParts DEF TabsOK, Loops
  <1>2. IdleLoop.layer = NoLayer /\ \A s, c, b : Document(s, c, b).draft = NoLayer
    BY DEF IdleLoop, Document
  <1>3. \A d \in Tab : /\ Revoke(d).draft \in {d.draft, NoLayer}
                       /\ Interrupted(d).draft \in {d.draft, NoLayer}
    BY DEF Revoke, Stopped, Interrupted, Tab
  <1>4. \A l \in Loop : WakeLoop(l).layer = l.layer
    BY DEF WakeLoop, Loop
  <1>5. ASSUME UNCHANGED <<counter, session>>,
               \A r \in spool' : \E q \in spool : q.layer = r.layer,
               \A t \in Tabs : tab'[t].draft \in {tab[t].draft, NoLayer},
               \A t \in Tabs : loop'[t].layer \in {loop[t].layer, NoLayer}
        PROVE  Numbered'
    <2>1. \A r \in spool' : r.layer \in Held \cup {NoLayer}
      BY <1>5, HeldParts
    <2>2. \A t \in Tabs : tab'[t].draft \in Held \cup {NoLayer} /\ loop'[t].layer \in Held \cup {NoLayer}
      BY <1>5, HeldParts
    <2> QED BY <1>5, <2>1, <2>2, NumberedFrom
  <1>6. CASE UNCHANGED vars
    BY <1>5, <1>6 DEF vars, clientVars, spoolVars
  <1>7. ASSUME NEW t \in Tabs, InDocument(t)
        PROVE  Numbered'
    <2>1. ASSUME NEW s \in Scopes, NEW carried \in BOOLEAN, Navigate(t, s, carried)
          PROVE  Numbered'
      BY <1>1, <1>2, <1>5, <2>1 DEF Navigate, spoolVars
    <2>2. CASE Start(t)
      BY <1>1, <1>5, <2>2 DEF Start, spoolVars, Tab
    <2>3. CASE Attach(t)
      BY <1>1, <1>5, <2>3 DEF Attach, spoolVars, Tab
    <2>4. CASE Enqueue(t)
      <3>1. \A r \in spool' : r.layer \in Held \cup {NoLayer}
        BY <2>4, HeldParts DEF Enqueue
      <3>2. \A x \in Tabs : tab'[x].draft \in {tab[x].draft, NoLayer}
        BY <1>1, <2>4 DEF Enqueue, Tab
      <3>3. \A x \in Tabs : loop'[x].layer = loop[x].layer
        BY <1>1, <1>4, <2>4 DEF Enqueue
      <3>4. UNCHANGED <<counter, session>>
        BY <2>4 DEF Enqueue
      <3> QED BY <3>1, <3>2, <3>3, <3>4, HeldParts, NumberedFrom
    <2>5. CASE PolicyEvent(t)
      <3>1. \A x \in Tabs : tab'[x].draft \in {tab[x].draft, NoLayer}
        BY <1>1, <1>3, <2>5 DEF PolicyEvent, Tab
      <3>2. \A x \in Tabs : loop'[x].layer = loop[x].layer
        BY <1>1, <1>4, <2>5 DEF PolicyEvent
      <3> QED BY <1>5, <2>5, <3>1, <3>2 DEF PolicyEvent, spoolVars
    <2> QED BY <1>7, <2>1, <2>2, <2>3, <2>4, <2>5, DrawNumbered DEF InDocument
  <1>8. ASSUME NEW t \in Tabs, InLoop(t)
        PROVE  Numbered'
    <2>1. CASE TakeOldest(t)
      <3>1. \A x \in Tabs : loop'[x].layer \in Held \cup {NoLayer}
        BY <1>1, <1>2, <2>1, HeldParts DEF TakeOldest, Queued, Loop
      <3> QED BY <2>1, <3>1, HeldParts, NumberedFrom DEF TakeOldest, spoolVars
    <2>2. CASE CheckPolicy(t)
      <3>1. \A x \in Tabs : tab'[x].draft \in {tab[x].draft, NoLayer}
        BY <1>1, <1>3, <2>2 DEF CheckPolicy
      <3>2. \A x \in Tabs : loop'[x].layer \in {loop[x].layer, NoLayer}
        BY <1>1, <1>2, <2>2 DEF CheckPolicy, Loop
      <3> QED BY <1>5, <2>2, <3>1, <3>2 DEF CheckPolicy, spoolVars
    <2>3. CASE Send(t)
      <3>1. \A x \in Tabs : loop'[x].layer = loop[x].layer
        BY <1>1, <2>3 DEF Send, Loop
      <3> QED BY <1>5, <2>3, <3>1 DEF Send, spoolVars
    <2>4. CASE Receive(t)
      <3>1. \A x \in Tabs : loop'[x].layer \in {loop[x].layer, NoLayer}
        BY <1>1, <2>4 DEF Receive, IdleLoop
      <3>2. \A r \in spool' : \E q \in spool : q.layer = r.layer
        <4>1. \A q \in SpoolRecord : [q EXCEPT !.state = "reparse"].layer = q.layer
          BY DEF SpoolRecord
        <4> QED BY <2>4, <4>1, TypeParts DEF Receive, Named, SpoolOK
      <3> QED BY <1>5, <2>4, <3>1, <3>2 DEF Receive
    <2> QED BY <1>8, <2>1, <2>2, <2>3, <2>4 DEF InLoop
  <1>9. ASSUME NEW c \in CallIds, InServer(c)
        PROVE  Numbered'
    <2>1. UNCHANGED <<tab, counter, session, spool>>
      BY <1>9 DEF InServer, Load, Parse, Apply, Project, InsertCandidate, Bind, Reply, clientVars, spoolVars
    <2>2. \A t \in Tabs : loop'[t].layer \in {loop[t].layer, NoLayer}
      <3>1. CASE Reply(c)
        BY <1>1, <1>2, <3>1 DEF Reply, Loop
      <3>2. CASE ~Reply(c)
        BY <1>9, <3>2 DEF InServer, Load, Parse, Apply, Project, InsertCandidate, Bind, clientVars
      <3> QED BY <3>1, <3>2
    <2> QED BY <1>5, <2>1, <2>2
  <1>10. ASSUME NEW s \in Scopes, Feedback(s) \/ \E allowed \in BOOLEAN : DecidePolicy(s, allowed)
         PROVE  Numbered'
    BY <1>5, <1>10 DEF Feedback, Observe, InsertObserved, BindObserved, DecidePolicy, clientVars, spoolVars
  <1>11. CASE Failure
    <2>1. ASSUME NEW c \in CallIds, CallFails(c) PROVE Numbered'
      BY <1>2, <1>5, <2>1 DEF CallFails, spoolVars
    <2>2. CASE WorkerStops
      <3>1. \A t \in Tabs : /\ tab'[t].draft \in {tab[t].draft, NoLayer}
                            /\ loop'[t].layer \in {loop[t].layer, NoLayer}
        BY <1>1, <1>2, <1>3, <2>2 DEF WorkerStops
      <3> QED BY <1>5, <2>2, <3>1 DEF WorkerStops, spoolVars
    <2>3. CASE Expire \/ \E s \in Scopes : RemoveMatching(s)
      BY <1>5, <2>3 DEF Expire, RemoveMatching, Discard, clientVars
    <2>4. CASE BrowserRestart
      <3>1. Held' = {}
        BY <1>2, <2>4 DEF BrowserRestart, Discard, Held
      <3> QED BY <3>1 DEF Numbered
    <2> QED BY <1>11, <2>1, <2>2, <2>3, <2>4 DEF Failure
  <1> QED BY <1>6, <1>7, <1>8, <1>9, <1>10, <1>11 DEF Next

(* Calls and loops: a call keeps its layer and learns of acceptance only from
   Apply; a loop hears of it only from the call it waits for. *)
LEMMA CallsFrom ==
  ASSUME CallsDecided, AcceptedLayers \subseteq AcceptedLayers',
         \A c \in CallIds : KnowsAccepted(calls'[c]) =>
           \/ KnowsAccepted(calls[c]) /\ calls'[c].layer = calls[c].layer
           \/ calls'[c].layer \in AcceptedLayers'
  PROVE  CallsDecided'
  <1>1. \A c \in CallIds : KnowsAccepted(calls'[c]) => calls'[c].layer \in AcceptedLayers'
    BY DEF CallsDecided
  <1> QED BY <1>1 DEF CallsDecided

StillWaits(l) == calls[l.call].stage \in InFlight /\ calls[l.call].layer = l.layer

LEMMA LoopsFrom ==
  ASSUME LoopsDecided, AcceptedLayers \subseteq AcceptedLayers',
         \A t \in Tabs : \/ loop'[t] = loop[t] /\ loop[t].at # "wait"
                         \/ loop'[t].at \notin {"wait", "receipt"}
                         \/ loop'[t].at = "wait" /\ StillWaits(loop[t])'
                         \/ loop'[t].at = "receipt" /\ (loop'[t].outcome \in Delivered =>
                                                          loop'[t].layer \in AcceptedLayers')
  PROVE  LoopsDecided'
  <1>1. \A t \in Tabs : loop'[t].at = "wait" => StillWaits(loop[t])'
    BY DEF LoopsDecided
  <1>2. \A t \in Tabs : loop'[t].at = "receipt" /\ loop'[t].outcome \in Delivered =>
          loop'[t].layer \in AcceptedLayers'
    BY DEF LoopsDecided
  <1> QED BY <1>1, <1>2 DEF LoopsDecided, StillWaits

(* A step that leaves the loops alone, or puts some of them out of the wait,
   and keeps the deliveries that are under way. *)
LEMMA QuietLoops ==
  ASSUME TypeInv, LoopsDecided, AcceptedLayers \subseteq AcceptedLayers',
         \A t \in Tabs : loop'[t] = loop[t] \/ loop'[t].at \notin {"wait", "receipt"},
         \A c \in CallIds : calls[c].stage \in InFlight =>
           calls'[c].stage \in InFlight /\ calls'[c].layer = calls[c].layer
  PROVE  LoopsDecided'
  <1>1. ASSUME NEW t \in Tabs, loop'[t] = loop[t], loop[t].at = "wait"
        PROVE  StillWaits(loop[t])'
    <2>1. loop[t].call \in CallIds /\ StillWaits(loop[t])
      BY <1>1, TypeParts DEF Loops, LoopFlight, LoopsDecided, StillWaits
    <2> QED BY <1>1, <2>1 DEF StillWaits
  <1>2. ASSUME NEW t \in Tabs, loop'[t] = loop[t], loop[t].at = "receipt"
        PROVE  loop'[t].outcome \in Delivered => loop'[t].layer \in AcceptedLayers'
    BY <1>2 DEF LoopsDecided
  <1> QED BY <1>1, <1>2, LoopsFrom

(* The steps of a delivery in the server that decide nothing. *)
LEMMA ServerCalls ==
  ASSUME TypeInv, NEW c \in CallIds, Load(c) \/ Parse(c) \/ Project(c) \/ InsertCandidate(c) \/ Bind(c)
  PROVE  /\ calls[c].stage \in InFlight /\ calls'[c].stage \in InFlight
         /\ calls'[c].layer = calls[c].layer
         /\ KnowsAccepted(calls'[c]) => KnowsAccepted(calls[c])
         /\ \A d \in CallIds \ {c} : calls'[d] = calls[d]
  <1>1. calls \in [CallIds -> Call] /\ calls[c] \in Call
    BY TypeParts DEF Calls
  <1>2. CASE Load(c)
    BY <1>1, <1>2 DEF Load, Answered, Call, KnowsAccepted, Delivered, InFlight, Stages
  <1>3. CASE Parse(c)
    BY <1>1, <1>3 DEF Parse, Answered, Call, KnowsAccepted, Delivered, InFlight, Stages
  <1>4. CASE Project(c)
    <2>1. CASE calls' = Answered(c, "error")
      BY <1>1, <1>4, <2>1 DEF Project, Answered, Call, KnowsAccepted, Delivered, InFlight, Stages
    <2>2. ASSUME NEW stamp \in Stamps, NEW stage \in {"insert", "bind"},
                 calls' = [calls EXCEPT ![c].stamp = stamp, ![c].stage = stage]
          PROVE  /\ calls'[c].stage \in InFlight /\ calls'[c].layer = calls[c].layer
                 /\ \A d \in CallIds \ {c} : calls'[d] = calls[d]
      BY <1>1, <2>2 DEF Call, InFlight, Stages
    <2>3. calls[c].stage = "project"
      BY <1>4 DEF Project
    <2>4. calls' # Answered(c, "error") =>
            \E stamp \in Stamps, stage \in {"insert", "bind"} :
              calls' = [calls EXCEPT ![c].stamp = stamp, ![c].stage = stage]
      BY <1>4 DEF Project
    <2> QED BY <2>1, <2>2, <2>3, <2>4 DEF KnowsAccepted, InFlight, Stages
  <1>5. CASE InsertCandidate(c)
    BY <1>1, <1>5 DEF InsertCandidate, Answered, Call, KnowsAccepted, Delivered, InFlight, Stages
  <1>6. CASE Bind(c)
    BY <1>1, <1>6 DEF Bind, Answered, Call, KnowsAccepted, Delivered, InFlight, Stages
  <1> QED BY <1>2, <1>3, <1>4, <1>5, <1>6

LEMMA DecidedStep ==
  ASSUME TypeInv, CallsDecided, LoopsDecided, [Next]_vars
  PROVE  CallsDecided' /\ LoopsDecided'
  <1>1. AcceptedLayers \subseteq AcceptedLayers'
    BY AcceptedGrow
  <1>2. loop \in [Tabs -> Loop] /\ calls \in [CallIds -> Call]
        /\ \A t \in Tabs : loop[t].at = "wait" => loop[t].call \in CallIds
    BY TypeParts DEF Loops, Calls, LoopFlight
  <1>3. IdleLoop.at = "idle" /\ Finished.stage = "done"
    BY DEF IdleLoop, Finished, FreeCall
  <1>4. ~KnowsAccepted(Finished)
    BY <1>3 DEF KnowsAccepted
  <1>5. \A l \in Loop : WakeLoop(l) = l \/ WakeLoop(l).at \notin {"wait", "receipt"}
    BY DEF WakeLoop, Loop
  (* A step of which no delivery hears, and no loop anything good. *)
  <1>6. ASSUME UNCHANGED calls,
               \A t \in Tabs : loop'[t] = loop[t] \/ loop'[t].at \notin {"wait", "receipt"}
        PROVE  CallsDecided' /\ LoopsDecided'
    <2>1. CallsDecided'
      BY <1>1, <1>6, CallsFrom
    <2>2. LoopsDecided'
      BY <1>1, <1>6, QuietLoops
    <2> QED BY <2>1, <2>2
  <1>7. CASE UNCHANGED vars
    BY <1>6, <1>7 DEF vars, clientVars
  <1>8. ASSUME NEW t \in Tabs, InDocument(t)
        PROVE  CallsDecided' /\ LoopsDecided'
    <2>1. UNCHANGED calls
      BY <1>8 DEF InDocument, Navigate, Start, Attach, DrawNumber, Enqueue, PolicyEvent
    <2>2. \A x \in Tabs : loop'[x] = loop[x] \/ loop'[x].at \notin {"wait", "receipt"}
      BY <1>2, <1>3, <1>5, <1>8 DEF InDocument, Navigate, Start, Attach, DrawNumber, Enqueue, PolicyEvent
    <2> QED BY <1>6, <2>1, <2>2
  <1>9. ASSUME NEW t \in Tabs, TakeOldest(t) \/ CheckPolicy(t) \/ Receive(t)
        PROVE  CallsDecided' /\ LoopsDecided'
    <2>1. UNCHANGED calls
      BY <1>9 DEF TakeOldest, CheckPolicy, Receive
    <2>2. \A x \in Tabs : loop'[x] = loop[x] \/ loop'[x].at \notin {"wait", "receipt"}
      BY <1>2, <1>3, <1>9 DEF TakeOldest, CheckPolicy, Receive, Loop, IdleLoop
    <2> QED BY <1>6, <2>1, <2>2
  <1>10. ASSUME NEW t \in Tabs, Send(t)
         PROVE  CallsDecided' /\ LoopsDecided'
    <2>1. PICK c \in CallIds :
            /\ calls[c].stage = "free"
            /\ calls' = [calls EXCEPT ![c] = [FreeCall EXCEPT !.stage = "load", !.layer = loop[t].layer]]
            /\ loop' = [loop EXCEPT ![t].at = "wait", ![t].call = c]
      BY <1>10 DEF Send
    <2>2. calls'[c].stage = "load" /\ calls'[c].layer = loop[t].layer
      BY <1>2, <2>1 DEF FreeCall
    <2>3. \A d \in CallIds \ {c} : calls'[d] = calls[d]
      BY <1>2, <2>1
    <2>4. CallsDecided'
      <3>1. ~KnowsAccepted(calls'[c])
        BY <2>2 DEF KnowsAccepted
      <3> QED BY <1>1, <2>3, <3>1, CallsFrom
    <2>5. \A d \in CallIds : calls[d].stage \in InFlight => d # c
      BY <2>1 DEF InFlight
    <2>6. loop'[t].at = "wait" /\ loop'[t].call = c /\ loop'[t].layer = loop[t].layer
      BY <1>2, <2>1 DEF Loop
    <2>7. StillWaits(loop[t])'
      BY <2>2, <2>6 DEF StillWaits, InFlight, Stages
    <2>8. \A x \in Tabs \ {t} : loop'[x] = loop[x]
      BY <1>2, <2>1
    <2>9. ASSUME NEW x \in Tabs \ {t}, loop[x].at = "wait"
          PROVE  StillWaits(loop[x])'
      BY <1>2, <2>3, <2>5, <2>8, <2>9 DEF LoopsDecided, StillWaits
    <2>10. ASSUME NEW x \in Tabs \ {t}, loop[x].at = "receipt"
           PROVE  loop'[x].outcome \in Delivered => loop'[x].layer \in AcceptedLayers'
      BY <1>1, <2>8, <2>10 DEF LoopsDecided
    <2>11. LoopsDecided'
      BY <1>1, <2>6, <2>7, <2>8, <2>9, <2>10, LoopsFrom
    <2> QED BY <2>4, <2>11
  <1>11. ASSUME NEW c \in CallIds, InServer(c), ~Reply(c)
         PROVE  CallsDecided' /\ LoopsDecided'
    <2>1. loop' = loop
      BY <1>11 DEF InServer, Load, Parse, Apply, Project, InsertCandidate, Bind, clientVars
    <2>2. /\ calls'[c].stage \in InFlight /\ calls'[c].layer = calls[c].layer
          /\ \A d \in CallIds \ {c} : calls'[d] = calls[d]
          /\ \/ KnowsAccepted(calls'[c]) => KnowsAccepted(calls[c])
             \/ KnowsAccepted(calls'[c]) => calls[c].layer \in AcceptedLayers'
      BY <1>11, ServerCalls, ApplyReceipts DEF InServer
    <2>3. CallsDecided'
      BY <1>1, <2>2, CallsFrom
    <2>4. LoopsDecided'
      BY <1>1, <2>1, <2>2, QuietLoops
    <2> QED BY <2>3, <2>4
  <1>12. ASSUME NEW c \in CallIds, Reply(c)
         PROVE  CallsDecided' /\ LoopsDecided'
    <2> DEFINE o == calls[c].outcome
    <2>1. /\ calls[c].stage = "reply" /\ calls' = [calls EXCEPT ![c] = Finished]
          /\ \A t \in Tabs : loop'[t] =
               IF ~Waits(t, c) THEN loop[t]
               ELSE IF o \in Delivered \cup {"conflict"}
               THEN [loop[t] EXCEPT !.at = "receipt", !.call = 0, !.outcome = o] ELSE IdleLoop
      BY <1>12 DEF Reply
    <2>2. \A d \in CallIds \ {c} : calls'[d] = calls[d]
      BY <1>2, <2>1
    <2>3. CallsDecided'
      BY <1>1, <1>2, <1>4, <2>1, <2>2, CallsFrom
    <2>4. o \in Delivered => calls[c].layer \in AcceptedLayers
      BY <2>1 DEF CallsDecided, KnowsAccepted
    <2> HIDE DEF o
    <2>5. ASSUME NEW t \in Tabs, Waits(t, c)
          PROVE  \/ loop'[t].at = "idle"
                 \/ loop'[t].at = "receipt" /\ (loop'[t].outcome \in Delivered =>
                                                  loop'[t].layer \in AcceptedLayers')
      <3>1. loop[t].layer = calls[c].layer
        BY <2>5 DEF Waits, LoopsDecided
      <3>2. CASE o \in Delivered \cup {"conflict"}
        <4>1. loop'[t].at = "receipt" /\ loop'[t].outcome = o /\ loop'[t].layer = loop[t].layer
          BY <1>2, <2>1, <2>5, <3>2 DEF Loop
        <4> QED BY <1>1, <2>4, <3>1, <4>1
      <3>3. CASE o \notin Delivered \cup {"conflict"}
        BY <1>3, <2>1, <2>5, <3>3
      <3> QED BY <3>2, <3>3
    <2>6. ASSUME NEW t \in Tabs, ~Waits(t, c), loop[t].at = "wait"
          PROVE  loop'[t].at = "wait" /\ StillWaits(loop[t])'
      <3>1. loop[t].call \in CallIds \ {c} /\ loop'[t] = loop[t] /\ StillWaits(loop[t])
        BY <1>2, <2>1, <2>6 DEF Waits, LoopsDecided, StillWaits
      <3> QED BY <2>2, <2>6, <3>1 DEF StillWaits
    <2>7. ASSUME NEW t \in Tabs, ~Waits(t, c), loop[t].at # "wait"
          PROVE  loop'[t] = loop[t]
      BY <2>1, <2>7
    <2>8. LoopsDecided'
      BY <1>1, <2>5, <2>6, <2>7, LoopsFrom
    <2> QED BY <2>3, <2>8
  <1>13. ASSUME NEW s \in Scopes, Feedback(s) \/ \E allowed \in BOOLEAN : DecidePolicy(s, allowed)
         PROVE  CallsDecided' /\ LoopsDecided'
    BY <1>6, <1>13 DEF Feedback, Observe, InsertObserved, BindObserved, DecidePolicy, clientVars
  <1>14. ASSUME NEW c \in CallIds, CallFails(c)
         PROVE  CallsDecided' /\ LoopsDecided'
    <2>1. /\ calls' = [calls EXCEPT ![c] = Finished]
          /\ \A t \in Tabs : loop'[t] = IF Waits(t, c) THEN IdleLoop ELSE loop[t]
      BY <1>14 DEF CallFails
    <2>2. \A d \in CallIds \ {c} : calls'[d] = calls[d]
      BY <1>2, <2>1
    <2>3. CallsDecided'
      BY <1>1, <1>2, <1>4, <2>1, <2>2, CallsFrom
    <2>4. ASSUME NEW t \in Tabs, ~Waits(t, c), loop[t].at = "wait"
          PROVE  loop'[t].at = "wait" /\ StillWaits(loop[t])'
      <3>1. loop[t].call \in CallIds \ {c} /\ loop'[t] = loop[t] /\ StillWaits(loop[t])
        BY <1>2, <2>1, <2>4 DEF Waits, LoopsDecided, StillWaits
      <3> QED BY <2>2, <2>4, <3>1 DEF StillWaits
    <2>5. LoopsDecided'
      BY <1>1, <1>3, <2>1, <2>4, LoopsFrom
    <2> QED BY <2>3, <2>5
  <1>15. ASSUME calls' = Unheard,
                \A t \in Tabs : loop'[t] = loop[t] \/ loop'[t].at \notin {"wait", "receipt"}
         PROVE  CallsDecided' /\ LoopsDecided'
    <2>1. \A c \in CallIds : /\ calls'[c].stage = calls[c].stage /\ calls'[c].layer = calls[c].layer
                             /\ calls'[c].outcome = calls[c].outcome
      BY <1>2, <1>15 DEF Unheard, Call
    <2>2. CallsDecided'
      BY <1>1, <2>1, CallsFrom DEF KnowsAccepted
    <2>3. LoopsDecided'
      BY <1>1, <1>15, <2>1, QuietLoops
    <2> QED BY <2>2, <2>3
  <1>16. CASE WorkerStops \/ BrowserRestart
    BY <1>3, <1>15, <1>16 DEF WorkerStops, BrowserRestart
  <1>17. CASE Expire \/ \E s \in Scopes : RemoveMatching(s)
    BY <1>6, <1>17 DEF Expire, RemoveMatching, clientVars
  <1> QED BY <1>7, <1>8, <1>9, <1>10, <1>11, <1>12, <1>13, <1>14, <1>16, <1>17
          DEF Next, InLoop, Failure

(* The layers accounted for. *)
LEMMA AccountedFrom ==
  ASSUME LayerAccountedFor, AcceptedLayers \subseteq AcceptedLayers', dropped \subseteq dropped',
         UNCHANGED enqueued,
         \A r \in spool : \/ \E q \in spool' : q.layer = r.layer
                          \/ r.layer \in AcceptedLayers' \cup dropped'
  PROVE  LayerAccountedFor'
  <1>1. \A l \in enqueued : (\E r \in spool' : r.layer = l) \/ l \in AcceptedLayers' \/ l \in dropped'
    BY DEF LayerAccountedFor
  <1> QED BY <1>1 DEF LayerAccountedFor

LEMMA ReceiveAccounted ==
  ASSUME AccountInv, NEW t \in Tabs, Receive(t)
  PROVE  \A r \in spool : (\E q \in spool' : q.layer = r.layer) \/ r.layer \in AcceptedLayers
  <1> DEFINE l == loop[t].layer
  <1>1. TypeInv /\ Numbered /\ LoopsDecided
    BY DEF AccountInv
  <1>2. l \in Layer /\ l \in Held
    <2>1. l \in Layer
      BY <1>1, TypeParts DEF Receive, Loops, LoopFlight
    <2> QED BY <2>1, StoreAssumption DEF Held
  <1>3. \A r \in spool : r \in SpoolRecord /\ r.layer \in Held
    BY <1>1, TypeParts, StoreAssumption DEF SpoolOK, SpoolRecord, Held
  <1>4. CASE loop[t].outcome \in Delivered
    <2>1. l \in AcceptedLayers
      BY <1>1, <1>4 DEF Receive, LoopsDecided
    <2>2. \A r \in Named(l) : r.layer = l
      BY <1>1, <1>2, <1>3 DEF Named, Numbered
    <2>3. spool' = spool \ Named(l)
      BY <1>4 DEF Receive
    <2> QED BY <2>1, <2>2, <2>3
  <1>5. CASE loop[t].outcome \notin Delivered
    <2>1. spool' = (spool \ Named(l)) \cup {[r EXCEPT !.state = "reparse"] : r \in Named(l)}
      BY <1>5 DEF Receive
    <2>2. \A r \in SpoolRecord : [r EXCEPT !.state = "reparse"].layer = r.layer
      BY DEF SpoolRecord
    <2> QED BY <1>3, <2>1, <2>2
  <1> QED BY <1>4, <1>5

LEMMA AccountedStep ==
  ASSUME AccountInv, [Next]_vars
  PROVE  LayerAccountedFor'
  <1>1. AcceptedLayers \subseteq AcceptedLayers' /\ LayerAccountedFor
    BY AcceptedGrow DEF AccountInv
  <1>2. ASSUME UNCHANGED <<spool, enqueued, dropped>>
        PROVE  LayerAccountedFor'
    BY <1>1, <1>2, AccountedFrom
  <1>3. CASE UNCHANGED vars
    BY <1>2, <1>3 DEF vars, spoolVars
  <1>4. ASSUME NEW t \in Tabs, InDocument(t)
        PROVE  LayerAccountedFor'
    <2>1. CASE Enqueue(t)
      <3>1. /\ enqueued' = enqueued \cup {tab[t].draft} /\ dropped' = dropped /\ spool \subseteq spool'
        BY <2>1 DEF Enqueue
      <3>2. \E r \in spool' : r.layer = tab[t].draft
        <4> DEFINE new == [layer |-> tab[t].draft, state |-> "queued", at |-> arrivals]
        <4>1. new \in spool' /\ new.layer = tab[t].draft
          BY <2>1 DEF Enqueue
        <4> QED BY <4>1
      <3>3. \A l \in enqueued' : (\E r \in spool' : r.layer = l) \/ l \in AcceptedLayers' \/ l \in dropped'
        BY <1>1, <3>1, <3>2 DEF LayerAccountedFor
      <3> QED BY <3>3 DEF LayerAccountedFor
    <2>2. CASE ~Enqueue(t)
      BY <1>2, <1>4, <2>2 DEF InDocument, Navigate, Start, Attach, DrawNumber, PolicyEvent, spoolVars
    <2> QED BY <2>1, <2>2
  <1>5. ASSUME NEW t \in Tabs, InLoop(t)
        PROVE  LayerAccountedFor'
    <2>1. CASE Receive(t)
      <3>1. enqueued' = enqueued /\ dropped' = dropped
        BY <2>1 DEF Receive
      <3>2. \A r \in spool : (\E q \in spool' : q.layer = r.layer) \/ r.layer \in AcceptedLayers' \cup dropped'
        BY <1>1, <2>1, ReceiveAccounted
      <3> QED BY <1>1, <3>1, <3>2, AccountedFrom
    <2>2. CASE ~Receive(t)
      BY <1>2, <1>5, <2>2 DEF InLoop, TakeOldest, CheckPolicy, Send, spoolVars
    <2> QED BY <2>1, <2>2
  <1>6. ASSUME NEW c \in CallIds, InServer(c) \/ CallFails(c)
        PROVE  LayerAccountedFor'
    BY <1>2, <1>6 DEF InServer, CallFails, Load, Parse, Apply, Project, InsertCandidate, Bind, Reply, spoolVars
  <1>7. ASSUME NEW s \in Scopes, Feedback(s) \/ \E allowed \in BOOLEAN : DecidePolicy(s, allowed)
        PROVE  LayerAccountedFor'
    BY <1>2, <1>7 DEF Feedback, Observe, InsertObserved, BindObserved, DecidePolicy, spoolVars
  <1>8. CASE WorkerStops
    BY <1>2, <1>8 DEF WorkerStops, spoolVars
  <1>9. ASSUME NEW gone \in SUBSET spool, Discard(gone)
        PROVE  LayerAccountedFor'
    <2>1. enqueued' = enqueued /\ spool' = spool \ gone /\ dropped' = dropped \cup {r.layer : r \in gone}
      BY <1>9 DEF Discard
    <2> QED BY <1>1, <2>1, AccountedFrom
  <1>10. CASE Expire \/ BrowserRestart \/ \E s \in Scopes : RemoveMatching(s)
    <2>1. \E gone \in SUBSET spool : Discard(gone)
      BY <1>10 DEF Expire, BrowserRestart, RemoveMatching
    <2> QED BY <1>9, <2>1
  <1> QED BY <1>3, <1>4, <1>5, <1>6, <1>7, <1>8, <1>10 DEF Next, Failure

LEMMA InitAccount == Init => AccountInv
  <1> SUFFICES ASSUME Init PROVE AccountInv
    OBVIOUS
  <1>1. TypeInv
    BY InitType
  <1>2. Numbered
    <2>1. \A t \in Tabs : tab[t].draft = NoLayer /\ loop[t].layer = NoLayer
      BY DEF Init, Document, IdleLoop
    <2>2. Held = {}
      BY <2>1 DEF Init, Held
    <2> QED BY <2>2 DEF Numbered
  <1>3. CallsDecided
    BY DEF Init, CallsDecided, KnowsAccepted, FreeCall
  <1>4. LoopsDecided
    BY DEF Init, LoopsDecided, IdleLoop
  <1>5. LayerAccountedFor
    BY DEF Init, LayerAccountedFor
  <1> QED BY <1>1, <1>2, <1>3, <1>4, <1>5 DEF AccountInv

LEMMA StepAccount == AccountInv /\ [Next]_vars => AccountInv'
  <1> SUFFICES ASSUME AccountInv, [Next]_vars PROVE AccountInv'
    OBVIOUS
  <1>1. TypeInv /\ Numbered /\ CallsDecided /\ LoopsDecided
    BY DEF AccountInv
  <1>2. TypeInv'
    BY <1>1, TypeStep
  <1>3. Numbered' /\ CallsDecided' /\ LoopsDecided' /\ LayerAccountedFor'
    BY <1>1, NumberedStep, DecidedStep, AccountedStep
  <1> QED BY <1>2, <1>3 DEF AccountInv

(* No layer is lost on the way from a document to the map, in any number of
   documents, sessions and retries: what has been spooled is still in the
   spool, is accepted by a stored receipt, or was given up. *)
THEOREM NoLayerLost == Spec => []LayerAccountedFor
  <1>1. AccountInv => LayerAccountedFor
    BY DEF AccountInv
  <1> QED BY <1>1, InitAccount, StepAccount, PTL DEF Spec

-------------------------------------------------------------------------------
(* A layer is decided once.  The strengthening: what has been accepted is not
   beyond the last layer of the scope, so that the next one accepted is new. *)

BehindLast(m) == \A r \in m.receipts : r.status \in Accepted => r.input.request.layer.seq <= m.last
OneDecision(m) ==
  \A q, r \in m.receipts :
    (/\ q.status \in Accepted /\ r.status \in Accepted
     /\ q.input.request.layer = r.input.request.layer) => q = r
OnceInv == TypeInv /\ \A s \in Scopes : BehindLast(map[s]) /\ OneDecision(map[s])

LEMMA RecordOnce ==
  ASSUME NEW m \in Scope, NEW in \in Input, NEW contentOk \in BOOLEAN, NEW ready \in BOOLEAN,
         BehindLast(m), OneDecision(m)
  PROVE  LET n == Record(m, in, Decide(m, in, contentOk), ready) IN BehindLast(n) /\ OneDecision(n)
  <1> DEFINE status == Decide(m, in, contentOk)
             n == Record(m, in, status, ready)
             new == [input |-> in, status |-> status, revision |-> ResultRevision(m, status)]
             seq == in.request.layer.seq
  <1>1. new.input.request.layer = in.request.layer /\ new.status = status
    OBVIOUS
  <1>2. n.receipts \subseteq m.receipts \cup {new}
    BY DEF Record
  <1>3. seq \in Nat /\ m.last \in Nat /\ \A r \in m.receipts : r.input.request.layer.seq \in Nat
    BY StoreAssumption DEF Scope, Receipt, Input, Request, Layer
  <1>4. CASE status \in Accepted
    <2>1. seq > m.last /\ n.last = seq
      BY <1>3, <1>4 DEF Decide, Conflicts, Accepted, Record
    <2> HIDE DEF n, new, seq, status
    <2>2. \A r \in m.receipts : r.status \in Accepted =>
            r.input.request.layer # in.request.layer /\ r.input.request.layer.seq <= seq
      BY <1>3, <2>1 DEF BehindLast, seq
    <2>3. BehindLast(n)
      BY <1>1, <1>2, <1>3, <2>1, <2>2 DEF BehindLast, seq
    <2>4. OneDecision(n)
      BY <1>1, <1>2, <2>2 DEF OneDecision
    <2> QED BY <2>3, <2>4 DEF n, status
  <1>5. CASE status \notin Accepted
    <2>1. n.last = m.last
      BY <1>5 DEF Record
    <2> HIDE DEF n, new, seq, status
    <2>2. BehindLast(n)
      BY <1>1, <1>2, <1>5, <2>1 DEF BehindLast
    <2>3. OneDecision(n)
      BY <1>1, <1>2, <1>5 DEF OneDecision
    <2> QED BY <2>2, <2>3 DEF n, status
  <1> QED BY <1>4, <1>5

LEMMA OnceStep == OnceInv /\ [Next]_vars => OnceInv'
  <1> SUFFICES ASSUME OnceInv, [Next]_vars PROVE OnceInv'
    OBVIOUS
  <1>1. TypeInv' /\ map \in [Scopes -> Scope]
    BY TypeStep, TypeParts DEF OnceInv, StoreOK
  <1>2. ASSUME UNCHANGED map PROVE OnceInv'
    BY <1>1, <1>2 DEF OnceInv
  <1>3. CASE UNCHANGED vars
    BY <1>2, <1>3 DEF vars, serverVars
  <1>4. ASSUME NEW t \in Tabs, InDocument(t) \/ InLoop(t) PROVE UNCHANGED map
    BY <1>4 DEF InDocument, InLoop, Navigate, Start, Attach, DrawNumber, Enqueue, PolicyEvent,
                TakeOldest, CheckPolicy, Send, Receive, serverVars
  <1>5. ASSUME NEW c \in CallIds, InServer(c), ~Apply(c) PROVE UNCHANGED map
    BY <1>5 DEF InServer, Load, Parse, Project, InsertCandidate, Bind, Reply, serverVars
  <1>6. ASSUME NEW s \in Scopes, InsertObserved(s) \/ BindObserved(s) \/ (\E a \in BOOLEAN : DecidePolicy(s, a))
        PROVE  UNCHANGED map
    BY <1>6 DEF InsertObserved, BindObserved, DecidePolicy, serverVars
  <1>7. CASE Failure
    BY <1>2, <1>7 DEF Failure, CallFails, WorkerStops, Expire, RemoveMatching, BrowserRestart, serverVars
  <1>8. ASSUME NEW s \in Scopes, NEW run \in Runs, Observe(s, run)
        PROVE  OnceInv'
    <2>1. \A x \in Scopes : map'[x].receipts = map[x].receipts /\ map'[x].last = map[x].last
      BY <1>1, <1>8 DEF Observe, LearnFrom, Scope
    <2> QED BY <1>1, <2>1 DEF OnceInv, BehindLast, OneDecision
  <1>9. ASSUME NEW c \in CallIds, Apply(c)
        PROVE  OnceInv'
    <2> DEFINE s == calls[c].layer.scope
               in == InputOf(calls[c])
    <2>1. calls[c] \in Call /\ calls[c].layer \in Layer
      BY <1>9, TypeParts DEF OnceInv, Calls, CallFlight, Apply, InFlight, Stages
    <2>2. s \in Scopes /\ in \in Input
      BY <2>1, InputType DEF Layer
    <2> HIDE DEF s, in
    <2>3. ASSUME NEW contentOk \in BOOLEAN, NEW ready \in BOOLEAN,
                 map' = [map EXCEPT ![s] = Record(map[s], in, Decide(map[s], in, contentOk), ready)]
          PROVE  OnceInv'
      <3> DEFINE n == Record(map[s], in, Decide(map[s], in, contentOk), ready)
      <3>1. BehindLast(n) /\ OneDecision(n)
        BY <1>1, <2>2, RecordOnce DEF OnceInv
      <3>2. \A x \in Scopes : map'[x] = n \/ map'[x] = map[x]
        BY <1>1, <2>3
      <3> HIDE DEF n
      <3> QED BY <1>1, <3>1, <3>2 DEF OnceInv
    <2> QED BY <1>2, <1>9, <2>3 DEF Apply, s, in
  <1> QED BY <1>2, <1>3, <1>4, <1>5, <1>6, <1>7, <1>8, <1>9 DEF Next, Feedback

(* One stored receipt at most accepts a layer, however many deliveries of it
   are under way, are retried, or were computed on which head. *)
THEOREM DecidedOnce == Spec => []LayerDecidedOnce
  <1>1. Init => OnceInv
    <2> SUFFICES ASSUME Init PROVE OnceInv
      OBVIOUS
    <2>1. \A s \in Scopes : map[s].receipts = {}
      BY DEF Init, EmptyScope
    <2> QED BY <2>1, InitType DEF OnceInv, BehindLast, OneDecision
  <1>2. OnceInv => LayerDecidedOnce
    BY DEF OnceInv, OneDecision, LayerDecidedOnce
  <1> QED BY <1>1, <1>2, OnceStep, PTL DEF Spec

-------------------------------------------------------------------------------
(* What the extension is told of can be reviewed.  The strengthening follows
   the revision of a delivery: it exists when the patch is applied or found
   applied, is a candidate's after the insertion and bound before the answer. *)

Reviewable(n, m, ls, bs) ==
  n # 0 => n \in bs /\ n \in 1..HeadRevision(m) /\ \E e \in ls : e.revision = n

ReceiptsBelow(m) == \A r \in m.receipts : r.revision \in 0..HeadRevision(m)

(* What a delivery k knows of its scope's map m, candidates ls and bindings bs. *)
Known(k, m, ls, bs) ==
  /\ k.stage \in {"project", "insert", "bind"} => k.revision \in 0..HeadRevision(m)
  /\ k.stage \in {"insert", "bind"} => k.revision # 0
  /\ k.stage = "reply" /\ k.outcome \in {"applied", "duplicate"} => Reviewable(k.revision, m, ls, bs)

CallsTold ==
  \A c \in CallIds : calls[c].stage \in InFlight =>
    LET s == calls[c].layer.scope IN Known(calls[c], map[s], lists[s], bound[s])
PointersTold == \A s \in Scopes : Reviewable(pointer[s], map[s], lists[s], bound[s])

ToldInv == TypeInv /\ (\A s \in Scopes : ReceiptsBelow(map[s])) /\ CallsTold /\ PointersTold

LEMMA RecordBelow ==
  ASSUME NEW m \in Scope, NEW in \in Input, NEW contentOk \in BOOLEAN, NEW ready \in BOOLEAN, ReceiptsBelow(m)
  PROVE  LET status == Decide(m, in, contentOk)
             n == Record(m, in, status, ready) IN
         /\ ReceiptsBelow(n) /\ HeadRevision(m) <= HeadRevision(n)
         /\ ResultRevision(m, status) = HeadRevision(n)
  <1> DEFINE status == Decide(m, in, contentOk)
             n == Record(m, in, status, ready)
             rev == [layer |-> in.request.layer, run |-> NoRun, base |-> in.request.base, ready |-> ready]
             new == [input |-> in, status |-> status, revision |-> ResultRevision(m, status)]
  <1>1. m.revisions \in Seq(Revision) /\ rev \in Revision /\ HeadRevision(m) \in Nat
    BY HeadType DEF Scope, Input, Request, Revision
  <1>2. HeadRevision(n) = ResultRevision(m, status)
    <2>1. CASE status = "applied"
      <3>1. n.revisions = Append(m.revisions, rev)
        BY <2>1 DEF Record
      <3> HIDE DEF n, rev, status
      <3> QED BY <1>1, <2>1, <3>1, AppendProperties DEF HeadRevision, ResultRevision
    <2>2. CASE status # "applied"
      <3>1. n.revisions = m.revisions
        BY <2>2 DEF Record
      <3> HIDE DEF n, status
      <3> QED BY <2>2, <3>1 DEF HeadRevision, ResultRevision
    <2> QED BY <2>1, <2>2
  <1>3. HeadRevision(m) <= HeadRevision(n) /\ HeadRevision(n) \in Nat
    <2> HIDE DEF n, status
    <2> QED BY <1>1, <1>2 DEF ResultRevision
  <1>4. n.receipts \subseteq m.receipts \cup {new}
    BY DEF Record
  <1>5. new.revision = ResultRevision(m, status)
    OBVIOUS
  <1> HIDE DEF n, new, status
  <1>6. ReceiptsBelow(n)
    BY <1>1, <1>2, <1>3, <1>4, <1>5 DEF ReceiptsBelow
  <1> QED BY <1>2, <1>3, <1>6 DEF n, status

(* The tables of a scope only grow. *)
StoreGrows ==
  \A s \in Scopes :
    /\ HeadRevision(map[s]) \in Nat /\ HeadRevision(map'[s]) \in Nat
    /\ HeadRevision(map[s]) <= HeadRevision(map'[s])
    /\ lists[s] \subseteq lists'[s] /\ bound[s] \subseteq bound'[s]
    /\ ReceiptsBelow(map[s]) => ReceiptsBelow(map'[s])

LEMMA GrowsStep ==
  ASSUME TypeInv, [Next]_vars, \A s \in Scopes : ReceiptsBelow(map[s])
  PROVE  StoreGrows
  <1>1. /\ map \in [Scopes -> Scope] /\ map' \in [Scopes -> Scope]
        /\ \A s \in Scopes : HeadRevision(map[s]) \in Nat /\ HeadRevision(map'[s]) \in Nat
        /\ DOMAIN lists = Scopes /\ DOMAIN bound = Scopes
    <2>1. StoreOK /\ StoreOK'
      BY TypeStep DEF TypeInv, TypeOK
    <2>2. /\ map \in [Scopes -> Scope] /\ map' \in [Scopes -> Scope]
          /\ DOMAIN lists = Scopes /\ DOMAIN bound = Scopes
      BY <2>1 DEF StoreOK
    <2>3. \A s \in Scopes : map[s] \in Scope /\ map'[s] \in Scope
      BY <2>2
    <2> QED BY <2>2, <2>3, HeadType
  <1>2. ASSUME \A s \in Scopes : lists[s] \subseteq lists'[s] /\ bound[s] \subseteq bound'[s], map' = map
        PROVE  StoreGrows
    BY <1>1, <1>2 DEF StoreGrows
  <1>3. CASE UNCHANGED serverVars
    BY <1>2, <1>3 DEF serverVars
  <1>4. ASSUME NEW c \in CallIds, Apply(c) PROVE StoreGrows
    <2> DEFINE s == calls[c].layer.scope
               in == InputOf(calls[c])
    <2>1. calls[c] \in Call /\ calls[c].layer \in Layer
      BY <1>4, TypeParts DEF Calls, CallFlight, Apply, InFlight, Stages
    <2>2. s \in Scopes /\ in \in Input
      BY <2>1, InputType DEF Layer
    <2>3. UNCHANGED <<lists, bound>>
      BY <1>4 DEF Apply
    <2> HIDE DEF s, in
    <2>4. ASSUME NEW contentOk \in BOOLEAN, NEW ready \in BOOLEAN,
                 map' = [map EXCEPT ![s] = Record(map[s], in, Decide(map[s], in, contentOk), ready)]
          PROVE  StoreGrows
      <3> DEFINE n == Record(map[s], in, Decide(map[s], in, contentOk), ready)
      <3>1. ReceiptsBelow(n) /\ HeadRevision(map[s]) <= HeadRevision(n)
        BY <1>1, <2>2, RecordBelow
      <3>2. map'[s] = n /\ \A x \in Scopes \ {s} : map'[x] = map[x]
        BY <1>1, <2>2, <2>4
      <3> HIDE DEF n
      <3> QED BY <1>1, <2>3, <3>1, <3>2 DEF StoreGrows
    <2> QED BY <1>2, <1>4, <2>3, <2>4 DEF Apply, s, in
  <1>5. ASSUME NEW s \in Scopes, NEW run \in Runs, Observe(s, run) PROVE StoreGrows
    <2>1. PICK ready \in BOOLEAN : map' = [map EXCEPT ![s] = LearnFrom(map[s], run, ready)]
      BY <1>5 DEF Observe
    <2>2. UNCHANGED <<lists, bound>>
      BY <1>5 DEF Observe
    <2> DEFINE rev == [layer |-> NoLayer, run |-> run, base |-> HeadRevision(map[s]), ready |-> ready]
               n == LearnFrom(map[s], run, ready)
    <2>3. rev \in Revision /\ map[s] \in Scope /\ map[s].revisions \in Seq(Revision)
      BY <1>1 DEF Revision, Scope
    <2>4. n.receipts = map[s].receipts /\ n.revisions = Append(map[s].revisions, rev)
      BY <2>3 DEF LearnFrom, Scope
    <2>5. HeadRevision(n) = HeadRevision(map[s]) + 1
      <3> HIDE DEF n, rev
      <3> QED BY <2>3, <2>4, AppendProperties DEF HeadRevision
    <2>6. map'[s] = n /\ \A x \in Scopes \ {s} : map'[x] = map[x]
      BY <1>1, <2>1
    <2> HIDE DEF n, rev
    <2>7. ReceiptsBelow(map[s]) => ReceiptsBelow(n)
      BY <1>1, <2>4, <2>5 DEF ReceiptsBelow
    <2> QED BY <1>1, <2>2, <2>5, <2>6, <2>7 DEF StoreGrows
  <1>6. ASSUME NEW c \in CallIds, InsertCandidate(c) \/ Bind(c) PROVE StoreGrows
    <2>1. map' = map /\ \A s \in Scopes : lists[s] \subseteq lists'[s] /\ bound[s] \subseteq bound'[s]
      BY <1>1, <1>6 DEF InsertCandidate, Bind
    <2> QED BY <1>2, <2>1
  <1>7. ASSUME NEW s \in Scopes, InsertObserved(s) \/ BindObserved(s) PROVE StoreGrows
    <2>1. map' = map /\ \A x \in Scopes : lists[x] \subseteq lists'[x] /\ bound[x] \subseteq bound'[x]
      BY <1>1, <1>7 DEF InsertObserved, BindObserved
    <2> QED BY <1>2, <2>1
  <1>8. ASSUME NEW t \in Tabs, InDocument(t) \/ InLoop(t) PROVE UNCHANGED serverVars
    BY <1>8 DEF InDocument, InLoop, Navigate, Start, Attach, DrawNumber, Enqueue, PolicyEvent,
                TakeOldest, CheckPolicy, Send, Receive
  <1>9. ASSUME NEW c \in CallIds, Load(c) \/ Parse(c) \/ Project(c) \/ Reply(c) PROVE UNCHANGED serverVars
    BY <1>9 DEF Load, Parse, Project, Reply
  <1>10. ASSUME NEW s \in Scopes, NEW a \in BOOLEAN, DecidePolicy(s, a) PROVE UNCHANGED serverVars
    BY <1>10 DEF DecidePolicy
  <1>11. CASE Failure
    BY <1>3, <1>11 DEF Failure, CallFails, WorkerStops, Expire, RemoveMatching, BrowserRestart
  <1>12. CASE UNCHANGED vars
    BY <1>3, <1>12 DEF vars
  <1> QED BY <1>3, <1>4, <1>5, <1>6, <1>7, <1>8, <1>9, <1>10, <1>11, <1>12 DEF Next, InServer, Feedback

LEMMA ReviewableGrows ==
  ASSUME NEW m, NEW n, NEW ls, NEW ks, NEW bs, NEW cs, NEW v,
         HeadRevision(m) \in Nat, HeadRevision(n) \in Nat, HeadRevision(m) <= HeadRevision(n),
         ls \subseteq ks, bs \subseteq cs, Reviewable(v, m, ls, bs)
  PROVE  Reviewable(v, n, ks, cs)
  BY DEF Reviewable

LEMMA KnownGrows ==
  ASSUME NEW m, NEW n, NEW ls, NEW ks, NEW bs, NEW cs, NEW k, NEW l,
         HeadRevision(m) \in Nat, HeadRevision(n) \in Nat, HeadRevision(m) <= HeadRevision(n),
         ls \subseteq ks, bs \subseteq cs, Known(k, m, ls, bs),
         l.stage = k.stage, l.outcome = k.outcome, l.revision = k.revision
  PROVE  Known(l, n, ks, cs)
  <1>1. Reviewable(k.revision, m, ls, bs) => Reviewable(k.revision, n, ks, cs)
    BY ReviewableGrows
  <1> QED BY <1>1 DEF Known

LEMMA ToldFrom ==
  ASSUME TypeInv, CallsTold, StoreGrows,
         \A c \in CallIds : calls'[c].stage \in InFlight =>
           \/ /\ calls'[c].stage = calls[c].stage /\ calls'[c].outcome = calls[c].outcome
              /\ calls'[c].revision = calls[c].revision /\ calls'[c].layer = calls[c].layer
           \/ LET s == calls'[c].layer.scope IN Known(calls'[c], map'[s], lists'[s], bound'[s])
  PROVE  CallsTold'
  <1>1. ASSUME NEW c \in CallIds, calls'[c].stage \in InFlight,
               calls'[c].stage = calls[c].stage, calls'[c].outcome = calls[c].outcome,
               calls'[c].revision = calls[c].revision, calls'[c].layer = calls[c].layer
        PROVE  LET s == calls'[c].layer.scope IN Known(calls'[c], map'[s], lists'[s], bound'[s])
    <2> DEFINE s == calls[c].layer.scope
    <2>1. s \in Scopes
      BY <1>1, TypeParts DEF Calls, CallFlight, Layer
    <2>2. Known(calls[c], map[s], lists[s], bound[s])
      BY <1>1 DEF CallsTold
    <2> HIDE DEF s
    <2>3. Known(calls'[c], map'[s], lists'[s], bound'[s])
      BY <1>1, <2>1, <2>2, KnownGrows DEF StoreGrows
    <2> QED BY <1>1, <2>3 DEF s
  <1> QED BY <1>1 DEF CallsTold

(* The deliveries that a step of one delivery leaves alone. *)
LEMMA OneTold ==
  ASSUME TypeInv, CallsTold, StoreGrows, NEW c \in CallIds, NEW k, calls' = [calls EXCEPT ![c] = k],
         k.stage \in InFlight => LET s == k.layer.scope IN Known(k, map'[s], lists'[s], bound'[s])
  PROVE  CallsTold'
  <1>1. calls'[c] = k /\ \A d \in CallIds \ {c} : calls'[d] = calls[d]
    BY TypeParts DEF Calls
  <1>2. calls'[c].stage \in InFlight =>
          LET s == calls'[c].layer.scope IN Known(calls'[c], map'[s], lists'[s], bound'[s])
    BY <1>1
  <1> QED BY <1>1, <1>2, ToldFrom

LEMMA AnsweredTold ==
  ASSUME TypeInv, CallsTold, StoreGrows, NEW c \in CallIds,
         NEW o \in Outcomes \ {"applied", "duplicate"}, calls' = Answered(c, o)
  PROVE  CallsTold'
  <1> DEFINE k == [calls[c] EXCEPT !.stage = "reply", !.outcome = o]
  <1>1. calls' = [calls EXCEPT ![c] = k]
    BY TypeParts DEF Answered, Calls
  <1>2. k.stage = "reply" /\ k.outcome = o
    BY TypeParts DEF Calls, Call
  <1> HIDE DEF k
  <1> QED BY <1>1, <1>2, OneTold DEF Known

LEMMA ContinueTold ==
  ASSUME TypeInv, CallsTold, StoreGrows, NEW c \in CallIds, calls[c].layer \in Layer,
         NEW status \in Statuses \cup {"duplicate"}, NEW n, calls' = Continue(c, status, n),
         status \in {"applied", "duplicate"} => n \in 0..HeadRevision(map'[calls[c].layer.scope])
  PROVE  CallsTold'
  <1> DEFINE k == calls[c]
  <1>1. k \in Call /\ calls \in [CallIds -> Call]
    BY TypeParts DEF Calls
  <1>2. CASE status = "conflict" /\ k.gen = 0
    <2> DEFINE l == [k EXCEPT !.stage = "load", !.gen = 1]
    <2>1. calls' = [calls EXCEPT ![c] = l]
      BY <1>1, <1>2 DEF Continue
    <2>2. l.stage = "load"
      BY <1>1 DEF Call
    <2> HIDE DEF l
    <2> QED BY <2>1, <2>2, OneTold DEF Known
  <1>3. CASE status \in {"applied", "duplicate"}
    <2> DEFINE l == [k EXCEPT !.stage = "project", !.outcome = status, !.revision = n]
    <2>1. calls' = [calls EXCEPT ![c] = l]
      BY <1>1, <1>3 DEF Continue
    <2>2. l.stage = "project" /\ l.revision = n /\ l.layer = k.layer
      BY <1>1 DEF Call
    <2> HIDE DEF l
    <2> QED BY <1>3, <2>1, <2>2, OneTold DEF Known
  <1>4. CASE ~(status = "conflict" /\ k.gen = 0) /\ status \notin {"applied", "duplicate"}
    <2>1. calls' = Answered(c, status)
      BY <1>4 DEF Continue
    <2> QED BY <1>4, <2>1, AnsweredTold DEF Statuses, Outcomes
  <1> QED BY <1>2, <1>3, <1>4

(* The steps of a delivery in the server. *)
LEMMA ServerTold ==
  ASSUME TypeInv, \A s \in Scopes : ReceiptsBelow(map[s]), CallsTold, StoreGrows,
         NEW c \in CallIds, InServer(c), ~Reply(c)
  PROVE  CallsTold'
  <1> DEFINE s == calls[c].layer.scope
             n == calls[c].revision
  <1>1. calls \in [CallIds -> Call] /\ calls[c] \in Call /\ CallFlight(calls[c])
    BY TypeParts DEF Calls
  <1>2. map \in [Scopes -> Scope] /\ lists \in [Scopes -> SUBSET [revision : Nat, stamp : Stamps \cup {FeedbackStamp}]]
        /\ bound \in [Scopes -> SUBSET Nat]
    BY TypeParts DEF StoreOK
  <1>3. calls[c].stage \in InFlight /\ calls[c].layer \in Layer /\ s \in Scopes
    <2>1. calls[c].stage \in InFlight
      BY <1>1, ServerCalls DEF InServer, Apply, InFlight, Stages
    <2> QED BY <1>1, <2>1 DEF CallFlight, Layer
  <1>4. Known(calls[c], map[s], lists[s], bound[s])
    BY <1>3 DEF CallsTold
  <1>5. HeadRevision(map[s]) \in Nat /\ HeadRevision(map'[s]) \in Nat /\ HeadRevision(map[s]) <= HeadRevision(map'[s])
        /\ lists[s] \subseteq lists'[s] /\ bound[s] \subseteq bound'[s]
    BY <1>3 DEF StoreGrows
  <1> HIDE DEF s, n
  <1>6. ASSUME calls' = Answered(c, "error") \/ calls' = Answered(c, "rejected") PROVE CallsTold'
    BY <1>6, AnsweredTold DEF Outcomes
  <1>7. CASE Load(c)
    <2> DEFINE m == map[s]
               k == [calls[c] EXCEPT !.stage = "parse", !.base = HeadRevision(m), !.prev = m.last]
    <2>1. calls' = [calls EXCEPT ![c] = k] \/ calls' = Answered(c, "rejected")
      BY <1>7 DEF Load, s
    <2>2. k.stage = "parse"
      BY <1>1 DEF Call
    <2> HIDE DEF k
    <2>3. CASE calls' = [calls EXCEPT ![c] = k]
      BY <2>2, <2>3, OneTold DEF Known
    <2> QED BY <1>6, <2>1, <2>3
  <1>8. CASE Parse(c)
    <2>1. ASSUME NEW a \in Patches \cup {NoChange},
                 calls' = [calls EXCEPT ![c].stage = "apply", ![c].answer = a]
          PROVE  CallsTold'
      <3> DEFINE k == [calls[c] EXCEPT !.stage = "apply", !.answer = a]
      <3>1. calls' = [calls EXCEPT ![c] = k]
        BY <1>1, <2>1
      <3>2. k.stage = "apply"
        BY <1>1 DEF Call
      <3> HIDE DEF k
      <3> QED BY <3>1, <3>2, OneTold DEF Known
    <2> QED BY <1>6, <1>8, <2>1 DEF Parse
  <1>9. CASE Apply(c)
    <2> DEFINE in == InputOf(calls[c])
    <2>1. in \in Input
      BY <1>1, <1>3, InputType
    <2> HIDE DEF in
    <2>2. ASSUME NEW r \in Receipts(map[s], in), calls' = Continue(c, Repeated(r, in), r.revision)
          PROVE  CallsTold'
      <3>1. r \in map[s].receipts /\ r \in Receipt
        BY <1>2, <1>3, <2>2 DEF Receipts, Scope
      <3>2. r.revision \in 0..HeadRevision(map'[s])
        BY <1>3, <1>5, <3>1 DEF ReceiptsBelow
      <3>3. Repeated(r, in) \in Statuses \cup {"duplicate"}
        BY <3>1 DEF Repeated, Receipt, Statuses
      <3> QED BY <1>3, <2>2, <3>2, <3>3, ContinueTold DEF s
    <2>3. ASSUME NEW contentOk \in BOOLEAN, NEW ready \in BOOLEAN,
                 map' = [map EXCEPT ![s] = Record(map[s], in, Decide(map[s], in, contentOk), ready)],
                 calls' = Continue(c, Decide(map[s], in, contentOk),
                                   ResultRevision(map[s], Decide(map[s], in, contentOk)))
          PROVE  CallsTold'
      <3> DEFINE status == Decide(map[s], in, contentOk)
                 rev == ResultRevision(map[s], status)
      <3>1. HeadRevision(map'[s]) = rev
        <4>1. map'[s] = Record(map[s], in, status, ready)
          BY <1>2, <1>3, <2>3
        <4> QED BY <1>2, <1>3, <2>1, <4>1, RecordBelow
      <3>2. status \in Statuses
        BY StatusType
      <3>3. calls' = Continue(c, status, rev)
        BY <2>3
      <3> HIDE DEF status, rev
      <3>4. rev \in 0..HeadRevision(map'[s])
        BY <1>5, <3>1
      <3> QED BY <1>3, <3>2, <3>3, <3>4, ContinueTold DEF s
    <2> QED BY <1>9, <2>2, <2>3 DEF Apply, s, in
  <1>10. CASE Project(c)
    <2>1. ASSUME NEW stamp \in Stamps, NEW stage \in {"insert", "bind"}, n # 0,
                 calls' = [calls EXCEPT ![c].stamp = stamp, ![c].stage = stage]
          PROVE  CallsTold'
      <3> DEFINE k == [calls[c] EXCEPT !.stamp = stamp, !.stage = stage]
      <3>1. calls' = [calls EXCEPT ![c] = k]
        BY <1>1, <2>1
      <3>2. k.stage = stage /\ k.layer = calls[c].layer /\ k.revision = n
        BY <1>1 DEF Call, n
      <3>3. n \in 0..HeadRevision(map'[s])
        BY <1>4, <1>5, <1>10 DEF Project, Known, n
      <3> HIDE DEF k
      <3>4. Known(k, map'[s], lists'[s], bound'[s])
        BY <2>1, <3>2, <3>3 DEF Known
      <3> QED BY <3>1, <3>2, <3>4, OneTold DEF s
    <2>2. \/ calls' = Answered(c, "error")
          \/ n # 0 /\ \E stamp \in Stamps, stage \in {"insert", "bind"} :
               calls' = [calls EXCEPT ![c].stamp = stamp, ![c].stage = stage]
      BY <1>10 DEF Project, n
    <2> QED BY <1>6, <2>1, <2>2
  <1>11. CASE InsertCandidate(c)
    <2>1. ASSUME calls' = [calls EXCEPT ![c].stage = "bind"] PROVE CallsTold'
      <3> DEFINE k == [calls[c] EXCEPT !.stage = "bind"]
      <3>1. calls' = [calls EXCEPT ![c] = k]
        BY <1>1, <2>1
      <3>2. k.stage = "bind" /\ k.layer = calls[c].layer /\ k.revision = n
        BY <1>1 DEF Call, n
      <3>3. n \in 0..HeadRevision(map'[s]) /\ n # 0
        BY <1>4, <1>5, <1>11 DEF InsertCandidate, Known, n
      <3> HIDE DEF k
      <3>4. Known(k, map'[s], lists'[s], bound'[s])
        BY <3>2, <3>3 DEF Known
      <3> QED BY <3>1, <3>2, <3>4, OneTold DEF s
    <2>2. calls' = Answered(c, "error") \/ calls' = [calls EXCEPT ![c].stage = "bind"]
      BY <1>11 DEF InsertCandidate
    <2> QED BY <1>6, <2>1, <2>2
  <1>12. CASE Bind(c)
    <2>1. ASSUME [revision |-> n, stamp |-> calls[c].stamp] \in lists[s],
                 bound' = [bound EXCEPT ![s] = @ \cup {n}],
                 calls' = [calls EXCEPT ![c].stage = "reply"]
          PROVE  CallsTold'
      <3> DEFINE k == [calls[c] EXCEPT !.stage = "reply"]
      <3>1. calls' = [calls EXCEPT ![c] = k]
        BY <1>1, <2>1
      <3>2. k.stage = "reply" /\ k.layer = calls[c].layer /\ k.revision = n
        BY <1>1 DEF Call, n
      <3>3. n \in 0..HeadRevision(map'[s]) /\ n # 0
        BY <1>4, <1>5, <1>12 DEF Bind, Known, n
      <3>4. n \in bound'[s]
        BY <1>2, <1>3, <2>1
      <3>5. \E e \in lists'[s] : e.revision = n
        BY <1>5, <2>1
      <3> HIDE DEF k
      <3>6. Known(k, map'[s], lists'[s], bound'[s])
        BY <1>5, <3>2, <3>3, <3>4, <3>5 DEF Known, Reviewable
      <3> QED BY <3>1, <3>2, <3>6, OneTold DEF s
    <2>2. \/ calls' = Answered(c, "error")
          \/ /\ [revision |-> n, stamp |-> calls[c].stamp] \in lists[s]
             /\ bound' = [bound EXCEPT ![s] = @ \cup {n}]
             /\ calls' = [calls EXCEPT ![c].stage = "reply"]
      BY <1>12 DEF Bind, s, n
    <2> QED BY <1>6, <2>1, <2>2
  <1> QED BY <1>7, <1>8, <1>9, <1>10, <1>11, <1>12 DEF InServer

LEMMA PointersFrom ==
  ASSUME PointersTold, StoreGrows, \A s \in Scopes : pointer'[s] \in {pointer[s], 0}
  PROVE  PointersTold'
  <1>1. ASSUME NEW s \in Scopes PROVE Reviewable(pointer'[s], map'[s], lists'[s], bound'[s])
    <2>1. Reviewable(pointer[s], map'[s], lists'[s], bound'[s])
      BY ReviewableGrows DEF PointersTold, StoreGrows
    <2> QED BY <2>1 DEF Reviewable
  <1> QED BY <1>1 DEF PointersTold

LEMMA ToldStep == ToldInv /\ [Next]_vars => ToldInv'
  <1> SUFFICES ASSUME ToldInv, [Next]_vars PROVE ToldInv'
    OBVIOUS
  <1>1. TypeInv /\ CallsTold /\ PointersTold /\ \A s \in Scopes : ReceiptsBelow(map[s])
    BY DEF ToldInv
  <1>2. TypeInv' /\ StoreGrows
    BY <1>1, TypeStep, GrowsStep
  <1>3. \A s \in Scopes : ReceiptsBelow(map'[s])
    BY <1>1, <1>2 DEF StoreGrows
  <1>4. calls \in [CallIds -> Call] /\ pointer \in [Scopes -> Nat]
    BY <1>1, TypeParts DEF Calls, WorkerOK
  <1>5. ASSUME UNCHANGED pointer PROVE PointersTold'
    BY <1>1, <1>2, <1>5, PointersFrom
  <1>6. ASSUME UNCHANGED calls PROVE CallsTold'
    BY <1>1, <1>2, <1>6, ToldFrom
  <1>7. ASSUME NEW c \in CallIds, calls' = [calls EXCEPT ![c] = Finished] PROVE CallsTold'
    <2>1. Finished.stage \notin InFlight
      BY DEF Finished, FreeCall, InFlight
    <2> QED BY <1>1, <1>2, <1>7, <2>1, OneTold
  <1>8. ASSUME calls' = Unheard PROVE CallsTold'
    <2>1. \A c \in CallIds : /\ calls'[c].stage = calls[c].stage /\ calls'[c].layer = calls[c].layer
                             /\ calls'[c].outcome = calls[c].outcome /\ calls'[c].revision = calls[c].revision
      BY <1>4, <1>8 DEF Unheard, Call
    <2> QED BY <1>1, <1>2, <2>1, ToldFrom
  <1>9. ASSUME UNCHANGED vars PROVE CallsTold' /\ PointersTold'
    BY <1>5, <1>6, <1>9 DEF vars, clientVars
  <1>10. ASSUME NEW t \in Tabs, InDocument(t) \/ TakeOldest(t) \/ CheckPolicy(t) \/ Receive(t)
         PROVE  CallsTold' /\ PointersTold'
    <2>1. UNCHANGED <<calls, pointer>>
      BY <1>10 DEF InDocument, Navigate, Start, Attach, DrawNumber, Enqueue, PolicyEvent,
                   TakeOldest, CheckPolicy, Receive
    <2> QED BY <1>5, <1>6, <2>1
  <1>11. ASSUME NEW t \in Tabs, Send(t) PROVE CallsTold' /\ PointersTold'
    <2> DEFINE k == [FreeCall EXCEPT !.stage = "load", !.layer = loop[t].layer]
    <2>1. PICK c \in CallIds : calls' = [calls EXCEPT ![c] = k]
      BY <1>11 DEF Send
    <2>2. k.stage = "load"
      BY DEF FreeCall
    <2> HIDE DEF k
    <2>3. CallsTold'
      BY <1>1, <1>2, <2>1, <2>2, OneTold DEF Known
    <2> QED BY <1>5, <1>11, <2>3 DEF Send
  <1>12. ASSUME NEW c \in CallIds, InServer(c), ~Reply(c) PROVE CallsTold' /\ PointersTold'
    <2>1. UNCHANGED pointer
      BY <1>12 DEF InServer, Load, Parse, Apply, Project, InsertCandidate, Bind, clientVars
    <2> QED BY <1>1, <1>2, <1>5, <1>12, <2>1, ServerTold
  <1>13. ASSUME NEW c \in CallIds, Reply(c) PROVE CallsTold' /\ PointersTold'
    <2> DEFINE s == calls[c].layer.scope
    <2>1. calls[c].stage = "reply" /\ calls' = [calls EXCEPT ![c] = Finished] /\ UNCHANGED serverVars
      BY <1>13 DEF Reply
    <2>2. s \in Scopes /\ Known(calls[c], map[s], lists[s], bound[s])
      BY <1>1, <2>1, TypeParts DEF Calls, CallFlight, CallsTold, Layer, InFlight, Stages
    <2> HIDE DEF s
    <2>3. ASSUME NEW x \in Scopes PROVE Reviewable(pointer'[x], map'[x], lists'[x], bound'[x])
      <3>1. \/ pointer'[x] = pointer[x]
            \/ x = s /\ calls[c].outcome \in {"applied", "duplicate"} /\ pointer'[x] = calls[c].revision
        BY <1>4, <1>13, <2>2 DEF Reply, s
      <3>2. Reviewable(pointer[x], map[x], lists[x], bound[x])
        BY <1>1 DEF PointersTold
      <3> QED BY <2>1, <2>2, <3>1, <3>2 DEF Known, serverVars
    <2> QED BY <1>7, <2>1, <2>3 DEF PointersTold
  <1>14. ASSUME NEW s \in Scopes, Feedback(s) \/ \E allowed \in BOOLEAN : DecidePolicy(s, allowed)
         PROVE  CallsTold' /\ PointersTold'
    <2>1. UNCHANGED <<calls, pointer>>
      BY <1>14 DEF Feedback, Observe, InsertObserved, BindObserved, DecidePolicy, clientVars
    <2> QED BY <1>5, <1>6, <2>1
  <1>15. ASSUME NEW c \in CallIds, CallFails(c) PROVE CallsTold' /\ PointersTold'
    BY <1>5, <1>7, <1>15 DEF CallFails
  <1>16. ASSUME WorkerStops PROVE CallsTold' /\ PointersTold'
    BY <1>5, <1>8, <1>16 DEF WorkerStops
  <1>17. ASSUME BrowserRestart PROVE CallsTold' /\ PointersTold'
    <2>1. \A s \in Scopes : pointer'[s] = 0
      BY <1>17 DEF BrowserRestart
    <2> QED BY <1>1, <1>2, <1>8, <1>17, <2>1, PointersFrom DEF BrowserRestart
  <1>18. ASSUME Expire \/ \E s \in Scopes : RemoveMatching(s) PROVE CallsTold' /\ PointersTold'
    BY <1>5, <1>6, <1>18 DEF Expire, RemoveMatching, clientVars
  <1>19. CallsTold' /\ PointersTold'
    BY <1>5, <1>6, <1>9, <1>10, <1>11, <1>12, <1>13, <1>14, <1>15, <1>16, <1>17, <1>18
       DEF Next, InLoop, Failure
  <1> QED BY <1>2, <1>3, <1>19 DEF ToldInv

(* What the extension was last told of can be reviewed, whatever deliveries
   overlap, repeat one another after a lost answer, or go on unheard. *)
THEOREM ToldIsBound == Spec => []CandidateToldIsBound
  <1>1. Init => ToldInv
    <2> SUFFICES ASSUME Init PROVE ToldInv
      OBVIOUS
    <2>1. \A s \in Scopes : map[s].receipts = {} /\ pointer[s] = 0
      BY DEF Init, EmptyScope
    <2>2. \A c \in CallIds : calls[c].stage = "free"
      BY DEF Init, FreeCall
    <2> QED BY <2>1, <2>2, InitType DEF ToldInv, ReceiptsBelow, CallsTold, PointersTold, Reviewable, InFlight
  <1>2. ToldInv => CandidateToldIsBound
    BY DEF ToldInv, PointersTold, Reviewable, CandidateToldIsBound
  <1> QED BY <1>1, <1>2, ToldStep, PTL DEF Spec
===============================================================================
