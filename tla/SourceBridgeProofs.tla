-------------------------- MODULE SourceBridgeProofs --------------------------
(* Theorems about SourceBridge, for every set of calls and every bound. *)
EXTENDS SourceBridge, FiniteSetTheorems, SequenceTheorems, TLAPS

-------------------------------------------------------------------------------
(* Sequences of the members of a set *)

LEMMA OneEach ==
  ASSUME NEW S, IsFiniteSet(S)
  PROVE  SetToSeq(S) \in Seq(S)
  <1> DEFINE n == Cardinality(S)
  <1>1. n \in Nat /\ ExistsBijection(1..n, S)
    BY FS_CardinalityType
  <1>2. \E f \in [1..n -> S] : IsInjective(f)
    BY <1>1, Zenon DEF ExistsBijection, Bijection, Injection
  <1>3. SetToSeq(S) \in [1..n -> S]
    BY <1>2, Zenon DEF SetToSeq
  <1> QED BY <1>1, <1>3, IsASeq

LEMMA FiniteMessages == IsFiniteSet(Outbound) /\ IsFiniteSet(Down)
  <1>1. IsFiniteSet({"request", "cancel"}) /\ IsFiniteSet({"accepted", "ok", "error"})
        /\ IsFiniteSet({2, 3})
    <2>1. \A x, y, z : IsFiniteSet({x, y, z}) /\ IsFiniteSet({x, y})
      <3> TAKE x, y, z
      <3>1. IsFiniteSet({x}) /\ {x, y} = {x} \cup {y} /\ {x, y, z} = {x, y} \cup {z}
        BY FS_Singleton
      <3>2. IsFiniteSet({x, y})
        BY <3>1, FS_AddElement
      <3> QED BY <3>1, <3>2, FS_AddElement
    <2> QED BY <2>1
  <1>2. IsFiniteSet(Outbound)
    <2> DEFINE D == {"request", "cancel"} \X Reqs
               f == [p \in D |-> Msg(p[1], p[2])]
    <2>1. IsFiniteSet(D)
      BY <1>1, FS_Product, BridgeAssumption
    <2>2. f \in [D -> Outbound]
      BY DEF Msg, Outbound
    <2>3. ASSUME NEW m \in Outbound
          PROVE  \E p \in D : f[p] = m
      <3>1. <<m.type, m.req>> \in D /\ f[<<m.type, m.req>>] = m
        BY <2>3 DEF Msg, Outbound
      <3> QED BY <3>1
    <2> HIDE DEF D, f
    <2>4. f \in Surjection(D, Outbound)
      BY <2>2, <2>3 DEF Surjection
    <2> QED BY <2>1, <2>4, FS_Surjection
  <1>3. IsFiniteSet(Down)
    <2> DEFINE D == ({"accepted", "ok", "error"} \X Reqs) \X {2, 3}
               f == [p \in D |-> [type |-> p[1][1], req |-> p[1][2], seq |-> p[2]]]
    <2>1. IsFiniteSet(D)
      BY <1>1, FS_Product, BridgeAssumption
    <2>2. f \in [D -> Down]
      BY DEF Down
    <2>3. ASSUME NEW m \in Down
          PROVE  \E p \in D : f[p] = m
      <3>1. <<<<m.type, m.req>>, m.seq>> \in D /\ f[<<<<m.type, m.req>>, m.seq>>] = m
        BY <2>3 DEF Down
      <3> QED BY <3>1
    <2> HIDE DEF D, f
    <2>4. f \in Surjection(D, Down)
      BY <2>2, <2>3 DEF Surjection
    <2> QED BY <2>1, <2>4, FS_Surjection
  <1> QED BY <1>2, <1>3

-------------------------------------------------------------------------------
(* What holds of the bridge between two functions *)

Over(p, r) == p[r] \notin {"none", "pending"}

\* What the page may have posted when its promises are p: no request of a call
\* that was not made, no acknowledgement of one that is not answered.
Earned(p) ==
  {m \in Up : /\ m.type = "request" => p[m.req] # "none"
              /\ m.type = "ack" => Over(p, m.req)}

\* Calls that were not made have left no trace, and only open ones have mail.
BridgeOK(b) ==
  /\ b \in Bridge /\ b.sent \in Seq(Earned(b.promise))
  /\ \A r \in Reqs : b.promise[r] = "none" => r \notin b.requests \cup b.asked \cup b.known
  /\ \A m \in b.outbox : m.req \in b.requests

\* Between them the messages of box keep each open call on its way: its
\* run.request until the run is known, its run.cancel after.
Carried(b, box) ==
  \A r \in b.requests :
    /\ r \notin b.known => Msg("request", r) \in box
    /\ r \in b.known \cap b.asked => Msg("cancel", r) \in box

\* Pending promises may have been answered, by the page itself.
Locally(p, q) ==
  /\ q \in [Reqs -> Promises]
  /\ \A r \in Reqs : q[r] = p[r] \/ (p[r] = "pending" /\ q[r] \in Local)

\* The promises q answer at least what p answers.
Onward(p, q) ==
  /\ p \in [Reqs -> Promises] /\ q \in [Reqs -> Promises]
  /\ \A r \in Reqs : (p[r] # "none" => q[r] # "none") /\ (Over(p, r) => Over(q, r))

LEMMA EarnedOnward ==
  ASSUME NEW p, NEW q, Onward(p, q)
  PROVE  Seq(Earned(p)) \subseteq Seq(Earned(q))
  <1>1. Earned(p) \subseteq Earned(q)
    BY DEF Onward, Earned, Up
  <1> QED BY <1>1, SeqMonotonic

LEMMA LocalOnward ==
  ASSUME NEW p \in [Reqs -> Promises], NEW q, Locally(p, q)
  PROVE  Onward(p, q)
  BY DEF Locally, Onward, Over, Local

LEMMA LocalTwice ==
  ASSUME NEW p, NEW q, NEW s, Locally(p, q), Locally(q, s)
  PROVE  Locally(p, s)
  BY DEF Locally, Local

LEMMA LocalSelf ==
  ASSUME NEW p \in [Reqs -> Promises]
  PROVE  Locally(p, p)
  BY DEF Locally

\* A bridge that a function leaves keeps open calls on their way and has
\* answered nothing but by itself.
Left(b, c) == BridgeOK(c) /\ Carried(c, c.outbox) /\ Locally(b.promise, c.promise)

LEMMA CleanupOK ==
  ASSUME NEW b, BridgeOK(b), NEW gone \in SUBSET Reqs
  PROVE  /\ BridgeOK(Cleanup(b, gone)) /\ Cleanup(b, gone).promise = b.promise
         /\ Cleanup(b, gone).requests = b.requests \ gone
         /\ Carried(b, b.outbox) => Carried(Cleanup(b, gone), Cleanup(b, gone).outbox)
  <1> DEFINE c == Cleanup(b, gone)
  <1>1. /\ c \in Bridge /\ c.promise = b.promise /\ c.sent = b.sent
        /\ c.requests = b.requests \ gone /\ c.outbox = {m \in b.outbox : m.req \notin gone}
        /\ c.asked = b.asked /\ c.known = b.known
    BY DEF Cleanup, BridgeOK, Bridge
  <1> HIDE DEF c
  <1>2. BridgeOK(c)
    BY <1>1 DEF BridgeOK
  <1>3. Carried(b, b.outbox) => Carried(c, c.outbox)
    BY <1>1 DEF Carried, Msg
  <1> QED BY <1>1, <1>2, <1>3 DEF c

LEMMA SettleOK ==
  ASSUME NEW b, BridgeOK(b), NEW who \in SUBSET Reqs, NEW answer \in Promises \ {"none", "pending"}
  PROVE  /\ BridgeOK(Settle(b, who, answer))
         /\ Carried(b, b.outbox) => Carried(Settle(b, who, answer), Settle(b, who, answer).outbox)
         /\ answer \in Local => Locally(b.promise, Settle(b, who, answer).promise)
  <1> DEFINE c == Settle(b, who, answer)
  <1>1. /\ c \in Bridge /\ c.sent = b.sent /\ c.requests = b.requests /\ c.outbox = b.outbox
        /\ c.asked = b.asked /\ c.known = b.known
        /\ c.promise \in [Reqs -> Promises]
        /\ \A r \in Reqs :
             c.promise[r] = IF r \in who /\ b.promise[r] = "pending" THEN answer ELSE b.promise[r]
    BY DEF Settle, BridgeOK, Bridge
  <1> HIDE DEF c
  <1>2. Onward(b.promise, c.promise)
    BY <1>1 DEF Onward, Over, BridgeOK, Bridge
  <1>3. BridgeOK(c)
    <2>1. c.sent \in Seq(Earned(c.promise))
      BY <1>1, <1>2, EarnedOnward DEF BridgeOK
    <2> QED BY <1>1, <1>2, <2>1 DEF BridgeOK, Onward
  <1>4. Carried(b, b.outbox) => Carried(c, c.outbox)
    BY <1>1 DEF Carried
  <1>5. answer \in Local => Locally(b.promise, c.promise)
    BY <1>1 DEF Locally
  <1> QED BY <1>3, <1>4, <1>5 DEF c

LEMMA FailTransportOK ==
  ASSUME NEW b, BridgeOK(b), Carried(b, b.outbox)
  PROVE  Left(b, FailTransport(b))
  <1> DEFINE c == Settle(b, b.requests, "transport")
  <1>1. b.requests \in SUBSET Reqs /\ "transport" \in Promises \ {"none", "pending"}
        /\ "transport" \in Local
    BY DEF BridgeOK, Bridge, Promises, Local
  <1>2. BridgeOK(c) /\ Carried(c, c.outbox) /\ Locally(b.promise, c.promise)
    BY <1>1, SettleOK
  <1>3. FailTransport(b) = Cleanup(c, b.requests)
    BY DEF FailTransport
  <1> HIDE DEF c
  <1> QED BY <1>1, <1>2, <1>3, CleanupOK DEF Left

LEMMA ScheduleReconnectOK ==
  ASSUME NEW b, BridgeOK(b), Carried(b, b.outbox)
  PROVE  Left(b, ScheduleReconnect(b))
  <1>1. Locally(b.promise, b.promise)
    BY LocalSelf DEF BridgeOK, Bridge
  <1>2. CASE b.timer \/ b.stopped \/ (b.outbox = {} /\ b.requests = {})
    BY <1>1, <1>2 DEF ScheduleReconnect, Left
  <1>3. CASE ~(b.timer \/ b.stopped \/ (b.outbox = {} /\ b.requests = {}))
             /\ b.attempts >= MaxReconnect
    BY <1>3, FailTransportOK DEF ScheduleReconnect
  <1>4. CASE ~(b.timer \/ b.stopped \/ (b.outbox = {} /\ b.requests = {}))
             /\ ~(b.attempts >= MaxReconnect)
    <2> DEFINE c == [b EXCEPT !.attempts = @ + 1, !.timer = TRUE]
    <2>0. b.attempts + 1 \in 0..MaxReconnect
      <3>1. b.attempts \in 0..MaxReconnect /\ ~(b.attempts >= MaxReconnect)
        BY <1>4 DEF BridgeOK, Bridge
      <3> QED BY <3>1, BridgeAssumption
    <2>1. /\ c \in Bridge /\ c.promise = b.promise /\ c.sent = b.sent /\ c.requests = b.requests
          /\ c.outbox = b.outbox /\ c.asked = b.asked /\ c.known = b.known
      BY <2>0 DEF BridgeOK, Bridge
    <2>2. ScheduleReconnect(b) = c
      BY <1>4 DEF ScheduleReconnect
    <2> HIDE DEF c
    <2> QED BY <1>1, <2>1, <2>2 DEF Left, BridgeOK, Carried
  <1> QED BY <1>2, <1>3, <1>4

\* What is in the outbox may be posted.
LEMMA OutboxEarned ==
  ASSUME NEW b, BridgeOK(b), NEW box \in SUBSET Outbound, \A m \in box : m.req \in b.requests
  PROVE  SetToSeq(box) \in Seq(Earned(b.promise))
  <1>1. SetToSeq(box) \in Seq(box)
    BY OneEach, FiniteMessages, FS_Subset
  <1>2. box \subseteq Earned(b.promise)
    <2> SUFFICES ASSUME NEW m \in box PROVE m \in Earned(b.promise)
      OBVIOUS
    <2>1. m \in Up /\ m.type # "ack" /\ m.req \in b.requests /\ m.req \in Reqs
      BY DEF Outbound, Up
    <2>2. b.promise[m.req] # "none"
      BY <2>1 DEF BridgeOK
    <2> QED BY <2>1, <2>2 DEF Earned
  <1> QED BY <1>1, <1>2, SeqMonotonic

LEMMA ConnectPortOK ==
  ASSUME NEW b, BridgeOK(b), Carried(b, b.outbox), NEW ok \in BOOLEAN
  PROVE  Left(b, ConnectPort(b, ok))
  <1>1. Locally(b.promise, b.promise)
    BY LocalSelf DEF BridgeOK, Bridge
  <1>2. CASE b.port \/ b.stopped
    BY <1>1, <1>2 DEF ConnectPort, Left
  <1>3. CASE ~(b.port \/ b.stopped) /\ ok
    <2> DEFINE out == <<[type |-> "connect"]>> \o SetToSeq(b.outbox)
               c == [b EXCEPT !.port = TRUE, !.sent = out]
    <2>1. SetToSeq(b.outbox) \in Seq(Earned(b.promise))
      BY OutboxEarned DEF BridgeOK, Bridge
    <2>2. <<[type |-> "connect"]>> \in Seq(Earned(b.promise))
      <3>1. [type |-> "connect"] \in Earned(b.promise)
        BY DEF Earned, Up
      <3> QED BY <3>1
    <2>3. out \in Seq(Earned(b.promise))
      BY <2>1, <2>2, ConcatProperties
    <2>4. Seq(Earned(b.promise)) \subseteq Seq(Up)
      BY SeqMonotonic DEF Earned
    <2> HIDE DEF out
    <2>5. /\ c \in Bridge /\ c.promise = b.promise /\ c.sent = out /\ c.requests = b.requests
          /\ c.outbox = b.outbox /\ c.asked = b.asked /\ c.known = b.known
      BY <2>3, <2>4 DEF BridgeOK, Bridge
    <2>6. ConnectPort(b, ok) = c
      BY <1>3 DEF ConnectPort, out
    <2> HIDE DEF c
    <2> QED BY <1>1, <2>3, <2>5, <2>6 DEF Left, BridgeOK, Carried
  <1>4. CASE ~(b.port \/ b.stopped) /\ ~ok
    BY <1>4, ScheduleReconnectOK DEF ConnectPort
  <1> QED BY <1>2, <1>3, <1>4

\* A function may leave open calls to the messages it sends last.
LEMMA SendEnvelopesOK ==
  ASSUME NEW b, BridgeOK(b), NEW messages \in SUBSET Outbound, NEW ok \in BOOLEAN,
         \A m \in messages : m.req \in b.requests, Carried(b, b.outbox \cup messages)
  PROVE  Left(b, SendEnvelopes(b, messages, ok))
  <1> DEFINE kept == [b EXCEPT !.outbox = @ \cup messages]
             open == ConnectPort(kept, ok)
  <1>1. CASE messages = {}
    <2>1. b.outbox \cup messages = b.outbox /\ Locally(b.promise, b.promise)
      BY <1>1, LocalSelf DEF BridgeOK, Bridge
    <2> QED BY <1>1, <2>1 DEF SendEnvelopes, Left
  <1>2. CASE messages # {}
    <2>1. /\ kept \in Bridge /\ kept.promise = b.promise /\ kept.sent = b.sent
          /\ kept.requests = b.requests /\ kept.outbox = b.outbox \cup messages
          /\ kept.asked = b.asked /\ kept.known = b.known
      BY DEF BridgeOK, Bridge
    <2>2. BridgeOK(kept) /\ Carried(kept, kept.outbox)
      BY <2>1 DEF BridgeOK, Carried
    <2>3. SendEnvelopes(b, messages, ok) =
            IF open.port THEN [open EXCEPT !.sent = @ \o SetToSeq(messages)] ELSE open
      BY <1>2 DEF SendEnvelopes
    <2>4. SetToSeq(messages) \in Seq(Earned(b.promise))
      BY OutboxEarned
    <2> HIDE DEF kept
    <2>5. Left(kept, open)
      BY <2>2, ConnectPortOK
    <2> HIDE DEF open
    <2>6. Left(b, open) /\ BridgeOK(open)
      BY <2>1, <2>5 DEF Left
    <2> DEFINE out == open.sent \o SetToSeq(messages)
               c == [open EXCEPT !.sent = out]
    <2>7. SetToSeq(messages) \in Seq(Earned(open.promise))
      <3>1. Onward(b.promise, open.promise)
        BY <2>6, LocalOnward DEF Left, BridgeOK, Bridge
      <3> QED BY <2>4, <3>1, EarnedOnward
    <2>8. out \in Seq(Earned(open.promise)) /\ out \in Seq(Up)
      <3>1. out \in Seq(Earned(open.promise))
        BY <2>6, <2>7, ConcatProperties DEF BridgeOK
      <3>2. Seq(Earned(open.promise)) \subseteq Seq(Up)
        BY SeqMonotonic DEF Earned
      <3> QED BY <3>1, <3>2
    <2>9. open.sent \o SetToSeq(messages) = out
      OBVIOUS
    <2> HIDE DEF out
    <2>10. /\ c \in Bridge /\ c.promise = open.promise /\ c.sent = out
           /\ c.requests = open.requests /\ c.outbox = open.outbox /\ c.asked = open.asked
           /\ c.known = open.known
      BY <2>6, <2>8 DEF BridgeOK, Bridge
    <2>11. SendEnvelopes(b, messages, ok) \in {open, c}
      BY <2>3, <2>9
    <2> HIDE DEF c
    <2>12. Left(b, c)
      BY <2>6, <2>8, <2>10 DEF Left, BridgeOK, Carried
    <2> QED BY <2>6, <2>11, <2>12
  <1> QED BY <1>1, <1>2

LEMMA CancelRequestsOK ==
  ASSUME NEW b, BridgeOK(b), Carried(b, b.outbox), NEW who \in SUBSET b.requests, NEW ok \in BOOLEAN
  PROVE  Left(b, CancelRequests(b, who, ok))
  <1> DEFINE fresh == who \ b.asked
             marked == [b EXCEPT !.asked = @ \cup fresh]
             rejected == Settle(marked, fresh, "cancelled")
             messages == {Msg("cancel", r) : r \in fresh \cap b.known}
  <1>0. fresh \in SUBSET Reqs /\ fresh \subseteq b.requests
    BY DEF BridgeOK, Bridge
  <1> HIDE DEF fresh
  <1>1. /\ marked \in Bridge /\ marked.promise = b.promise /\ marked.sent = b.sent
        /\ marked.requests = b.requests /\ marked.outbox = b.outbox
        /\ marked.asked = b.asked \cup fresh /\ marked.known = b.known
    BY <1>0 DEF BridgeOK, Bridge
  <1> HIDE DEF marked
  <1>2. BridgeOK(marked)
    BY <1>0, <1>1 DEF BridgeOK
  <1>3. /\ BridgeOK(rejected) /\ Locally(marked.promise, rejected.promise)
    BY <1>0, <1>2, SettleOK DEF Promises, Local
  <1>4. /\ rejected.requests = marked.requests /\ rejected.outbox = marked.outbox
        /\ rejected.asked = marked.asked /\ rejected.known = marked.known
    BY <1>1 DEF Settle, Bridge
  <1>5. CancelRequests(b, who, ok) = SendEnvelopes(rejected, messages, ok)
    BY DEF CancelRequests, fresh, marked
  <1> HIDE DEF rejected
  <1>6. /\ messages \in SUBSET Outbound /\ \A m \in messages : m.req \in rejected.requests
    BY <1>0, <1>1, <1>4 DEF Msg, Outbound
  <1>7. Carried(rejected, rejected.outbox \cup messages)
    BY <1>0, <1>1, <1>4 DEF Carried
  <1> HIDE DEF messages
  <1>8. Left(rejected, SendEnvelopes(rejected, messages, ok))
    BY <1>3, <1>6, <1>7, SendEnvelopesOK
  <1> QED BY <1>1, <1>3, <1>5, <1>8, LocalTwice DEF Left

LEMMA InvokedOK ==
  ASSUME NEW b, BridgeOK(b), Carried(b, b.outbox), NEW r \in Reqs, b.promise[r] = "none",
         NEW ok \in BOOLEAN
  PROVE  /\ BridgeOK(Invoked(b, r, ok)) /\ Carried(Invoked(b, r, ok), Invoked(b, r, ok).outbox)
         /\ Locally([b.promise EXCEPT ![r] = "pending"], Invoked(b, r, ok).promise)
  <1> DEFINE c == [b EXCEPT !.requests = @ \cup {r}, !.promise[r] = "pending"]
             p == [b.promise EXCEPT ![r] = "pending"]
             messages == {Msg("request", r)}
  <1>1. p \in [Reqs -> Promises] /\ p[r] = "pending"
        /\ \A q \in Reqs : q # r => p[q] = b.promise[q]
    BY DEF BridgeOK, Bridge, Promises
  <1> HIDE DEF p
  <1>2. /\ c \in Bridge /\ c.promise = p /\ c.sent = b.sent /\ c.requests = b.requests \cup {r}
        /\ c.outbox = b.outbox /\ c.asked = b.asked /\ c.known = b.known
    BY <1>1 DEF BridgeOK, Bridge, p
  <1>3. Invoked(b, r, ok) = SendEnvelopes(c, messages, ok)
    BY DEF Invoked
  <1> HIDE DEF c
  <1>4. BridgeOK(c)
    <2>1. Onward(b.promise, p)
      BY <1>1 DEF Onward, Over, BridgeOK, Bridge
    <2>2. c.sent \in Seq(Earned(c.promise))
      BY <1>2, <2>1, EarnedOnward DEF BridgeOK
    <2> QED BY <1>1, <1>2, <2>2 DEF BridgeOK
  <1>5. messages \in SUBSET Outbound /\ \A m \in messages : m.req \in c.requests
    BY <1>2 DEF Msg, Outbound
  <1>6. Carried(c, c.outbox \cup messages)
    BY <1>2 DEF Carried, BridgeOK
  <1> HIDE DEF messages
  <1>7. Left(c, SendEnvelopes(c, messages, ok))
    BY <1>4, <1>5, <1>6, SendEnvelopesOK
  <1> QED BY <1>2, <1>3, <1>7 DEF Left, p

\* A bridge answers one pending call with what an envelope says, or is Left.
LEMMA HandlePortMessageOK ==
  ASSUME NEW b, BridgeOK(b), Carried(b, b.outbox), NEW m \in Down
  PROVE  /\ BridgeOK(HandlePortMessage(b, m))
         /\ Carried(HandlePortMessage(b, m), HandlePortMessage(b, m).outbox)
         /\ \/ Locally(b.promise, HandlePortMessage(b, m).promise)
            \/ /\ m.type # "accepted" /\ b.promise[m.req] = "pending"
               /\ HandlePortMessage(b, m).promise =
                    [b.promise EXCEPT ![m.req] = IF m.type = "ok" THEN "resolved" ELSE "failed"]
  <1> DEFINE r == m.req
             heard == [b EXCEPT !.attempts = 0, !.seen[r] = m.seq, !.known = @ \cup {r}]
  <1>0. r \in Reqs /\ m.seq \in 1..3 /\ m.type \in {"accepted", "ok", "error"}
    BY DEF Down
  <1>1. CASE ~Valid(b, m)
    <2>1. Locally(b.promise, b.promise)
      BY LocalSelf DEF BridgeOK, Bridge
    <2> QED BY <1>1, <2>1 DEF HandlePortMessage
  <1>2. CASE Valid(b, m)
    <2>1. r \in b.requests
      BY <1>2 DEF Valid
    <2>2. /\ heard \in Bridge /\ heard.promise = b.promise /\ heard.sent = b.sent
          /\ heard.requests = b.requests /\ heard.outbox = b.outbox /\ heard.asked = b.asked
          /\ heard.known = b.known \cup {r}
      <3>1. 0 \in 0..MaxReconnect
        BY BridgeAssumption
      <3> QED BY <1>0, <3>1 DEF BridgeOK, Bridge
    <2>3. HandlePortMessage(b, m) =
            IF m.type = "accepted"
            THEN SendEnvelopes([heard EXCEPT !.outbox = @ \ {Msg("request", r)}],
                               {Msg("cancel", q) : q \in {r} \cap b.asked}, TRUE)
            ELSE Cleanup(Settle([heard EXCEPT !.sent = <<Msg("ack", r)>>], {r},
                                IF m.type = "ok" THEN "resolved" ELSE "failed"), {r})
      BY <1>2 DEF HandlePortMessage
    <2> HIDE DEF heard
    <2>4. CASE m.type = "accepted"
      <3> DEFINE taken == [heard EXCEPT !.outbox = @ \ {Msg("request", r)}]
                 messages == {Msg("cancel", q) : q \in {r} \cap b.asked}
      <3>1. /\ taken \in Bridge /\ taken.promise = b.promise /\ taken.sent = b.sent
            /\ taken.requests = b.requests /\ taken.outbox = b.outbox \ {Msg("request", r)}
            /\ taken.asked = b.asked /\ taken.known = b.known \cup {r}
        BY <2>2 DEF Bridge
      <3>2. BridgeOK(taken)
        BY <2>1, <3>1 DEF BridgeOK
      <3> HIDE DEF taken
      <3>3. messages \in SUBSET Outbound /\ \A x \in messages : x.req \in taken.requests
        BY <2>1, <3>1, <1>0 DEF Msg, Outbound
      <3>4. Carried(taken, taken.outbox \cup messages)
        BY <3>1 DEF Carried, Msg
      <3>5. HandlePortMessage(b, m) = SendEnvelopes(taken, messages, TRUE)
        BY <2>3, <2>4 DEF taken
      <3> HIDE DEF messages
      <3>6. Left(taken, SendEnvelopes(taken, messages, TRUE))
        BY <3>2, <3>3, <3>4, SendEnvelopesOK
      <3> QED BY <3>1, <3>5, <3>6 DEF Left
    <2>5. CASE m.type # "accepted"
      <3> DEFINE answer == IF m.type = "ok" THEN "resolved" ELSE "failed"
                 done == [heard EXCEPT !.sent = <<Msg("ack", r)>>]
                 settled == Settle(done, {r}, answer)
                 c == Cleanup(settled, {r})
                 p == [b.promise EXCEPT ![r] = answer]
      <3>0. answer \in {"resolved", "failed"}
        OBVIOUS
      <3> HIDE DEF answer
      <3>1. b.promise[r] # "none" /\ b.promise \in [Reqs -> Promises]
        BY <2>1, <1>0 DEF BridgeOK, Bridge
      <3>2. /\ c \in Bridge /\ c.sent = <<Msg("ack", r)>> /\ c.requests = b.requests \ {r}
            /\ c.outbox = {x \in b.outbox : x.req \notin {r}} /\ c.asked = b.asked
            /\ c.known = b.known \cup {r}
            /\ c.promise = IF b.promise[r] = "pending" THEN p ELSE b.promise
        <4>1. /\ done \in Bridge /\ done.sent = <<Msg("ack", r)>> /\ done.requests = b.requests
              /\ done.outbox = b.outbox /\ done.asked = b.asked /\ done.known = b.known \cup {r}
              /\ done.promise = b.promise
          <5>1. <<Msg("ack", r)>> \in Seq(Up)
            BY <1>0 DEF Msg, Up
          <5> QED BY <2>2, <5>1 DEF Bridge
        <4> HIDE DEF done
        <4> DEFINE s == [q \in Reqs |-> IF q \in {r} /\ done.promise[q] = "pending" THEN answer
                                        ELSE done.promise[q]]
        <4>2. s = IF b.promise[r] = "pending" THEN p ELSE b.promise
          BY <1>0, <3>1, <4>1
        <4>3. s \in [Reqs -> Promises]
          BY <3>0, <3>1, <4>1 DEF Promises
        <4>4. settled = [done EXCEPT !.promise = s]
          BY <4>1 DEF Settle, Bridge
        <4> HIDE DEF s
        <4>5. /\ settled \in Bridge /\ settled.sent = done.sent /\ settled.requests = done.requests
              /\ settled.outbox = done.outbox /\ settled.asked = done.asked
              /\ settled.known = done.known /\ settled.promise = s
          BY <4>1, <4>3, <4>4 DEF Bridge
        <4> HIDE DEF settled
        <4>6. /\ c \in Bridge /\ c.sent = settled.sent /\ c.requests = settled.requests \ {r}
              /\ c.outbox = {x \in settled.outbox : x.req \notin {r}} /\ c.asked = settled.asked
              /\ c.known = settled.known /\ c.promise = settled.promise
          BY <4>5 DEF Cleanup, Bridge
        <4> QED BY <4>1, <4>2, <4>5, <4>6
      <3>3. HandlePortMessage(b, m) = c
        BY <2>3, <2>5 DEF answer
      <3> HIDE DEF c
      <3>4. Onward(b.promise, c.promise) /\ Over(c.promise, r)
        BY <3>0, <3>1, <3>2, <1>0 DEF Onward, Over, Bridge
      <3>5. BridgeOK(c)
        <4>1. Msg("ack", r) \in Earned(c.promise)
          BY <3>4, <1>0 DEF Earned, Msg, Up
        <4>2. c.sent \in Seq(Earned(c.promise))
          BY <3>2, <4>1
        <4> QED BY <2>1, <3>2, <3>4, <4>2 DEF BridgeOK, Onward, Over
      <3>6. Carried(c, c.outbox)
        BY <3>2 DEF Carried, Msg
      <3>7. CASE b.promise[r] = "pending"
        BY <2>5, <3>2, <3>3, <3>5, <3>6, <3>7 DEF answer
      <3>8. CASE b.promise[r] # "pending"
        BY <3>1, <3>2, <3>3, <3>5, <3>6, <3>8, LocalSelf
      <3> QED BY <3>7, <3>8
    <2> QED BY <2>4, <2>5
  <1> QED BY <1>1, <1>2

-------------------------------------------------------------------------------
(* The inductive invariant *)

\* What the coordinator may have posted when its runs are R: no outcome but
\* that of the run.
Told(R) == {m \in Down : m.type # "accepted" => R[m.req].end = m.type}

\* A run belongs to a call that was made, and is forgotten when that is answered.
Served(p, R) ==
  \A r \in Reqs : /\ R[r].status # "none" => p[r] # "none"
                  /\ R[r].end # "none" => p[r] # "none"
                  /\ R[r].dispatched => Over(p, r)

BridgeInv ==
  /\ BridgeOK(bridge) /\ Carried(bridge, bridge.outbox)
  /\ toWorker \in Seq(Earned(bridge.promise))
  /\ toPage \in Seq(Told(run))
  /\ run \in [Reqs -> Run] /\ Served(bridge.promise, run)
  /\ bound \in BOOLEAN /\ drops \in 0..MaxDrops

LEMMA ToldGrows ==
  ASSUME NEW R, NEW Q, \A r \in Reqs : R[r].end \in {"none", Q[r].end}
  PROVE  Seq(Told(R)) \subseteq Seq(Told(Q))
  <1>1. Told(R) \subseteq Told(Q)
    BY DEF Told, Down
  <1> QED BY <1>1, SeqMonotonic

LEMMA ServedOnward ==
  ASSUME NEW p, NEW q, NEW R, Onward(p, q), Served(p, R)
  PROVE  Served(q, R)
  BY DEF Onward, Served

\* The page takes the bridge a function left.
LEMMA StepInv ==
  ASSUME BridgeInv, NEW b, Step(b), BridgeOK(b), Carried(b, b.outbox),
         Onward(bridge.promise, b.promise), toPage' \in Seq(Told(run))
  PROVE  BridgeInv' /\ bridge'.promise = b.promise /\ run' = run
  <1>1. /\ bridge' \in Bridge /\ bridge'.promise = b.promise /\ bridge'.sent = <<>>
        /\ bridge'.requests = b.requests /\ bridge'.outbox = b.outbox
        /\ bridge'.asked = b.asked /\ bridge'.known = b.known
    <2>1. <<>> \in Seq(Up)
      OBVIOUS
    <2> QED BY <2>1 DEF Step, BridgeOK, Bridge
  <1>2. BridgeOK(bridge') /\ Carried(bridge', bridge'.outbox)
    <2>1. bridge'.sent \in Seq(Earned(bridge'.promise))
      BY <1>1
    <2> QED BY <1>1, <2>1 DEF BridgeOK, Carried
  <1>3. toWorker' \in Seq(Earned(bridge'.promise))
    <2>1. toWorker \in Seq(Earned(b.promise)) /\ b.sent \in Seq(Earned(b.promise))
      BY EarnedOnward DEF BridgeInv, BridgeOK
    <2> QED BY <1>1, <2>1, ConcatProperties DEF Step
  <1>4. run' = run /\ bound' = bound /\ drops' = drops
    BY DEF Step
  <1>5. Served(bridge'.promise, run')
    BY <1>1, <1>4, ServedOnward DEF BridgeInv
  <1> QED BY <1>1, <1>2, <1>3, <1>4, <1>5 DEF BridgeInv

LEMMA OwnInv ==
  ASSUME BridgeInv, NEW b, Own(b), Left(bridge, b)
  PROVE  BridgeInv' /\ Locally(bridge.promise, bridge'.promise) /\ run' = run
  <1>1. Onward(bridge.promise, b.promise)
    BY LocalOnward DEF BridgeInv, Left, BridgeOK, Bridge
  <1>2. Step(b) /\ toPage' \in Seq(Told(run))
    BY DEF Own, BridgeInv
  <1>3. BridgeInv' /\ bridge'.promise = b.promise /\ run' = run
    BY <1>1, <1>2, StepInv DEF Left
  <1> QED BY <1>3 DEF Left

-------------------------------------------------------------------------------
(* Each step of the page *)

\* Calls begin, and those that are not answered get an answer of the page.
Calls(p, q) ==
  /\ q \in [Reqs -> Promises]
  /\ \A r \in Reqs : \/ q[r] = p[r]
                     \/ p[r] \in {"none", "pending"} /\ q[r] \in Local
                     \/ p[r] = "none" /\ q[r] = "pending"

LEMMA LocalCalls ==
  ASSUME NEW p, NEW q, Locally(p, q)
  PROVE  Calls(p, q)
  BY DEF Locally, Calls

LEMMA CallStep ==
  ASSUME bridge.promise \in [Reqs -> Promises], Calls(bridge.promise, bridge'.promise), run' = run
  PROVE  I!Next
  <1> DEFINE p == bridge.promise
             q == bridge'.promise
             started == {r \in Reqs : p[r] = "none" /\ q[r] # "none"}
             answered == {r \in Reqs : p[r] \in {"none", "pending"} /\ q[r] \in Local}
             answer == [r \in answered |-> q[r]]
  <1>1. started \in SUBSET Reqs /\ answered \in SUBSET Reqs /\ answer \in [answered -> Local]
    OBVIOUS
  <1>2. started \subseteq {r \in Reqs : p[r] = "none"}
    OBVIOUS
  <1>3. answered \subseteq started \cup {r \in Reqs : p[r] = "pending"}
    BY DEF Local
  <1>4. q = [r \in Reqs |-> IF r \in answered THEN answer[r]
                            ELSE IF r \in started THEN "pending" ELSE p[r]]
    <2>1. q \in [Reqs -> Promises]
      BY DEF Calls
    <2>2. ASSUME NEW r \in Reqs
          PROVE  q[r] = IF r \in answered THEN answer[r]
                        ELSE IF r \in started THEN "pending" ELSE p[r]
      BY DEF Calls, Local
    <2> HIDE DEF started, answered, answer, p, q
    <2> QED BY <2>1, <2>2
  <1>5. UNCHANGED outcome
    BY DEF outcome
  <1> HIDE DEF started, answered, answer
  <1>6. I!Call(started, answered, answer)
    BY <1>1, <1>2, <1>3, <1>4, <1>5 DEF I!Call, I!Local, Local
  <1>7. answer \in [answered -> I!Local]
    BY <1>1 DEF I!Local, Local
  <1> QED BY <1>1, <1>6, <1>7 DEF I!Next

LEMMA InvokeInv ==
  ASSUME BridgeInv, NEW r \in Reqs, Invoke(r)
  PROVE  BridgeInv' /\ I!Next
  <1>0. /\ bridge.promise \in [Reqs -> Promises] /\ bridge.promise[r] = "none"
        /\ BridgeOK(bridge) /\ Carried(bridge, bridge.outbox) /\ toPage \in Seq(Told(run))
    BY DEF BridgeInv, BridgeOK, Bridge, Invoke
  <1>1. ASSUME NEW b, Own(b), BridgeOK(b), Carried(b, b.outbox), Calls(bridge.promise, b.promise)
        PROVE  BridgeInv' /\ I!Next
    <2>1. Onward(bridge.promise, b.promise)
      BY <1>0, <1>1 DEF Calls, Onward, Over, Local
    <2>2. BridgeInv' /\ bridge'.promise = b.promise /\ run' = run
      BY <1>0, <1>1, <2>1, StepInv DEF Own
    <2> QED BY <1>0, <1>1, <2>2, CallStep
  <1>2. ASSUME NEW ok \in BOOLEAN, Own(Invoked(bridge, r, ok))
        PROVE  BridgeInv' /\ I!Next
    <2> DEFINE b == Invoked(bridge, r, ok)
    <2>1. /\ BridgeOK(b) /\ Carried(b, b.outbox)
          /\ Locally([bridge.promise EXCEPT ![r] = "pending"], b.promise)
      BY <1>0, InvokedOK
    <2> HIDE DEF b
    <2>2. Calls(bridge.promise, b.promise)
      BY <1>0, <2>1 DEF Calls, Locally
    <2> QED BY <1>1, <1>2, <2>1, <2>2 DEF b
  <1>3. ASSUME NEW answer \in {"refused", "cancelled"},
               Own([bridge EXCEPT !.promise[r] = answer])
        PROVE  BridgeInv' /\ I!Next
    <2> DEFINE b == [bridge EXCEPT !.promise[r] = answer]
               p == [bridge.promise EXCEPT ![r] = answer]
    <2>1. /\ p \in [Reqs -> Promises] /\ answer \in Local /\ p[r] = answer
          /\ \A q \in Reqs : q # r => p[q] = bridge.promise[q]
      BY <1>0 DEF Promises, Local
    <2> HIDE DEF p
    <2>2. /\ b \in Bridge /\ b.promise = p /\ b.sent = bridge.sent
          /\ b.requests = bridge.requests /\ b.outbox = bridge.outbox
          /\ b.asked = bridge.asked /\ b.known = bridge.known
      BY <1>0, <2>1 DEF BridgeOK, Bridge, p
    <2> HIDE DEF b
    <2>3. Calls(bridge.promise, b.promise)
      BY <1>0, <2>1, <2>2 DEF Calls
    <2>4. BridgeOK(b)
      <3>1. Onward(bridge.promise, p)
        BY <1>0, <2>1 DEF Onward, Over, Local
      <3>2. b.sent \in Seq(Earned(b.promise))
        BY <1>0, <2>2, <3>1, EarnedOnward DEF BridgeOK
      <3> QED BY <1>0, <2>1, <2>2, <3>2 DEF BridgeOK
    <2>5. Carried(b, b.outbox)
      BY <1>0, <2>2 DEF Carried
    <2> QED BY <1>1, <1>3, <2>3, <2>4, <2>5 DEF b
  <1> QED BY <1>2, <1>3 DEF Invoke

\* The page cancels calls, hides, shows, or opens a port again.
LEMMA PageInv ==
  ASSUME BridgeInv,
         \/ \E r \in Reqs : Abort(r)
         \/ \E who \in SUBSET Reqs : Withdraw(who)
         \/ PageHide \/ PageShow \/ ReconnectTimer
  PROVE  BridgeInv' /\ I!Next
  <1>0. /\ bridge \in Bridge /\ bridge.promise \in [Reqs -> Promises]
        /\ BridgeOK(bridge) /\ Carried(bridge, bridge.outbox)
    BY DEF BridgeInv, BridgeOK, Bridge
  <1>1. ASSUME NEW b, Own(b), Left(bridge, b)
        PROVE  BridgeInv' /\ I!Next
    <2>1. BridgeInv' /\ Locally(bridge.promise, bridge'.promise) /\ run' = run
      BY <1>1, OwnInv
    <2> QED BY <1>0, <2>1, LocalCalls, CallStep
  <1>2. ASSUME NEW b, b \in Bridge, b.promise = bridge.promise, b.sent = bridge.sent,
               b.requests = bridge.requests, b.outbox = bridge.outbox, b.asked = bridge.asked,
               b.known = bridge.known
        PROVE  BridgeOK(b) /\ Carried(b, b.outbox)
    BY <1>0, <1>2 DEF BridgeOK, Carried
  <1>3. ASSUME NEW who \in SUBSET bridge.requests, NEW ok \in BOOLEAN,
               Own(CancelRequests(bridge, who, ok))
        PROVE  BridgeInv' /\ I!Next
    BY <1>0, <1>1, <1>3, CancelRequestsOK
  <1>4. CASE PageHide
    <2> DEFINE b == [bridge EXCEPT !.hidden = TRUE]
    <2>1. PICK ok \in BOOLEAN : Own(CancelRequests(b, bridge.requests, ok))
      BY <1>4 DEF PageHide
    <2>2. /\ b \in Bridge /\ b.promise = bridge.promise /\ b.sent = bridge.sent
          /\ b.requests = bridge.requests /\ b.outbox = bridge.outbox
          /\ b.asked = bridge.asked /\ b.known = bridge.known
      BY <1>0 DEF Bridge
    <2> HIDE DEF b
    <2>3. BridgeOK(b) /\ Carried(b, b.outbox)
      BY <1>2, <2>2
    <2>4. Left(b, CancelRequests(b, bridge.requests, ok))
      BY <2>2, <2>3, CancelRequestsOK
    <2> QED BY <1>1, <2>1, <2>2, <2>4 DEF Left
  <1>5. CASE PageShow
    <2> DEFINE b == [bridge EXCEPT !.hidden = FALSE]
    <2>1. /\ b \in Bridge /\ b.promise = bridge.promise /\ b.sent = bridge.sent
          /\ b.requests = bridge.requests /\ b.outbox = bridge.outbox
          /\ b.asked = bridge.asked /\ b.known = bridge.known
      BY <1>0 DEF Bridge
    <2>2. Own(b)
      BY <1>5 DEF PageShow
    <2> HIDE DEF b
    <2>3. Left(bridge, b)
      BY <1>0, <1>2, <2>1, LocalSelf DEF Left
    <2> QED BY <1>1, <2>2, <2>3
  <1>6. CASE ReconnectTimer
    <2> DEFINE b == [bridge EXCEPT !.timer = FALSE]
    <2>1. PICK ok \in BOOLEAN : Own(ConnectPort(b, ok))
      BY <1>6 DEF ReconnectTimer
    <2>2. /\ b \in Bridge /\ b.promise = bridge.promise /\ b.sent = bridge.sent
          /\ b.requests = bridge.requests /\ b.outbox = bridge.outbox
          /\ b.asked = bridge.asked /\ b.known = bridge.known
      BY <1>0 DEF Bridge
    <2> HIDE DEF b
    <2>3. Left(b, ConnectPort(b, ok))
      BY <1>2, <2>2, ConnectPortOK
    <2> QED BY <1>1, <2>1, <2>2, <2>3 DEF Left
  <1> QED BY <1>3, <1>4, <1>5, <1>6 DEF Abort, Withdraw

\* No port is opened for a page that is stopped, so no call fails for it.
LEMMA StoppedRequests ==
  ASSUME NEW b \in Bridge, b.stopped, NEW who, NEW ok
  PROVE  CancelRequests(b, who, ok).requests = b.requests
  <1> DEFINE fresh == who \ b.asked
             rejected == Settle([b EXCEPT !.asked = @ \cup fresh], fresh, "cancelled")
             messages == {Msg("cancel", r) : r \in fresh \cap b.known}
             kept == [rejected EXCEPT !.outbox = @ \cup messages]
  <1>1. /\ rejected.requests = b.requests /\ rejected.stopped = b.stopped
        /\ kept.requests = rejected.requests /\ kept.stopped = rejected.stopped
        /\ \A s : [kept EXCEPT !.sent = s].requests = rejected.requests
    BY DEF Settle, Bridge
  <1>2. CancelRequests(b, who, ok) = SendEnvelopes(rejected, messages, ok)
    BY DEF CancelRequests
  <1> HIDE DEF rejected, messages
  <1>3. ConnectPort(kept, ok) = kept
    BY <1>1 DEF ConnectPort
  <1>4. SendEnvelopes(rejected, messages, ok) \in
          {rejected, kept, [kept EXCEPT !.sent = @ \o SetToSeq(messages)]}
    BY <1>3 DEF SendEnvelopes
  <1> HIDE DEF kept
  <1> QED BY <1>1, <1>2, <1>4

LEMMA StopInv ==
  ASSUME BridgeInv, Stop
  PROVE  BridgeInv' /\ I!Next
  <1> DEFINE stopping == [bridge EXCEPT !.stopped = TRUE]
             cancelled == CancelRequests(stopping, bridge.requests, FALSE)
             closing == IF bridge.port THEN <<[type |-> "disconnect"]>> ELSE <<>>
             cleaned == Cleanup(cancelled, bridge.requests)
             out == cleaned.sent \o closing
             b == [cleaned EXCEPT !.outbox = {}, !.timer = FALSE, !.port = FALSE, !.sent = out]
  <1>0. /\ bridge \in Bridge /\ bridge.promise \in [Reqs -> Promises]
        /\ BridgeOK(bridge) /\ Carried(bridge, bridge.outbox)
    BY DEF BridgeInv, BridgeOK, Bridge
  <1>1. Step(b) /\ toPage' = <<>>
    BY DEF Stop
  <1>2. /\ stopping \in Bridge /\ stopping.promise = bridge.promise /\ stopping.sent = bridge.sent
        /\ stopping.requests = bridge.requests /\ stopping.outbox = bridge.outbox
        /\ stopping.asked = bridge.asked /\ stopping.known = bridge.known
    BY <1>0 DEF Bridge
  <1> HIDE DEF stopping
  <1>3. BridgeOK(stopping) /\ Carried(stopping, stopping.outbox)
    BY <1>0, <1>2 DEF BridgeOK, Carried
  <1>4. Left(stopping, cancelled)
    BY <1>2, <1>3, CancelRequestsOK
  <1> HIDE DEF cancelled
  <1>5. /\ BridgeOK(cleaned) /\ cleaned.promise = cancelled.promise
        /\ Carried(cleaned, cleaned.outbox)
    <2>1. bridge.requests \in SUBSET Reqs
      BY <1>0 DEF Bridge
    <2> QED BY <1>4, <2>1, CleanupOK DEF Left
  <1> HIDE DEF cleaned
  <1>6. out \in Seq(Earned(cleaned.promise)) /\ out \in Seq(Up)
    <2>1. closing \in Seq(Earned(cleaned.promise))
      <3>1. [type |-> "disconnect"] \in Earned(cleaned.promise)
        BY DEF Earned, Up
      <3>2. \A S : <<>> \in Seq(S) /\ \A x \in S : <<x>> \in Seq(S)
        OBVIOUS
      <3>3. closing \in {<<>>, <<[type |-> "disconnect"]>>}
        OBVIOUS
      <3> QED BY <3>1, <3>2, <3>3
    <2> HIDE DEF closing
    <2>2. out \in Seq(Earned(cleaned.promise))
      BY <1>5, <2>1, ConcatProperties DEF BridgeOK
    <2>3. Seq(Earned(cleaned.promise)) \subseteq Seq(Up)
      BY SeqMonotonic DEF Earned
    <2> QED BY <2>2, <2>3
  <1> HIDE DEF out
  <1>7. /\ b \in Bridge /\ b.promise = cleaned.promise /\ b.sent = out
        /\ b.requests = cleaned.requests /\ b.outbox = {} /\ b.asked = cleaned.asked
        /\ b.known = cleaned.known
    BY <1>5, <1>6 DEF BridgeOK, Bridge
  <1>8. cleaned.requests = {}
    <2>1. cancelled.requests = bridge.requests
      <3>1. stopping.stopped
        BY <1>0 DEF stopping, Bridge
      <3> QED BY <1>2, <3>1, StoppedRequests DEF cancelled
    <2>2. bridge.requests \in SUBSET Reqs
      BY <1>0 DEF Bridge
    <2>3. cleaned.requests = cancelled.requests \ bridge.requests
      BY <1>4, <2>2, CleanupOK DEF Left, cleaned
    <2> QED BY <2>1, <2>3
  <1> HIDE DEF b
  <1>9. BridgeOK(b) /\ Carried(b, b.outbox)
    BY <1>5, <1>6, <1>7, <1>8 DEF BridgeOK, Carried
  <1>10. Locally(bridge.promise, b.promise)
    BY <1>2, <1>4, <1>5, <1>7 DEF Left
  <1>11. toPage' \in Seq(Told(run))
    BY <1>1
  <1>12. BridgeInv' /\ bridge'.promise = b.promise /\ run' = run
    BY <1>0, <1>1, <1>9, <1>10, <1>11, LocalOnward, StepInv
  <1> QED BY <1>0, <1>10, <1>12, LocalCalls, CallStep

LEMMA ReceiveInv ==
  ASSUME BridgeInv, Receive
  PROVE  BridgeInv' /\ I!Next
  <1> DEFINE m == Head(toPage)
             b == HandlePortMessage(bridge, m)
             p == bridge.promise
  <1>1. /\ p \in [Reqs -> Promises] /\ toPage \in Seq(Told(run)) /\ toPage # <<>>
        /\ BridgeOK(bridge) /\ Carried(bridge, bridge.outbox) /\ Step(b)
        /\ toPage' = Tail(toPage)
    BY DEF BridgeInv, BridgeOK, Bridge, Receive
  <1>2. m \in Told(run) /\ Tail(toPage) \in Seq(Told(run))
    BY <1>1, HeadTailProperties
  <1> HIDE DEF m
  <1>3. m \in Down /\ (m.type # "accepted" => run[m.req].end = m.type) /\ m.req \in Reqs
        /\ m.type \in {"accepted", "ok", "error"}
    BY <1>2 DEF Told, Down
  <1>4. /\ BridgeOK(b) /\ Carried(b, b.outbox)
        /\ \/ Locally(p, b.promise)
           \/ /\ m.type # "accepted" /\ p[m.req] = "pending"
              /\ b.promise = [p EXCEPT ![m.req] = IF m.type = "ok" THEN "resolved" ELSE "failed"]
    BY <1>1, <1>3, HandlePortMessageOK
  <1> HIDE DEF b
  <1>5. CASE Locally(p, b.promise)
    <2>1. BridgeInv' /\ bridge'.promise = b.promise /\ run' = run
      BY <1>1, <1>2, <1>4, <1>5, LocalOnward, StepInv
    <2> QED BY <1>1, <1>5, <2>1, LocalCalls, CallStep
  <1>6. CASE /\ m.type # "accepted" /\ p[m.req] = "pending"
             /\ b.promise = [p EXCEPT ![m.req] = IF m.type = "ok" THEN "resolved" ELSE "failed"]
    <2>1. Onward(p, b.promise)
      BY <1>1, <1>6 DEF Onward, Over, Promises
    <2>2. BridgeInv' /\ bridge'.promise = b.promise /\ run' = run
      BY <1>1, <1>2, <1>4, <2>1, StepInv
    <2>3. /\ outcome[m.req] = m.type /\ outcome[m.req] \in {"ok", "error"}
          /\ UNCHANGED outcome
      BY <1>3, <1>6, <2>2 DEF outcome
    <2>4. I!Answer(m.req)
      BY <1>6, <2>2, <2>3 DEF I!Answer
    <2> QED BY <1>3, <2>2, <2>4 DEF I!Next
  <1> QED BY <1>4, <1>5, <1>6

LEMMA PortLostInv ==
  ASSUME BridgeInv, PortLost
  PROVE  BridgeInv' /\ I!Next
  <1> DEFINE b == [bridge EXCEPT !.port = FALSE]
  <1>0. /\ bridge \in Bridge /\ bridge.promise \in [Reqs -> Promises]
        /\ BridgeOK(bridge) /\ Carried(bridge, bridge.outbox)
    BY DEF BridgeInv, BridgeOK, Bridge
  <1>1. /\ b \in Bridge /\ b.promise = bridge.promise /\ b.sent = bridge.sent
        /\ b.requests = bridge.requests /\ b.outbox = bridge.outbox
        /\ b.asked = bridge.asked /\ b.known = bridge.known
    BY <1>0 DEF Bridge
  <1>2. bridge' = ScheduleReconnect(b) /\ run' = run
    BY DEF PortLost
  <1> HIDE DEF b
  <1>3. BridgeOK(b) /\ Carried(b, b.outbox)
    BY <1>0, <1>1 DEF BridgeOK, Carried
  <1>4. Left(b, bridge')
    BY <1>2, <1>3, ScheduleReconnectOK
  <1>5. Locally(bridge.promise, bridge'.promise)
    BY <1>1, <1>4 DEF Left
  <1>6. Served(bridge'.promise, run')
    BY <1>0, <1>2, <1>5, LocalOnward, ServedOnward DEF BridgeInv
  <1>7. drops' \in 0..MaxDrops
    BY BridgeAssumption DEF PortLost, BridgeInv
  <1>8. toWorker' = <<>> /\ toPage' = <<>> /\ bound' = FALSE
    BY DEF PortLost
  <1>9. BridgeInv'
    <2>1. BridgeOK(bridge') /\ Carried(bridge', bridge'.outbox)
      BY <1>4 DEF Left
    <2>2. \A S : <<>> \in Seq(S)
      OBVIOUS
    <2>3. run' \in [Reqs -> Run] /\ bound' \in BOOLEAN
      BY <1>2, <1>8 DEF BridgeInv
    <2> QED BY <1>6, <1>7, <1>8, <2>1, <2>2, <2>3 DEF BridgeInv
  <1> QED BY <1>0, <1>2, <1>5, <1>9, LocalCalls, CallStep

-------------------------------------------------------------------------------
(* Each step of the coordinator *)

LEMMA PostTold ==
  ASSUME NEW R, toPage \in Seq(Told(R)), NEW ms \in SUBSET Told(R), Post(ms)
  PROVE  toPage' \in Seq(Told(R))
  <1>1. SetToSeq(ms) \in Seq(ms) /\ Seq(ms) \subseteq Seq(Told(R))
    BY OneEach, FiniteMessages, FS_Subset, SeqMonotonic DEF Told
  <1> QED BY <1>1, ConcatProperties DEF Post

LEMMA TerminalTold ==
  ASSUME NEW R \in [Reqs -> Run], NEW r \in Reqs, R[r].end # "none"
  PROVE  Terminal(r, R) \in Told(R)
  <1>1. R[r].end \in {"ok", "error"}
    BY DEF Run
  <1> QED BY <1>1 DEF Terminal, Told, Down

LEMMA ReplayTold ==
  ASSUME BridgeInv, NEW r \in Reqs
  PROVE  Replay(r) \subseteq Told(run)
  <1>1. Accepted(r) \in Told(run)
    BY DEF Accepted, Told, Down
  <1>2. Unheard(r) => Terminal(r, run) \in Told(run)
    BY TerminalTold DEF Unheard, BridgeInv
  <1> QED BY <1>1, <1>2 DEF Replay

LEMMA EndRunInv ==
  ASSUME BridgeInv, NEW r \in Reqs, NEW end \in {"ok", "error"}, Open(r), EndRun(r, end),
         UNCHANGED <<bridge, bound, drops>>, toWorker' \in Seq(Earned(bridge.promise))
  PROVE  BridgeInv' /\ I!Next
  <1>1. run' = [run EXCEPT ![r].end = end] /\ Post({Terminal(r, run')}) /\ run \in [Reqs -> Run]
        /\ run[r].end = "none" /\ run[r].status # "none"
    BY DEF EndRun, Open, Exists, BridgeInv
  <1>2. /\ run' \in [Reqs -> Run] /\ run'[r].end = end /\ run'[r].status = run[r].status
        /\ run'[r].dispatched = run[r].dispatched /\ \A q \in Reqs : q # r => run'[q] = run[q]
    BY <1>1 DEF Run
  <1>3. toPage \in Seq(Told(run'))
    <2>1. \A q \in Reqs : run[q].end \in {"none", run'[q].end}
      BY <1>1, <1>2
    <2> QED BY <2>1, ToldGrows DEF BridgeInv
  <1>4. Terminal(r, run') \in Told(run')
    BY <1>2, TerminalTold
  <1>5. toPage' \in Seq(Told(run'))
    <2> DEFINE R == run'
               ms == {Terminal(r, R)}
    <2>1. ms \in SUBSET Told(R) /\ Post(ms) /\ toPage \in Seq(Told(R))
      BY <1>1, <1>3, <1>4
    <2> HIDE DEF R, ms
    <2>2. toPage' \in Seq(Told(R))
      BY <2>1, PostTold
    <2> QED BY <2>2 DEF R
  <1>6. Served(bridge'.promise, run')
    BY <1>1, <1>2 DEF Served, BridgeInv
  <1>7. BridgeInv'
    BY <1>2, <1>5, <1>6 DEF BridgeInv
  <1>8. I!End(r, end)
    <2>1. outcome[r] = "none" /\ bridge.promise[r] # "none" /\ UNCHANGED bridge.promise
      BY <1>1 DEF outcome, Served, BridgeInv
    <2>2. outcome' = [outcome EXCEPT ![r] = end]
      BY <1>2 DEF outcome
    <2> QED BY <2>1, <2>2 DEF I!End
  <1> QED BY <1>7, <1>8 DEF I!Next

\* The coordinator changes a run, but not how it ends.
LEMMA QuietInv ==
  ASSUME BridgeInv, UNCHANGED <<bridge, drops>>, toWorker' \in Seq(Earned(bridge.promise)),
         toPage' \in Seq(Told(run)), bound' \in BOOLEAN, run' \in [Reqs -> Run],
         \A r \in Reqs : run'[r].end = run[r].end, Served(bridge.promise, run')
  PROVE  BridgeInv' /\ UNCHANGED <<bridge.promise, outcome>>
  <1>1. Seq(Told(run)) \subseteq Seq(Told(run'))
    <2> DEFINE R == run'
    <2>1. \A r \in Reqs : run[r].end \in {"none", R[r].end}
      OBVIOUS
    <2> HIDE DEF R
    <2>2. Seq(Told(run)) \subseteq Seq(Told(R))
      BY <2>1, ToldGrows
    <2> QED BY <2>2 DEF R
  <1> QED BY <1>1 DEF BridgeInv, outcome

LEMMA AcceptInv ==
  ASSUME BridgeInv, NEW r \in Reqs, Accept(r)
  PROVE  BridgeInv' /\ UNCHANGED <<bridge.promise, outcome>>
  <1>1. run' = [run EXCEPT ![r].status = "accepted"] /\ Post({Accepted(r)})
        /\ UNCHANGED <<bridge, toWorker, bound, drops>> /\ run[r].status = "created"
    BY DEF Accept
  <1>2. /\ run' \in [Reqs -> Run]
        /\ \A q \in Reqs : run'[q].end = run[q].end /\ run'[q].dispatched = run[q].dispatched
                           /\ (q # r => run'[q] = run[q])
    BY <1>1 DEF BridgeInv, Run
  <1>3. toPage' \in Seq(Told(run))
    <2>1. {Accepted(r)} \in SUBSET Told(run)
      BY DEF Accepted, Told, Down
    <2> QED BY <1>1, <2>1, PostTold DEF BridgeInv
  <1>4. Served(bridge.promise, run')
    BY <1>1, <1>2 DEF Served, BridgeInv
  <1> QED BY <1>1, <1>2, <1>3, <1>4, QuietInv DEF BridgeInv

LEMMA WorkerReceiveInv ==
  ASSUME BridgeInv, WorkerReceive
  PROVE  BridgeInv' /\ (I!Next \/ UNCHANGED <<bridge.promise, outcome>>)
  <1> DEFINE m == Head(toWorker)
  <1>1. /\ toWorker \in Seq(Earned(bridge.promise)) /\ toWorker # <<>>
        /\ toPage \in Seq(Told(run)) /\ run \in [Reqs -> Run]
        /\ Served(bridge.promise, run) /\ bound \in BOOLEAN
    BY DEF BridgeInv, WorkerReceive
  <1>2. m \in Earned(bridge.promise) /\ Tail(toWorker) \in Seq(Earned(bridge.promise))
    BY <1>1, HeadTailProperties
  <1>3. /\ toWorker' \in Seq(Earned(bridge.promise)) /\ UNCHANGED <<bridge, drops>>
        /\ \/ m.type = "connect" /\ bound' = TRUE /\ toPage' = SetToSeq(Resume) /\ UNCHANGED run
           \/ m.type = "disconnect" /\ bound' = FALSE /\ UNCHANGED <<run, toPage>>
           \/ /\ m.type = "request" /\ UNCHANGED bound
              /\ IF Exists(m.req) THEN Post(Replay(m.req)) /\ UNCHANGED run
                 ELSE run' = [run EXCEPT ![m.req].status = "created"] /\ UNCHANGED toPage
           \/ /\ m.type = "cancel" /\ UNCHANGED bound
              /\ IF Open(m.req) THEN EndRun(m.req, "error") ELSE UNCHANGED <<run, toPage>>
           \/ /\ m.type = "ack" /\ UNCHANGED <<bound, toPage>>
              /\ run' = [run EXCEPT ![m.req].dispatched = TRUE]
    BY <1>2 DEF WorkerReceive
  <1>4. /\ m.type \in {"request", "cancel", "ack"} => m.req \in Reqs
        /\ m.type = "request" => bridge.promise[m.req] # "none"
        /\ m.type = "ack" => Over(bridge.promise, m.req)
    BY <1>2 DEF Earned, Up
  <1> HIDE DEF m
  <1>5. ASSUME UNCHANGED run, bound' \in BOOLEAN, toPage' \in Seq(Told(run))
        PROVE  BridgeInv' /\ UNCHANGED <<bridge.promise, outcome>>
    BY <1>1, <1>3, <1>5, QuietInv
  <1>6. ASSUME m.req \in Reqs, UNCHANGED <<bound, toPage>>, run' \in [Reqs -> Run],
               \A r \in Reqs : run'[r].end = run[r].end /\ (r # m.req => run'[r] = run[r]),
               run'[m.req].status # "none" => bridge.promise[m.req] # "none",
               run'[m.req].end # "none" => bridge.promise[m.req] # "none",
               run'[m.req].dispatched => Over(bridge.promise, m.req)
        PROVE  BridgeInv' /\ UNCHANGED <<bridge.promise, outcome>>
    <2>1. Served(bridge.promise, run')
      BY <1>1, <1>6 DEF Served
    <2> QED BY <1>1, <1>3, <1>6, <2>1, QuietInv
  <1>7. CASE m.type = "connect"
    <2>1. bound' = TRUE /\ toPage' = SetToSeq(Resume) /\ UNCHANGED run
      BY <1>3, <1>7
    <2>2. Resume \subseteq Told(run)
      BY ReplayTold DEF Resume
    <2>3. SetToSeq(Resume) \in Seq(Resume) /\ Seq(Resume) \subseteq Seq(Told(run))
      BY <2>2, OneEach, FiniteMessages, FS_Subset, SeqMonotonic DEF Told
    <2> QED BY <1>5, <2>1, <2>3
  <1>8. CASE m.type = "disconnect"
    BY <1>1, <1>3, <1>5, <1>8
  <1>9. CASE m.type = "request" /\ Exists(m.req)
    <2>1. Post(Replay(m.req)) /\ UNCHANGED <<run, bound>> /\ m.req \in Reqs
      BY <1>3, <1>4, <1>9
    <2>2. toPage' \in Seq(Told(run))
      BY <1>1, <2>1, ReplayTold, PostTold
    <2> QED BY <1>1, <1>5, <2>1, <2>2
  <1>10. CASE m.type = "request" /\ ~Exists(m.req)
    <2>1. run' = [run EXCEPT ![m.req].status = "created"] /\ UNCHANGED <<bound, toPage>>
          /\ m.req \in Reqs /\ bridge.promise[m.req] # "none"
      BY <1>3, <1>4, <1>10
    <2>2. /\ run' \in [Reqs -> Run] /\ run'[m.req].dispatched = run[m.req].dispatched
          /\ \A r \in Reqs : run'[r].end = run[r].end /\ (r # m.req => run'[r] = run[r])
      BY <1>1, <2>1 DEF Run
    <2> QED BY <1>1, <1>6, <2>1, <2>2 DEF Served
  <1>11. CASE m.type = "cancel"
    <2>1. CASE Open(m.req)
      <3>1. EndRun(m.req, "error") /\ UNCHANGED <<bridge, bound, drops>> /\ m.req \in Reqs
        BY <1>3, <1>4, <1>11, <2>1
      <3> QED BY <1>3, <2>1, <3>1, EndRunInv
    <2>2. CASE ~Open(m.req)
      BY <1>1, <1>3, <1>5, <1>11, <2>2
    <2> QED BY <2>1, <2>2
  <1>12. CASE m.type = "ack"
    <2>1. run' = [run EXCEPT ![m.req].dispatched = TRUE] /\ UNCHANGED <<bound, toPage>>
          /\ m.req \in Reqs /\ Over(bridge.promise, m.req)
      BY <1>3, <1>4, <1>12
    <2>2. /\ run' \in [Reqs -> Run]
          /\ \A r \in Reqs : run'[r].end = run[r].end /\ (r # m.req => run'[r] = run[r])
      BY <1>1, <2>1 DEF Run
    <2>3. bridge.promise[m.req] # "none"
      BY <2>1 DEF Over
    <2> QED BY <1>6, <2>1, <2>2, <2>3
  <1> QED BY <1>3, <1>7, <1>8, <1>9, <1>10, <1>11, <1>12

LEMMA FinishInv ==
  ASSUME BridgeInv, NEW r \in Reqs, NEW end \in {"ok", "error"}, Finish(r, end)
  PROVE  BridgeInv' /\ I!Next
  BY EndRunInv DEF Finish, BridgeInv

-------------------------------------------------------------------------------
(* The theorems *)

LEMMA BridgeInit == Init => BridgeInv /\ I!Init
  <1> SUFFICES ASSUME Init PROVE BridgeInv /\ I!Init
    OBVIOUS
  <1>1. bridge \in Bridge
    <2>1. 0 \in 0..MaxReconnect
      BY BridgeAssumption
    <2> QED BY <2>1 DEF Init, Bridge, Promises
  <1>2. BridgeOK(bridge) /\ Carried(bridge, bridge.outbox)
    BY <1>1 DEF Init, BridgeOK, Carried
  <1>3. toWorker \in Seq(Earned(bridge.promise)) /\ toPage \in Seq(Told(run))
    <2>1. [type |-> "connect"] \in Earned(bridge.promise)
      BY DEF Earned, Up
    <2>2. \A S : <<>> \in Seq(S) /\ \A x \in S : <<x>> \in Seq(S)
      OBVIOUS
    <2> QED BY <2>1, <2>2 DEF Init
  <1>4. run \in [Reqs -> Run] /\ Served(bridge.promise, run) /\ bound \in BOOLEAN
        /\ drops \in 0..MaxDrops
    <2>1. NoRun \in Run /\ NoRun.status = "none" /\ NoRun.end = "none" /\ ~NoRun.dispatched
      BY DEF NoRun, Run
    <2>2. drops \in 0..MaxDrops
      BY BridgeAssumption DEF Init
    <2>3. run = [r \in Reqs |-> NoRun] /\ bound \in BOOLEAN
      BY DEF Init
    <2>4. \A r \in Reqs : run[r] = NoRun
      BY <2>3
    <2>5. Served(bridge.promise, run)
      BY <2>1, <2>4, Zenon DEF Served
    <2> QED BY <2>1, <2>2, <2>3, <2>5
  <1>5. I!Init
    BY DEF Init, I!Init, outcome, NoRun
  <1> QED BY <1>2, <1>3, <1>4, <1>5 DEF BridgeInv

LEMMA BridgeStep ==
  BridgeInv /\ [Next]_vars => BridgeInv' /\ [I!Next]_<<bridge.promise, outcome>>
  <1> SUFFICES ASSUME BridgeInv, [Next]_vars
               PROVE  BridgeInv' /\ (I!Next \/ UNCHANGED <<bridge.promise, outcome>>)
    OBVIOUS
  <1>1. CASE UNCHANGED vars
    BY <1>1 DEF vars, BridgeInv, outcome
  <1>2. CASE Next
    BY <1>2, InvokeInv, PageInv, StopInv, ReceiveInv, PortLostInv, WorkerReceiveInv, AcceptInv,
       FinishInv DEF Next
  <1> QED BY <1>1, <1>2

\* What the bridge and the coordinator hold stays well formed, and nothing that
\* is posted twice, replayed or late brings it out of shape.
THEOREM BridgeTypes == Spec => []TypeOK
  <1>1. BridgeInv => TypeOK
    <2> SUFFICES ASSUME BridgeInv PROVE TypeOK
      OBVIOUS
    <2>1. Seq(Earned(bridge.promise)) \subseteq Seq(Up) /\ Seq(Told(run)) \subseteq Seq(Down)
      BY SeqMonotonic DEF Earned, Told
    <2> QED BY <2>1 DEF BridgeInv, BridgeOK, TypeOK
  <1> QED BY <1>1, BridgeInit, BridgeStep, PTL DEF Spec

\* A cancellation is on its way to its run until that has ended, whatever
\* happens to the ports (cancelRequest, handlePortMessage, connectPort).
THEOREM CancelKept == Spec => []CancelNotLost
  <1>1. BridgeInv => CancelNotLost
    BY DEF BridgeInv, Carried, CancelNotLost
  <1> QED BY <1>1, BridgeInit, BridgeStep, PTL DEF Spec

\* The coordinator forgets no outcome that its caller has not been told
\* (handlePortMessage acknowledges and settles in one step).
THEOREM AnsweredFirst == Spec => []ForgottenIsAnswered
  <1>1. BridgeInv => ForgottenIsAnswered
    BY DEF BridgeInv, Served, Over, ForgottenIsAnswered
  <1> QED BY <1>1, BridgeInit, BridgeStep, PTL DEF Spec

\* The bridge is an Invocation: each call is answered once, with the outcome of
\* its own run or with a failure of the page, over every loss and replay.
THEOREM BridgeInvocation == Spec => ImplementsInvocation
  BY BridgeInit, BridgeStep, PTL DEF Spec, ImplementsInvocation, I!Spec

===============================================================================
