------------------------- MODULE AmbientCaptureProofs -------------------------
(* Theorems about AmbientCapture, for every number of starts, observations and
   failures. *)
EXTENDS AmbientCapture, FiniteSetTheorems, SequenceTheorems, TLAPS

-------------------------------------------------------------------------------
(* The inductive invariant, by owner *)

Stages == {"none", "decision", "denied", "projection", "spool", "enqueued", "started",
           "stopped", "failed"}
Layer == [start : Starts, event : Nat, number : Nat, from : Nat]

Types ==
  /\ starts \in [Starts -> [at : Stages, number : Nat]]
  /\ active \in 0 .. MaxStarts /\ attached \in SUBSET Starts /\ ready \in SUBSET Starts
  /\ last \in [Starts -> Nat] /\ counter \in Nat
  /\ spooled \in Seq(Layer)
  /\ job \in [at : {"idle", "number", "spool", "more"}, start : 0 .. MaxStarts,
              event : Nat, number : Nat]
  /\ rejected \in BOOLEAN /\ queue \in SUBSET Starts

\* A start is ready when its first layer is spooled, and active after its decision.
StartsOK ==
  /\ active # 0 => active \in attached
  /\ \A s \in Starts :
       /\ s \in ready => starts[s].at = "started"
       /\ s = active => starts[s].at \notin {"none", "decision", "denied"}
       /\ last[s] = 0 \/ starts[s].at \in {"enqueued", "started", "failed"}

\* A pending observation was counted, and is neither discarded nor behind the flush.
ObservationsOK ==
  /\ pending \in [Starts -> [Events -> {"none", "open", "done"}]]
  /\ count \in [Starts -> 0 .. MaxEvents]
  /\ next \in [Starts -> Nat] /\ skipped \in [Starts -> SUBSET Nat]
  /\ \A s \in Starts :
       /\ next[s] \in 1 .. count[s] + 1 /\ skipped[s] \subseteq 1 .. count[s]
       /\ \A e \in Events :
            pending[s][e] # "none" => next[s] <= e /\ e <= count[s] /\ e \notin skipped[s]

\* The flush that runs works for a ready start, on its next observation.
JobOK ==
  /\ job.at # "idle" => job.start \in ready /\ ~rejected
  /\ job.at = "idle" => job = NoJob
  /\ job.at \in {"number", "spool"} =>
       /\ job.event = next[job.start] /\ job.event <= count[job.start]
       /\ pending[job.start][job.event] = "none"
  /\ rejected => queue = {}

\* Layer i is the last that start s has spooled.
LastOf(s, i) ==
  /\ i \in 1 .. Len(spooled) /\ spooled[i].start = s
  /\ \A j \in 1 .. Len(spooled) : spooled[j].start = s => j <= i

\* A start that has spooled layers knows the number of the last, until a
\* failure keeps it from spooling more, and waits for a later observation.
LastOK ==
  \A s \in Starts :
    IF starts[s].at \in {"enqueued", "started"}
    THEN \E i \in 1 .. Len(spooled) :
           /\ LastOf(s, i) /\ spooled[i].event < next[s]
           /\ rejected \/ spooled[i].number = last[s]
    ELSE \A i \in 1 .. Len(spooled) : spooled[i].start # s

\* What the active start has drawn is newer than all that is spooled.
Above(n) == \A i \in 1 .. Len(spooled) : spooled[i].number < n
NumbersOK ==
  /\ Above(counter + 1)
  /\ \A s \in Starts : s = active /\ starts[s].at = "spool" =>
       Above(starts[s].number) /\ starts[s].number <= counter
  /\ job.at = "spool" /\ job.start = active => Above(job.number) /\ job.number <= counter

CaptureInv ==
  /\ Types /\ StartsOK /\ ObservationsOK /\ JobOK /\ LastOK /\ NumbersOK
  /\ CausalOrder /\ NumbersIncrease

-------------------------------------------------------------------------------
(* The next observation to append *)

LEMMA Least ==
  ASSUME NEW T \in SUBSET Nat, T # {}
  PROVE  \E x \in T : \A y \in T : x <= y
  <1>1. PICK x \in T : \A y \in T : ~ (<<y, x>> \in OpToRel(<, Nat))
    BY NatLessThanWellFounded, WFMin
  <1>2. \A y \in T : ~ (y < x)
    BY <1>1 DEF OpToRel
  <1> QED BY <1>2

LEMMA FirstKeptOK ==
  ASSUME ObservationsOK, NEW s \in Starts
  PROVE  /\ FirstKept(s) \in next[s] .. count[s] + 1 /\ FirstKept(s) \notin skipped[s]
         /\ \A d \in next[s] .. FirstKept(s) - 1 : d \in skipped[s]
  <1> DEFINE n == next[s]
             T == {e \in n .. MaxEvents + 1 : e \notin skipped[s]}
             Kept(e) == e \notin skipped[s] /\ \A d \in n .. e - 1 : d \in skipped[s]
  <1>1. /\ n \in Nat /\ count[s] \in Nat /\ count[s] <= MaxEvents /\ MaxEvents \in Nat
        /\ n <= count[s] + 1 /\ count[s] + 1 \notin skipped[s] /\ skipped[s] \subseteq Nat
    BY CaptureAssumption DEF ObservationsOK
  <1> HIDE DEF n
  <1>2. T \in SUBSET Nat /\ count[s] + 1 \in T
    BY <1>1
  <1>3. PICK x \in T : \A y \in T : x <= y
    <2> HIDE DEF T
    <2> QED BY <1>2, Least
  <1>4. x \in n .. MaxEvents + 1 /\ Kept(x)
    <2>1. ASSUME NEW d \in n .. x - 1
          PROVE  d \in skipped[s]
      <3>1. d \in n .. MaxEvents + 1 /\ d < x
        BY <1>1, <1>2
      <3> QED BY <1>1, <1>2, <1>3, <3>1
    <2> QED BY <2>1
  <1>5. FirstKept(s) = CHOOSE e \in n .. MaxEvents + 1 : Kept(e)
    BY DEF FirstKept, n
  <1> DEFINE k == FirstKept(s)
  <1>6. k \in n .. MaxEvents + 1 /\ Kept(k)
    <2> HIDE DEF Kept, k, T
    <2> QED BY <1>4, <1>5 DEF k
  <1>7. k <= count[s] + 1
    <2> SUFFICES ASSUME k > count[s] + 1 PROVE FALSE
      BY <1>1, <1>6
    <2>1. count[s] + 1 \in n .. k - 1
      BY <1>1, <1>6
    <2> QED BY <1>1, <1>6, <2>1
  <1> QED BY <1>1, <1>6, <1>7 DEF n

-------------------------------------------------------------------------------
(* A layer is spooled *)

LEMMA Longer ==
  ASSUME Types, NEW l \in Layer, spooled' = Append(spooled, l)
  PROVE  /\ spooled' \in Seq(Layer) /\ Len(spooled') = Len(spooled) + 1
         /\ spooled'[Len(spooled) + 1] = l /\ Len(spooled) \in Nat
         /\ \A i \in 1 .. Len(spooled) : spooled'[i] = spooled[i]
  BY DEF Types

\* What start s appends follows its last layer, or is its first.
Follows(s, l) ==
  \/ /\ \A i \in 1 .. Len(spooled) : spooled[i].start # s
     /\ l.event = 0 /\ l.from = 0
  \/ \E i \in 1 .. Len(spooled) :
       LastOf(s, i) /\ spooled[i].event < l.event /\ spooled[i].number = l.from

LEMMA SpoolOrder ==
  ASSUME Types, CausalOrder, NumbersIncrease, NEW s \in Starts, NEW l \in Layer, l.start = s,
         Follows(s, l), Above(l.number), spooled' = Append(spooled, l)
  PROVE  CausalOrder' /\ NumbersIncrease'
  <1> DEFINE n == Len(spooled)
             Q == spooled'
  <1>1. /\ n \in Nat /\ Len(Q) = n + 1 /\ Q[n + 1] = l
        /\ \A i \in 1 .. n : Q[i] = spooled[i]
    BY Longer
  <1> HIDE DEF Q, n
  <1>2. \A i \in 1 .. n : \A j \in 1 .. i - 1 : j \in 1 .. n
    BY <1>1
  <1>3. ASSUME NEW i \in 1 .. n
        PROVE  LET earlier == {j \in 1 .. i - 1 : Q[j].start = Q[i].start} IN
               \/ earlier = {} /\ Q[i].event = 0 /\ Q[i].from = 0
               \/ \E j \in earlier :
                    /\ \A k \in earlier : k <= j
                    /\ Q[i].event > Q[j].event /\ Q[i].from = Q[j].number
    <2> DEFINE before == {j \in 1 .. i - 1 : spooled[j].start = spooled[i].start}
               earlier == {j \in 1 .. i - 1 : Q[j].start = Q[i].start}
    <2>1. before = earlier /\ \A j \in before : Q[j] = spooled[j]
      BY <1>1, <1>2
    <2>2. \/ before = {} /\ spooled[i].event = 0 /\ spooled[i].from = 0
          \/ \E j \in before :
               /\ \A k \in before : k <= j
               /\ spooled[i].event > spooled[j].event /\ spooled[i].from = spooled[j].number
      BY DEF CausalOrder, n
    <2> HIDE DEF before, earlier
    <2>3. Q[i] = spooled[i]
      BY <1>1
    <2> QED BY <2>1, <2>2, <2>3 DEF earlier
  <1>4. LET earlier == {j \in 1 .. n : Q[j].start = l.start} IN
        \/ earlier = {} /\ l.event = 0 /\ l.from = 0
        \/ \E j \in earlier :
             /\ \A k \in earlier : k <= j
             /\ l.event > Q[j].event /\ l.from = Q[j].number
    <2>1. CASE /\ \A i \in 1 .. n : spooled[i].start # s
               /\ l.event = 0 /\ l.from = 0
      BY <1>1, <2>1
    <2>2. ASSUME NEW i \in 1 .. n, LastOf(s, i), spooled[i].event < l.event,
                 spooled[i].number = l.from
          PROVE  \E j \in {j \in 1 .. n : Q[j].start = l.start} :
                   /\ \A k \in {k \in 1 .. n : Q[k].start = l.start} : k <= j
                   /\ l.event > Q[j].event /\ l.from = Q[j].number
      <3>1. i \in {j \in 1 .. n : Q[j].start = l.start}
        BY <1>1, <2>2 DEF LastOf
      <3>2. \A k \in {k \in 1 .. n : Q[k].start = l.start} : k <= i
        BY <1>1, <2>2 DEF LastOf, n
      <3>3. l.event > Q[i].event /\ l.from = Q[i].number
        <4>1. spooled[i] \in Layer
          BY DEF Types, n
        <4> QED BY <1>1, <2>2, <4>1 DEF Layer
      <3> QED BY <3>1, <3>2, <3>3
    <2> QED BY <2>1, <2>2 DEF Follows, n
  <1>5. CausalOrder'
    <2>1. \A i \in 1 .. n + 1 : i \in 1 .. n \/ (i = n + 1 /\ Q[i] = l /\ i - 1 = n)
      BY <1>1
    <2> SUFFICES ASSUME NEW i \in 1 .. Len(Q)
                 PROVE  LET earlier == {j \in 1 .. i - 1 : Q[j].start = Q[i].start} IN
                        \/ earlier = {} /\ Q[i].event = 0 /\ Q[i].from = 0
                        \/ \E j \in earlier :
                             /\ \A k \in earlier : k <= j
                             /\ Q[i].event > Q[j].event /\ Q[i].from = Q[j].number
      BY Zenon DEF CausalOrder, Q
    <2>2. CASE i \in 1 .. n
      BY <1>3, <2>2
    <2>3. CASE i = n + 1 /\ Q[i] = l /\ i - 1 = n
      BY <1>4, <2>3
    <2> QED BY <1>1, <2>1, <2>2, <2>3
  <1>6. NumbersIncrease'
    <2> SUFFICES ASSUME NEW i \in 1 .. Len(Q) - 1
                 PROVE  Q[i].number < Q[i + 1].number
      BY DEF NumbersIncrease, Q
    <2>1. CASE i + 1 \in 1 .. n
      BY <1>1, <2>1 DEF NumbersIncrease, n
    <2>2. CASE i = n
      BY <1>1, <2>2 DEF Above, n
    <2> QED BY <1>1, <2>1, <2>2
  <1> QED BY <1>5, <1>6

LEMMA SpoolLast ==
  ASSUME Types, NEW l \in Layer, spooled' = Append(spooled, l)
  PROVE  /\ \A i : i = Len(spooled) + 1 => LastOf(l.start, i)'
         /\ \A t, i : t # l.start /\ LastOf(t, i) => LastOf(t, i)'
         /\ \A t : t # l.start /\ (\A i \in 1 .. Len(spooled) : spooled[i].start # t)
                    => \A i \in 1 .. Len(spooled') : spooled'[i].start # t
         /\ \A n \in Nat : Above(n) /\ l.number < n => Above(n)'
  <1> DEFINE n == Len(spooled)
             Q == spooled'
  <1>1. /\ n \in Nat /\ Len(Q) = n + 1 /\ Q[n + 1] = l
        /\ \A i \in 1 .. n : Q[i] = spooled[i]
        /\ \A i \in 1 .. n + 1 : i \in 1 .. n \/ i = n + 1
    BY Longer
  <1>2. \A t, i : LastOf(t, i)' <=> /\ i \in 1 .. Len(Q) /\ Q[i].start = t
                                    /\ \A j \in 1 .. Len(Q) : Q[j].start = t => j <= i
    BY DEF LastOf
  <1>3. \A t, i : LastOf(t, i) <=> /\ i \in 1 .. n /\ spooled[i].start = t
                                   /\ \A j \in 1 .. n : spooled[j].start = t => j <= i
    BY DEF LastOf
  <1>4. \A m : Above(m)' <=> \A i \in 1 .. Len(Q) : Q[i].number < m
    BY DEF Above
  <1>5. \A m : Above(m) <=> \A i \in 1 .. n : spooled[i].number < m
    BY DEF Above
  <1> HIDE DEF Q, n
  <1>6. ASSUME NEW i, i = n + 1
        PROVE  LastOf(l.start, i)'
    <2>1. i \in 1 .. Len(Q) /\ Q[i].start = l.start /\ \A j \in 1 .. Len(Q) : j <= i
      BY <1>1, <1>6
    <2> QED BY <1>2, <2>1
  <1>7. ASSUME NEW t, NEW i, t # l.start, LastOf(t, i)
        PROVE  LastOf(t, i)'
    BY <1>1, <1>2, <1>3, <1>7
  <1>8. ASSUME NEW t, t # l.start, \A i \in 1 .. n : spooled[i].start # t
        PROVE  \A i \in 1 .. Len(Q) : Q[i].start # t
    BY <1>1, <1>8
  <1>9. ASSUME NEW m \in Nat, Above(m), l.number < m
        PROVE  Above(m)'
    BY <1>1, <1>4, <1>5, <1>9
  <1> QED BY <1>6, <1>7, <1>8, <1>9 DEF Q, n

-------------------------------------------------------------------------------
(* Each step *)

LEMMA StartIds == 0 \notin Starts /\ Starts \subseteq 0 .. MaxStarts /\ 0 \in 0 .. MaxStarts
  BY CaptureAssumption DEF Starts

LEMMA AboveGrows ==
  ASSUME Types, NEW m \in Nat, NEW n \in Nat, m <= n, Above(m)
  PROVE  Above(n)
  <1>1. \A i \in 1 .. Len(spooled) : spooled[i].number \in Nat
    <2>1. \A i \in 1 .. Len(spooled) : spooled[i] \in Layer
      BY ElementOfSeq DEF Types
    <2> QED BY <2>1 DEF Layer
  <1> QED BY <1>1 DEF Above

Order == CausalOrder /\ NumbersIncrease

LEMMA Frames ==
  /\ ObservationsOK /\ UNCHANGED <<pending, count, next, skipped>> => ObservationsOK'
  /\ Order /\ UNCHANGED spooled => Order'
  /\ LastOK /\ UNCHANGED <<starts, spooled, next, rejected, last>> => LastOK'
  /\ JobOK /\ UNCHANGED <<job, ready, rejected, next, count, pending, queue>> => JobOK'
  /\ NumbersOK /\ UNCHANGED <<counter, starts, active, spooled, job>> => NumbersOK'
  <1>1. ObservationsOK /\ UNCHANGED <<pending, count, next, skipped>> => ObservationsOK'
    BY DEF ObservationsOK
  <1>2. Order /\ UNCHANGED spooled => Order'
    BY DEF Order, CausalOrder, NumbersIncrease
  <1>3. LastOK /\ UNCHANGED <<starts, spooled, next, rejected, last>> => LastOK'
    BY DEF LastOK, LastOf
  <1>4. JobOK /\ UNCHANGED <<job, ready, rejected, next, count, pending, queue>> => JobOK'
    BY DEF JobOK
  <1>5. NumbersOK /\ UNCHANGED <<counter, starts, active, spooled, job>> => NumbersOK'
    BY DEF NumbersOK, Above
  <1> QED BY <1>1, <1>2, <1>3, <1>4, <1>5

\* The observations of a start are cleared with their timers.
LEMMA ClearedOK ==
  ASSUME Types, ObservationsOK, JobOK, NEW s \in Starts, pending' = Cleared(s),
         UNCHANGED <<count, next, skipped, job, ready, rejected, queue>>
  PROVE  ObservationsOK' /\ JobOK'
  <1>1. /\ pending' \in [Starts -> [Events -> {"none", "open", "done"}]]
        /\ \A t \in Starts, e \in Events :
             pending'[t][e] = IF t = s THEN "none" ELSE pending[t][e]
    BY DEF Cleared, ObservationsOK
  <1>2. ObservationsOK'
    BY <1>1 DEF ObservationsOK
  <1>3. JobOK'
    BY <1>1, CaptureAssumption DEF Events, JobOK, ObservationsOK, Types
  <1> QED BY <1>2, <1>3

\* Start s goes to another await and spools nothing.
LEMMA GoesOK ==
  ASSUME Types, LastOK, NEW s \in Starts, NEW x \in [at : Stages, number : Nat],
         starts' = [starts EXCEPT ![s] = x], UNCHANGED <<spooled, next, rejected>>,
         \/ x.at \in {"enqueued", "started"} /\ starts[s].at \in {"enqueued", "started"}
            /\ UNCHANGED last
         \/ /\ x.at \notin {"enqueued", "started"}
            /\ starts[s].at \notin {"enqueued", "started"}
            /\ \A t \in Starts : t # s => last'[t] = last[t]
  PROVE  /\ starts' \in [Starts -> [at : Stages, number : Nat]] /\ starts'[s] = x
         /\ \A t \in Starts : t # s => starts'[t] = starts[t]
         /\ LastOK'
  <1>1. /\ starts' \in [Starts -> [at : Stages, number : Nat]] /\ starts'[s] = x
        /\ \A t \in Starts : t # s => starts'[t] = starts[t]
    BY DEF Types
  <1>2. ASSUME NEW t \in Starts
        PROVE  IF starts'[t].at \in {"enqueued", "started"}
               THEN \E i \in 1 .. Len(spooled') :
                      /\ LastOf(t, i)' /\ spooled'[i].event < next'[t]
                      /\ rejected' \/ spooled'[i].number = last'[t]
               ELSE \A i \in 1 .. Len(spooled') : spooled'[i].start # t
    BY <1>1 DEF LastOK, LastOf
  <1> QED BY <1>1, <1>2 DEF LastOK

LEMMA StopOK ==
  ASSUME CaptureInv, Stop
  PROVE  CaptureInv'
  <1> USE DEF CaptureInv
  <1>0. active \in Starts /\ active # 0
    BY CaptureAssumption DEF Stop, Types, Starts
  <1>1. ObservationsOK' /\ JobOK'
    BY <1>0, ClearedOK DEF Stop, work
  <1>2. Order' /\ LastOK'
    BY Frames DEF Stop, work, layers, Order
  <1>3. Types'
    BY StartIds DEF Stop, work, layers, Types
  <1>4. StartsOK'
    BY StartIds DEF Stop, work, layers, StartsOK
  <1>5. NumbersOK'
    BY StartIds DEF Stop, work, layers, NumbersOK, JobOK, Types, Above
  <1> QED BY <1>1, <1>2, <1>3, <1>4, <1>5 DEF Order

LEMMA StartOK ==
  ASSUME CaptureInv, NEW s \in Starts, Start(s)
  PROVE  CaptureInv'
  <1> USE DEF CaptureInv
  <1> DEFINE x == [starts[s] EXCEPT !.at = "decision"]
  <1>0. /\ x \in [at : Stages, number : Nat] /\ starts' = [starts EXCEPT ![s] = x]
        /\ x.at = "decision" /\ starts[s].at = "none" /\ s \notin ready /\ last[s] = 0
        /\ active \in Starts \/ active = 0
    BY CaptureAssumption DEF Starts, Start, Goto, Types, Stages, StartsOK
  <1>a. UNCHANGED <<ready, count, skipped, work, layers>>
    BY DEF Start
  <1> HIDE DEF x
  <1>1. /\ starts' \in [Starts -> [at : Stages, number : Nat]] /\ starts'[s] = x
        /\ \A t \in Starts : t # s => starts'[t] = starts[t]
        /\ LastOK'
    BY <1>0, <1>a, GoesOK DEF work, layers
  <1>2. ObservationsOK' /\ JobOK'
    <2>1. CASE active = 0
      BY <2>1, <1>a, Frames DEF Start, work
    <2>2. CASE active # 0
      BY <2>2, <1>0, <1>a, ClearedOK DEF Start, work
    <2> QED BY <2>1, <2>2
  <1>3. Order'
    BY <1>a, Frames DEF layers, Order
  <1>4. active' = 0 /\ attached' \in SUBSET Starts
    BY DEF Start, Types
  <1>5. Types'
    BY <1>1, <1>4, <1>a, StartIds DEF work, layers, Types
  <1>6. StartsOK'
    BY <1>0, <1>1, <1>4, <1>a, StartIds DEF work, layers, StartsOK
  <1>7. NumbersOK'
    BY <1>4, <1>a, StartIds DEF work, layers, NumbersOK, JobOK, Types, Above
  <1> QED BY <1>1, <1>2, <1>3, <1>5, <1>6, <1>7 DEF Order

LEMMA DecideOK ==
  ASSUME CaptureInv, NEW s \in Starts, Decide(s)
  PROVE  CaptureInv'
  <1> USE DEF CaptureInv
  <1>a. UNCHANGED <<ready, observed, work, layers>> /\ starts[s].at = "decision"
    BY DEF Decide
  <1>b. s \notin ready /\ last[s] = 0 /\ s \in 0 .. MaxStarts /\ s # 0 /\ s # active
    BY <1>a, StartIds DEF StartsOK, Types
  <1>c. PICK at \in {"denied", "projection"} :
          /\ starts' = [starts EXCEPT ![s].at = at]
          /\ \/ at = "denied" /\ UNCHANGED <<active, attached>>
             \/ at = "projection" /\ active' = s /\ attached' = attached \cup {s}
    BY DEF Decide, Goto
  <1> DEFINE x == [starts[s] EXCEPT !.at = at]
  <1>0. /\ x \in [at : Stages, number : Nat] /\ starts' = [starts EXCEPT ![s] = x] /\ x.at = at
    BY <1>c DEF Types, Stages
  <1> HIDE DEF x
  <1>1. /\ starts' \in [Starts -> [at : Stages, number : Nat]] /\ starts'[s] = x
        /\ \A t \in Starts : t # s => starts'[t] = starts[t]
        /\ LastOK'
    BY <1>0, <1>a, GoesOK DEF work, layers
  <1>2. ObservationsOK' /\ JobOK' /\ Order'
    BY <1>a, Frames DEF observed, work, layers, Order
  <1>3. Types'
    BY <1>1, <1>a, <1>b, <1>c DEF work, layers, Types
  <1>4. StartsOK'
    BY <1>0, <1>1, <1>a, <1>b, <1>c DEF work, layers, StartsOK
  <1>5. NumbersOK'
    BY <1>0, <1>1, <1>a, <1>b, <1>c DEF work, layers, NumbersOK, JobOK, Above
  <1> QED BY <1>1, <1>2, <1>3, <1>4, <1>5 DEF Order

LEMMA ProjectOK ==
  ASSUME CaptureInv, NEW s \in Starts, Project(s)
  PROVE  CaptureInv'
  <1> USE DEF CaptureInv
  <1>a. /\ UNCHANGED <<active, attached, ready, observed, work, last, spooled, failures>>
        /\ starts[s].at = "projection"
    BY DEF Project
  <1>b. s \notin ready /\ last[s] = 0
    BY <1>a DEF StartsOK
  <1>c. PICK x \in [at : Stages, number : Nat] :
          /\ starts' = [starts EXCEPT ![s] = x]
          /\ \/ /\ active = s /\ x.at = "spool" /\ x.number = counter + 1
                /\ counter' = counter + 1
             \/ active # s /\ x.at = "stopped" /\ UNCHANGED counter
    <2>1. CASE active = s
      <3> DEFINE x == [at |-> "spool", number |-> counter + 1]
      <3>1. x \in [at : Stages, number : Nat] /\ starts' = [starts EXCEPT ![s] = x]
        BY <2>1 DEF Project, Types, Stages
      <3> QED BY <2>1, <3>1 DEF Project, Drawn
    <2>2. CASE active # s
      <3> DEFINE x == [starts[s] EXCEPT !.at = "stopped"]
      <3>1. x \in [at : Stages, number : Nat] /\ starts' = [starts EXCEPT ![s] = x]
            /\ x.at = "stopped"
        BY <2>2 DEF Project, Goto, Types, Stages
      <3> QED BY <2>2, <3>1 DEF Project
    <2> QED BY <2>1, <2>2
  <1>1. /\ starts' \in [Starts -> [at : Stages, number : Nat]] /\ starts'[s] = x
        /\ \A t \in Starts : t # s => starts'[t] = starts[t]
        /\ LastOK'
    BY <1>a, <1>c, GoesOK DEF work, observed
  <1>2. ObservationsOK' /\ JobOK' /\ Order'
    BY <1>a, Frames DEF observed, work, Order
  <1>3. Types'
    BY <1>1, <1>a, <1>b, <1>c DEF work, Types
  <1>4. StartsOK'
    BY <1>1, <1>a, <1>b, <1>c DEF work, StartsOK
  <1>5. NumbersOK'
    <2>1. Above(counter + 1) /\ counter \in Nat
      BY DEF NumbersOK, Types
    <2>2. \A n : Above(n)' <=> Above(n)
      BY <1>a DEF Above
    <2>3. Above(counter' + 1) /\ counter' \in Nat
      <3>1. counter' \in {counter, counter + 1}
        BY <1>c
      <3>2. \A n \in {counter + 1, counter + 2} : Above(n)
        BY <2>1, AboveGrows
      <3> QED BY <2>1, <3>1, <3>2
    <2>4. job' = job /\ active' = active
      BY <1>a DEF work
    <2>5. ASSUME NEW t \in Starts, t = active', starts'[t].at = "spool"
          PROVE  Above(starts'[t].number) /\ starts'[t].number <= counter'
      BY <1>1, <1>a, <1>c, <2>1, <2>5 DEF NumbersOK, Types
    <2>6. job.at = "spool" /\ job.start = active => Above(job.number) /\ job.number <= counter'
      BY <1>a, <1>b, <1>c, <2>1 DEF NumbersOK, JobOK, Types
    <2> QED BY <2>2, <2>3, <2>4, <2>5, <2>6 DEF NumbersOK
  <1> QED BY <1>1, <1>2, <1>3, <1>4, <1>5 DEF Order

\* A layer is spooled for the active start, and its number becomes the last.
LEMMA SpooledOK ==
  ASSUME CaptureInv, NEW l \in Layer, l.start = active, Follows(l.start, l), Above(l.number),
         spooled' = Append(spooled, l), last' = [last EXCEPT ![l.start] = l.number],
         starts'[l.start].at \in {"enqueued", "started"}, l.event < next'[l.start],
         \A t \in Starts : t # l.start => starts'[t] = starts[t] /\ next'[t] = next[t],
         rejected' = rejected
  PROVE  /\ LastOK' /\ Order' /\ spooled' \in Seq(Layer) /\ last' \in [Starts -> Nat]
         /\ last'[l.start] = l.number /\ \A t \in Starts : t # l.start => last'[t] = last[t]
         /\ \A n : l.number <= counter /\ n = counter + 1 => Above(n)'
  <1> USE DEF CaptureInv
  <1>0. /\ l.start \in Starts /\ l.number \in Nat /\ counter \in Nat
        /\ Len(spooled') = Len(spooled) + 1 /\ Len(spooled) \in Nat
        /\ spooled'[Len(spooled) + 1] = l
        /\ \A i \in 1 .. Len(spooled) : spooled'[i] = spooled[i]
    BY Longer DEF Layer, Types
  <1>1. /\ spooled' \in Seq(Layer) /\ last' \in [Starts -> Nat] /\ last'[l.start] = l.number
        /\ \A t \in Starts : t # l.start => last'[t] = last[t]
    BY <1>0, Longer DEF Types
  <1>2. Order'
    BY <1>0, SpoolOrder DEF Order
  <1>3. ASSUME NEW t \in Starts
        PROVE  IF starts'[t].at \in {"enqueued", "started"}
               THEN \E i \in 1 .. Len(spooled') :
                      /\ LastOf(t, i)' /\ spooled'[i].event < next'[t]
                      /\ rejected' \/ spooled'[i].number = last'[t]
               ELSE \A i \in 1 .. Len(spooled') : spooled'[i].start # t
    <2>1. CASE t = l.start
      <3>1. PICK n \in 1 .. Len(spooled') : n = Len(spooled) + 1
        BY <1>0
      <3>2. LastOf(t, n)' /\ spooled'[n] = l
        BY <1>0, <2>1, <3>1, SpoolLast
      <3> QED BY <1>1, <2>1, <3>2
    <2>2. CASE t # l.start /\ starts[t].at \in {"enqueued", "started"}
      <3>1. PICK i \in 1 .. Len(spooled) :
              /\ LastOf(t, i) /\ spooled[i].event < next[t]
              /\ rejected \/ spooled[i].number = last[t]
        BY <2>2 DEF LastOK
      <3>2. LastOf(t, i)' /\ i \in 1 .. Len(spooled')
        BY <1>0, <2>2, <3>1, SpoolLast
      <3> QED BY <1>0, <1>1, <2>2, <3>1, <3>2
    <2>3. CASE t # l.start /\ starts[t].at \notin {"enqueued", "started"}
      <3>1. \A i \in 1 .. Len(spooled) : spooled[i].start # t
        BY <2>3 DEF LastOK
      <3>2. \A i \in 1 .. Len(spooled') : spooled'[i].start # t
        BY <2>3, <3>1, SpoolLast
      <3> QED BY <2>3, <3>2
    <2> QED BY <2>1, <2>2, <2>3
  <1>4. LastOK'
    BY <1>3 DEF LastOK
  <1>5. ASSUME l.number <= counter, NEW n, n = counter + 1
        PROVE  Above(n)'
    <2>1. Above(n) /\ n \in Nat /\ l.number < n
      BY <1>0, <1>5 DEF NumbersOK
    <2> QED BY <2>1, SpoolLast
  <1> QED BY <1>1, <1>2, <1>4, <1>5

LEMMA SpoolInitialOK ==
  ASSUME CaptureInv, NEW s \in Starts, SpoolInitial(s)
  PROVE  CaptureInv'
  <1> USE DEF CaptureInv
  <1>a. /\ UNCHANGED <<active, attached, ready, observed, work, counter, failures>>
        /\ starts[s].at = "spool"
    BY DEF SpoolInitial
  <1>b. s \notin ready /\ last[s] = 0 /\ \A i \in 1 .. Len(spooled) : spooled[i].start # s
    BY <1>a DEF StartsOK, LastOK
  <1>c. PICK at \in {"enqueued", "stopped"} :
          /\ starts' = [starts EXCEPT ![s].at = at]
          /\ \/ /\ at = "enqueued" /\ active = s
                /\ last' = [last EXCEPT ![s] = starts[s].number]
                /\ Appended(s, 0, starts[s].number)
             \/ at = "stopped" /\ active # s /\ UNCHANGED <<last, spooled>>
    BY DEF SpoolInitial, Goto
  <1> DEFINE x == [starts[s] EXCEPT !.at = at]
  <1>0. /\ x \in [at : Stages, number : Nat] /\ starts' = [starts EXCEPT ![s] = x] /\ x.at = at
        /\ starts' \in [Starts -> [at : Stages, number : Nat]] /\ starts'[s] = x
        /\ \A t \in Starts : t # s => starts'[t] = starts[t]
    BY <1>c DEF Types, Stages
  <1> HIDE DEF x
  <1>1. ObservationsOK' /\ JobOK'
    BY <1>a, Frames DEF observed, work
  <1>2. CASE at = "enqueued"
    <2> DEFINE l == [start |-> s, event |-> 0, number |-> starts[s].number, from |-> last[s]]
    <2>1. /\ l \in Layer /\ l.start = s /\ l.event = 0 /\ l.number = starts[s].number
          /\ l.from = 0 /\ active = s /\ spooled' = Append(spooled, l)
          /\ last' = [last EXCEPT ![s] = l.number]
      BY <1>b, <1>c, <1>2 DEF Appended, Layer, Types
    <2> HIDE DEF l
    <2>2. Follows(s, l)
      BY <1>b, <2>1 DEF Follows
    <2>3. Above(l.number) /\ l.number <= counter
      BY <1>a, <2>1 DEF NumbersOK
    <2>4. next' = next /\ rejected' = rejected /\ 0 < next[s]
      BY <1>a DEF work, ObservationsOK
    <2>5. starts'[s].at = "enqueued"
      BY <1>0, <1>2
    <2>6. /\ LastOK' /\ Order' /\ spooled' \in Seq(Layer) /\ last' \in [Starts -> Nat]
          /\ last'[s] = l.number /\ \A t \in Starts : t # s => last'[t] = last[t]
          /\ \A n : n = counter + 1 => Above(n)'
      BY <1>0, <2>1, <2>2, <2>3, <2>4, <2>5, SpooledOK
    <2>7. Types'
      BY <1>0, <1>a, <2>6 DEF work, Types
    <2>8. StartsOK'
      BY <1>0, <1>a, <1>b, <1>2, <2>6 DEF StartsOK
    <2>9. NumbersOK'
      <3>1. Above(counter + 1)'
        BY <1>a, <2>6
      <3> QED BY <1>0, <1>a, <1>b, <1>2, <2>1, <3>1 DEF work, NumbersOK, JobOK
    <2> QED BY <1>1, <2>6, <2>7, <2>8, <2>9 DEF Order
  <1>3. CASE at = "stopped"
    <2>1. UNCHANGED <<last, spooled, next, rejected>>
      BY <1>a, <1>c, <1>3 DEF work
    <2>2. LastOK'
      BY <1>0, <1>a, <1>3, <2>1, GoesOK
    <2>3. Order' /\ Types'
      BY <1>0, <1>a, <2>1, Frames DEF Order, work, Types
    <2>4. StartsOK'
      BY <1>0, <1>a, <1>b, <1>3, <2>1 DEF StartsOK
    <2>5. NumbersOK'
      BY <1>0, <1>a, <1>3, <2>1 DEF work, NumbersOK, JobOK, Above
    <2> QED BY <1>1, <2>2, <2>3, <2>4, <2>5 DEF Order
  <1> QED BY <1>2, <1>3

LEMMA StartedOK ==
  ASSUME CaptureInv, NEW s \in Starts, Started(s)
  PROVE  CaptureInv'
  <1> USE DEF CaptureInv
  <1>a. /\ UNCHANGED <<active, attached, observed, job, rejected, next, layers>>
        /\ starts[s].at = "enqueued" /\ ready' = ready \cup {s} /\ queue' = Flushed(s)
    BY DEF Started
  <1> DEFINE x == [starts[s] EXCEPT !.at = "started"]
  <1>0. /\ x \in [at : Stages, number : Nat] /\ starts' = [starts EXCEPT ![s] = x]
        /\ x.at = "started"
    BY DEF Started, Goto, Types, Stages
  <1> HIDE DEF x
  <1>1. /\ starts' \in [Starts -> [at : Stages, number : Nat]] /\ starts'[s] = x
        /\ \A t \in Starts : t # s => starts'[t] = starts[t]
        /\ LastOK'
    BY <1>0, <1>a, GoesOK DEF layers
  <1>2. ObservationsOK' /\ Order'
    BY <1>a, Frames DEF observed, layers, Order
  <1>3. queue' \in SUBSET Starts /\ (rejected => queue' = {})
    BY <1>a DEF Flushed, JobOK, Types
  <1>4. Types'
    BY <1>1, <1>3, <1>a DEF layers, Types
  <1>5. JobOK'
    BY <1>3, <1>a DEF JobOK, observed
  <1>6. StartsOK'
    BY <1>0, <1>1, <1>a DEF layers, StartsOK
  <1>7. NumbersOK'
    BY <1>0, <1>1, <1>a DEF layers, NumbersOK, Above
  <1> QED BY <1>1, <1>2, <1>4, <1>5, <1>6, <1>7 DEF Order

LEMMA StartFailsOK ==
  ASSUME CaptureInv, NEW s \in Starts, StartFails(s)
  PROVE  CaptureInv'
  <1> USE DEF CaptureInv
  <1>a. /\ UNCHANGED <<active, attached, ready, observed, work, counter, spooled>>
        /\ starts[s].at \in {"projection", "spool"}
        /\ last' \in [Starts -> Nat] /\ \A t \in Starts : t # s => last'[t] = last[t]
    BY DEF StartFails, Types
  <1>b. s \notin ready
    BY <1>a DEF StartsOK
  <1> DEFINE x == [starts[s] EXCEPT !.at = "failed"]
  <1>0. /\ x \in [at : Stages, number : Nat] /\ starts' = [starts EXCEPT ![s] = x]
        /\ x.at = "failed"
    BY DEF StartFails, Goto, Types, Stages
  <1> HIDE DEF x
  <1>1. /\ starts' \in [Starts -> [at : Stages, number : Nat]] /\ starts'[s] = x
        /\ \A t \in Starts : t # s => starts'[t] = starts[t]
        /\ LastOK'
    BY <1>0, <1>a, GoesOK DEF work
  <1>2. ObservationsOK' /\ JobOK' /\ Order'
    BY <1>a, Frames DEF observed, work, Order
  <1>3. Types'
    BY <1>1, <1>a DEF work, Types
  <1>4. StartsOK'
    BY <1>0, <1>1, <1>a, <1>b DEF StartsOK
  <1>5. NumbersOK'
    BY <1>0, <1>1, <1>a DEF work, NumbersOK, Above
  <1> QED BY <1>1, <1>2, <1>3, <1>4, <1>5 DEF Order

\* Only the observations of a start change, or what waits for the flush.
LEMMA ObservedOK ==
  ASSUME CaptureInv, UNCHANGED <<startVars, job, rejected, next, layers>>,
         ObservationsOK', JobOK', queue' \in SUBSET Starts
  PROVE  CaptureInv'
  <1> USE DEF CaptureInv
  <1>1. Order' /\ LastOK' /\ NumbersOK'
    BY Frames DEF startVars, layers, Order
  <1>2. Types'
    BY DEF startVars, layers, Types
  <1>3. StartsOK'
    BY DEF startVars, layers, StartsOK
  <1> QED BY <1>1, <1>2, <1>3 DEF Order

LEMMA FlushedOK ==
  ASSUME CaptureInv, NEW s \in Starts
  PROVE  Flushed(s) \in SUBSET Starts /\ (rejected => Flushed(s) = {})
  BY DEF Flushed, CaptureInv, JobOK, Types

LEMMA ActiveStart ==
  ASSUME CaptureInv, active # 0
  PROVE  active \in Starts
  BY CaptureAssumption DEF CaptureInv, Types, Starts

LEMMA ObserveOK ==
  ASSUME CaptureInv, Observe
  PROVE  CaptureInv'
  <1> USE DEF CaptureInv
  <1> DEFINE s == active
             n == Cardinality(attached)
             begun == count[s] + 1 .. count[s] + n
  <1>0. s \in Starts
    BY ActiveStart DEF Observe
  <1>1. n \in Nat
    <2>1. IsFiniteSet(Starts)
      <3>1. 1 \in Int /\ MaxStarts \in Int
        BY CaptureAssumption
      <3> QED BY <3>1, FS_Interval DEF Starts
    <2>2. IsFiniteSet(attached)
      BY <2>1, FS_Subset DEF Types
    <2> QED BY <2>2, FS_CardinalityType
  <1>2. /\ count[s] + n <= MaxEvents
        /\ count' = [count EXCEPT ![s] = @ + n]
        /\ pending' = [pending EXCEPT ![s] = [e \in Events |-> IF e \in begun THEN "open" ELSE @[e]]]
        /\ UNCHANGED <<startVars, skipped, work, layers>>
    BY DEF Observe
  <1> HIDE DEF n
  <1>3. /\ count' \in [Starts -> 0 .. MaxEvents] /\ count'[s] = count[s] + n
        /\ \A t \in Starts : t # s => count'[t] = count[t]
    BY <1>0, <1>1, <1>2, CaptureAssumption DEF ObservationsOK
  <1>4. /\ pending' \in [Starts -> [Events -> {"none", "open", "done"}]]
        /\ \A e \in Events : pending'[s][e] = IF e \in begun THEN "open" ELSE pending[s][e]
        /\ \A t \in Starts : t # s => pending'[t] = pending[t]
    BY <1>0, <1>2 DEF ObservationsOK
  <1>5. ASSUME NEW t \in Starts
        PROVE  /\ next[t] \in 1 .. count'[t] + 1 /\ skipped[t] \subseteq 1 .. count'[t]
               /\ \A e \in Events :
                    pending'[t][e] # "none" => next[t] <= e /\ e <= count'[t] /\ e \notin skipped[t]
    <2>0. /\ next[t] \in 1 .. count[t] + 1 /\ skipped[t] \subseteq 1 .. count[t]
          /\ count[t] \in Nat
          /\ \A e \in Events :
               pending[t][e] # "none" => next[t] <= e /\ e <= count[t] /\ e \notin skipped[t]
      BY CaptureAssumption DEF ObservationsOK
    <2>1. CASE t = s
      <3>1. /\ count'[s] = count[s] + n /\ n \in Nat /\ next[s] \in Nat /\ next[s] >= 1
            /\ next[s] <= count[s] + 1 /\ count[s] \in Nat /\ skipped[s] \subseteq 1 .. count[s]
        BY <2>0, <2>1, <1>1, <1>3
      <3>2. next[s] \in 1 .. count'[s] + 1 /\ skipped[s] \subseteq 1 .. count'[s]
        BY <3>1
      <3>3. ASSUME NEW e \in Events, pending'[s][e] # "none"
            PROVE  next[s] <= e /\ e <= count'[s] /\ e \notin skipped[s]
        <4>1. e \in Nat
          BY DEF Events
        <4>2. CASE e \in begun
          <5>1. count[s] + 1 <= e /\ e <= count'[s]
            BY <3>1, <4>2
          <5> QED BY <3>1, <4>1, <5>1
        <4>3. CASE e \notin begun
          <5>1. pending[s][e] # "none"
            BY <1>4, <3>3, <4>3
          <5> QED BY <2>0, <2>1, <3>1, <4>1, <5>1
        <4> QED BY <4>2, <4>3
      <3> QED BY <2>1, <3>2, <3>3
    <2>2. CASE t # s
      BY <2>0, <2>2, <1>3, <1>4
    <2> QED BY <2>1, <2>2
  <1>6. ObservationsOK'
    BY <1>2, <1>3, <1>4, <1>5 DEF ObservationsOK, work
  <1>7. JobOK'
    <2>1. ASSUME job.at \in {"number", "spool"}
          PROVE  job.event <= count'[job.start] /\ pending'[job.start][job.event] = "none"
      <3>1. job.start \in Starts /\ job.event \in Events /\ job.event <= count[job.start]
            /\ pending[job.start][job.event] = "none" /\ count[job.start] \in Nat
            /\ job.event \in Nat
        BY <2>1, CaptureAssumption DEF JobOK, Types, ObservationsOK, Events
      <3> QED BY <3>1, <1>1, <1>3, <1>4
    <2> QED BY <1>2, <2>1 DEF JobOK, work, startVars
  <1>8. queue' \in SUBSET Starts
    BY <1>2 DEF work, Types
  <1> QED BY <1>2, <1>6, <1>7, <1>8, ObservedOK DEF work

LEMMA CompleteOK ==
  ASSUME CaptureInv, NEW e \in Events, Complete(e)
  PROVE  CaptureInv'
  <1> USE DEF CaptureInv
  <1>0. active \in Starts /\ pending[active][e] = "open"
        /\ pending' = [pending EXCEPT ![active][e] = "done"] /\ queue' = Flushed(active)
        /\ UNCHANGED <<startVars, count, skipped, job, rejected, next, layers>>
    BY ActiveStart DEF Complete
  <1>1. ObservationsOK'
    BY <1>0 DEF ObservationsOK
  <1>2. queue' \in SUBSET Starts /\ (rejected => queue' = {})
    BY <1>0, FlushedOK
  <1>3. JobOK'
    BY <1>0, <1>2, CaptureAssumption DEF JobOK, ObservationsOK, Types, startVars, Events
  <1> QED BY <1>0, <1>1, <1>2, <1>3, ObservedOK

LEMMA ExpireOK ==
  ASSUME CaptureInv, NEW e \in Events, Expire(e)
  PROVE  CaptureInv'
  <1> USE DEF CaptureInv
  <1>0. active \in Starts /\ pending[active][e] \in {"open", "done"}
        /\ pending' = [pending EXCEPT ![active][e] = "none"] /\ queue' = Flushed(active)
        /\ skipped' = [skipped EXCEPT ![active] = @ \cup {e}]
        /\ UNCHANGED <<startVars, count, job, rejected, next, layers>>
    BY ActiveStart DEF Expire, ExpireWhen
  <1>1. ObservationsOK'
    <2>1. e \in 1 .. count[active] /\ e \in Nat
      BY <1>0, CaptureAssumption DEF ObservationsOK, Events
    <2> QED BY <1>0, <2>1 DEF ObservationsOK
  <1>2. queue' \in SUBSET Starts /\ (rejected => queue' = {})
    BY <1>0, FlushedOK
  <1>3. JobOK'
    BY <1>0, <1>2, CaptureAssumption DEF JobOK, ObservationsOK, Types, startVars, Events
  <1> QED BY <1>0, <1>1, <1>2, <1>3, ObservedOK

\* The flush moves: only its job, the observations and the queue change.
LEMMA FlushMoves ==
  ASSUME CaptureInv, UNCHANGED <<startVars, rejected, layers>>, ObservationsOK', JobOK',
         queue' \in SUBSET Starts,
         job' \in [at : {"idle", "number", "spool", "more"}, start : 0 .. MaxStarts,
                   event : Nat, number : Nat],
         job'.at # "spool", \A s \in Starts : next'[s] \in Nat /\ next[s] <= next'[s]
  PROVE  CaptureInv'
  <1> USE DEF CaptureInv
  <1>1. Order' /\ Types' /\ StartsOK'
    BY Frames DEF startVars, layers, Order, Types, StartsOK
  <1>2. LastOK'
    <2>1. ASSUME NEW s \in Starts, NEW i \in 1 .. Len(spooled), spooled[i].event < next[s]
          PROVE  spooled[i].event < next'[s]
      <3>1. spooled[i] \in Layer
        BY ElementOfSeq DEF Types
      <3> QED BY <2>1, <3>1 DEF Layer, ObservationsOK
    <2> QED BY <2>1 DEF startVars, layers, LastOK, LastOf
  <1>3. NumbersOK'
    BY DEF startVars, layers, NumbersOK, Above
  <1> QED BY <1>1, <1>2, <1>3 DEF Order

LEMMA FlushOK ==
  ASSUME CaptureInv, NEW s \in Starts, Flush(s)
  PROVE  CaptureInv'
  <1> USE DEF CaptureInv
  <1> DEFINE e == FirstKept(s)
  <1>0. /\ e \in next[s] .. count[s] + 1 /\ e \notin skipped[s] /\ e \in Nat
        /\ \A d \in next[s] .. e - 1 : d \in skipped[s]
        /\ next[s] \in Nat /\ next[s] >= 1 /\ count[s] \in Nat /\ count[s] <= MaxEvents
    <2>1. next[s] \in Nat /\ next[s] >= 1 /\ count[s] \in Nat /\ count[s] <= MaxEvents
      BY CaptureAssumption DEF ObservationsOK
    <2> QED BY <2>1, FirstKeptOK
  <1>1. /\ IF job.at = "more" THEN s = job.start ELSE job.at = "idle" /\ s \in queue
        /\ queue' = IF job.at = "more" THEN queue ELSE queue \ {s}
        /\ IF Flushable(s)
           THEN /\ next' = [next EXCEPT ![s] = e]
                /\ skipped' = [skipped EXCEPT ![s] = @ \ (next[s] .. e - 1)]
                /\ IF Completed(s, e)
                   THEN /\ pending' = [pending EXCEPT ![s][e] = "none"]
                        /\ job' = [at |-> "number", start |-> s, event |-> e, number |-> 0]
                   ELSE job' = NoJob /\ UNCHANGED pending
           ELSE job' = NoJob /\ UNCHANGED <<next, skipped, pending>>
        /\ UNCHANGED <<startVars, count, rejected, layers>>
    BY DEF Flush
  <1> HIDE DEF e
  <1>2. queue' \in SUBSET Starts /\ ~rejected /\ (rejected => queue' = {})
    BY <1>1 DEF JobOK, Types
  <1>3. NoJob \in [at : {"idle", "number", "spool", "more"}, start : 0 .. MaxStarts,
                   event : Nat, number : Nat] /\ NoJob.at = "idle"
    BY StartIds DEF NoJob
  <1>4. CASE ~Flushable(s)
    <2>1. ObservationsOK' /\ JobOK'
      BY <1>1, <1>2, <1>3, <1>4 DEF ObservationsOK, JobOK, startVars
    <2>2. \A t \in Starts : next'[t] \in Nat /\ next[t] <= next'[t]
      BY <1>1, <1>4 DEF ObservationsOK
    <2> QED BY <1>1, <1>2, <1>3, <1>4, <2>1, <2>2, FlushMoves
  <1>5. CASE Flushable(s)
    <2>0. s \in ready /\ next' = [next EXCEPT ![s] = e]
          /\ skipped' = [skipped EXCEPT ![s] = @ \ (next[s] .. e - 1)]
      BY <1>1, <1>5 DEF Flushable
    <2>1. ASSUME NEW d \in Events, pending[s][d] # "none"
          PROVE  e <= d
      <3>1. d \in Nat /\ next[s] <= d /\ d \notin skipped[s]
        BY <2>1 DEF ObservationsOK, Events
      <3>2. ~(d \in next[s] .. e - 1)
        BY <1>0, <3>1
      <3> QED BY <1>0, <3>1, <3>2
    <2>2. \A t \in Starts : next'[t] \in Nat /\ next[t] <= next'[t]
      BY <1>0, <2>0 DEF ObservationsOK
    <2>3. ASSUME pending' \in [Starts -> [Events -> {"none", "open", "done"}]],
                 \A t \in Starts, d \in Events : pending'[t][d] \in {"none", pending[t][d]}
          PROVE  ObservationsOK'
      <3>1. next' \in [Starts -> Nat] /\ skipped' \in [Starts -> SUBSET Nat]
            /\ count' \in [Starts -> 0 .. MaxEvents]
        BY <1>0, <1>1, <2>0 DEF ObservationsOK
      <3>2. ASSUME NEW t \in Starts
            PROVE  /\ next'[t] \in 1 .. count[t] + 1 /\ skipped'[t] \subseteq 1 .. count[t]
                   /\ \A d \in Events :
                        pending'[t][d] # "none" => next'[t] <= d /\ d <= count[t] /\ d \notin skipped'[t]
        <4>1. CASE t = s
          <5>1. next'[s] = e /\ skipped'[s] = skipped[s] \ (next[s] .. e - 1)
            BY <2>0 DEF ObservationsOK
          <5>2. e \in 1 .. count[s] + 1 /\ skipped[s] \subseteq 1 .. count[s]
            BY <1>0 DEF ObservationsOK
          <5>3. \A d \in Events : pending'[s][d] # "none" =>
                  pending[s][d] # "none" /\ d <= count[s] /\ d \notin skipped[s]
            BY <2>3 DEF ObservationsOK
          <5> QED BY <2>1, <4>1, <5>1, <5>2, <5>3
        <4>2. CASE t # s
          <5>1. next'[t] = next[t] /\ skipped'[t] = skipped[t]
            BY <2>0, <4>2 DEF ObservationsOK
          <5>2. \A d \in Events : pending'[t][d] # "none" => pending[t][d] # "none"
            BY <2>3
          <5> QED BY <5>1, <5>2 DEF ObservationsOK
        <4> QED BY <4>1, <4>2
      <3> QED BY <1>1, <2>3, <3>1, <3>2 DEF ObservationsOK
    <2>4. CASE Completed(s, e)
      <3>1. /\ pending' = [pending EXCEPT ![s][e] = "none"] /\ e \in Events
            /\ pending[s][e] = "done"
            /\ job' = [at |-> "number", start |-> s, event |-> e, number |-> 0]
        BY <1>1, <1>5, <2>4 DEF Completed
      <3>2. /\ pending' \in [Starts -> [Events -> {"none", "open", "done"}]]
            /\ \A t \in Starts, d \in Events : pending'[t][d] \in {"none", pending[t][d]}
            /\ pending'[s][e] = "none"
        BY <3>1 DEF ObservationsOK
      <3>3. ObservationsOK'
        BY <2>3, <3>2
      <3>4. e <= count[s] /\ next'[s] = e
        BY <2>0, <3>1 DEF ObservationsOK
      <3>5. JobOK'
        BY <1>1, <1>2, <2>0, <3>1, <3>2, <3>4 DEF JobOK, startVars
      <3>6. job' \in [at : {"idle", "number", "spool", "more"}, start : 0 .. MaxStarts,
                      event : Nat, number : Nat] /\ job'.at # "spool"
        BY <1>0, <3>1, StartIds
      <3> QED BY <1>1, <1>2, <2>2, <3>3, <3>5, <3>6, FlushMoves
    <2>5. CASE ~Completed(s, e)
      <3>1. job' = NoJob /\ pending' = pending
        BY <1>1, <1>5, <2>5
      <3>2. ObservationsOK'
        BY <2>3, <3>1 DEF ObservationsOK
      <3>3. JobOK'
        BY <1>1, <1>2, <1>3, <3>1 DEF JobOK
      <3> QED BY <1>1, <1>2, <1>3, <2>2, <3>1, <3>2, <3>3, FlushMoves
    <2> QED BY <2>4, <2>5
  <1> QED BY <1>4, <1>5

LEMMA DrawNumberOK ==
  ASSUME CaptureInv, DrawNumber
  PROVE  CaptureInv'
  <1> USE DEF CaptureInv
  <1>0. /\ job.at = "number" /\ counter' = counter + 1 /\ counter \in Nat
        /\ job' = [job EXCEPT !.at = "spool", !.number = counter + 1]
        /\ UNCHANGED <<startVars, observed, queue, rejected, next, last, spooled, failures>>
    BY DEF DrawNumber, Drawn, Types
  <1> DEFINE J == [at : {"idle", "number", "spool", "more"}, start : 0 .. MaxStarts,
                   event : Nat, number : Nat]
  <1>a. job \in J /\ counter + 1 \in Nat
    BY <1>0 DEF Types
  <1>1. /\ job' \in J
        /\ job'.at = "spool" /\ job'.number = counter + 1
        /\ job'.start = job.start /\ job'.event = job.event
    <2>1. job' \in J
      BY <1>0, <1>a
    <2>2. job'.at = "spool" /\ job'.number = counter + 1
      BY <1>0, <1>a
    <2>3. job'.start = job.start /\ job'.event = job.event
      BY <1>0, <1>a
    <2> QED BY <2>1, <2>2, <2>3
  <1>2. ObservationsOK' /\ Order' /\ LastOK'
    BY <1>0, Frames DEF observed, startVars, Order
  <1>3. Types' /\ StartsOK'
    BY <1>0, <1>1 DEF startVars, Types, StartsOK
  <1>4. JobOK'
    BY <1>0, <1>1 DEF startVars, observed, JobOK
  <1>5. NumbersOK'
    <2>1. \A n \in {counter + 1, counter + 2} : Above(n)
      BY <1>0, AboveGrows DEF NumbersOK
    <2>2. \A n : Above(n)' <=> Above(n)
      BY <1>0 DEF Above
    <2>3. counter' + 1 = counter + 2
      BY <1>0
    <2>4. job.start \in ready
      BY <1>0 DEF JobOK
    <2>5. ASSUME NEW s \in Starts, s = active, starts[s].at = "spool"
          PROVE  Above(starts[s].number) /\ starts[s].number <= counter'
      BY <1>0, <2>5 DEF NumbersOK, Types
    <2>6. Above(counter' + 1)
      BY <2>1, <2>3
    <2>7. Above(job'.number) /\ job'.number <= counter'
      BY <1>0, <1>1, <2>1
    <2>8. starts' = starts /\ active' = active
      BY <1>0 DEF startVars
    <2> QED BY <2>2, <2>5, <2>6, <2>7, <2>8 DEF NumbersOK
  <1> QED BY <1>2, <1>3, <1>4, <1>5 DEF Order

LEMMA SpoolNextOK ==
  ASSUME CaptureInv, SpoolNext
  PROVE  CaptureInv'
  <1> USE DEF CaptureInv
  <1> DEFINE s == job.start
  <1>0. /\ job.at = "spool" /\ s \in Starts /\ s \in ready /\ ~rejected
        /\ job.event = next[s] /\ job.event <= count[s] /\ pending[s][job.event] = "none"
        /\ next' = [next EXCEPT ![s] = @ + 1]
        /\ job' = [NoJob EXCEPT !.at = "more", !.start = s]
        /\ UNCHANGED <<startVars, observed, queue, rejected, counter, failures>>
        /\ starts[s].at = "started"
    BY DEF SpoolNext, JobOK, Types, StartsOK
  <1>1. /\ job' \in [at : {"idle", "number", "spool", "more"}, start : 0 .. MaxStarts,
                     event : Nat, number : Nat]
        /\ job'.at = "more" /\ job'.start = s
    BY <1>0 DEF Types, NoJob
  <1>2. /\ next' \in [Starts -> Nat] /\ next'[s] = next[s] + 1
        /\ \A t \in Starts : t # s => next'[t] = next[t]
    BY <1>0 DEF ObservationsOK
  <1>3. ObservationsOK'
    <2>1. UNCHANGED <<pending, count, skipped>>
      BY <1>0 DEF observed
    <2>2. ASSUME NEW t \in Starts
          PROVE  /\ next'[t] \in 1 .. count[t] + 1
                 /\ \A e \in Events : pending[t][e] # "none" => next'[t] <= e
      <3>0. next[t] \in 1 .. count[t] + 1 /\ count[t] \in Nat
            /\ \A e \in Events : pending[t][e] # "none" => next[t] <= e
        BY CaptureAssumption DEF ObservationsOK
      <3>1. CASE t = s
        <4>1. ASSUME NEW e \in Events, pending[t][e] # "none"
              PROVE  next[t] + 1 <= e
          <5>1. e # next[t] /\ next[t] <= e /\ e \in Nat
            BY <1>0, <3>0, <3>1, <4>1 DEF Events
          <5> QED BY <3>0, <5>1
        <4> QED BY <1>0, <1>2, <3>0, <3>1, <4>1
      <3>2. CASE t # s
        BY <1>2, <3>0, <3>2
      <3> QED BY <3>1, <3>2
    <2> QED BY <1>2, <2>1, <2>2 DEF ObservationsOK
  <1>4. JobOK'
    BY <1>0, <1>1 DEF startVars, JobOK
  <1>5. CASE active = s
    <2> DEFINE l == [start |-> s, event |-> job.event, number |-> job.number, from |-> last[s]]
    <2>1. /\ l \in Layer /\ l.start = s /\ l.event = next[s] /\ l.number = job.number
          /\ l.from = last[s] /\ spooled' = Append(spooled, l)
          /\ last' = [last EXCEPT ![s] = l.number]
      BY <1>0, <1>5 DEF SpoolNext, Appended, Layer, Types
    <2> HIDE DEF l
    <2>2. Follows(s, l)
      <3>1. PICK i \in 1 .. Len(spooled) :
              /\ LastOf(s, i) /\ spooled[i].event < next[s]
              /\ rejected \/ spooled[i].number = last[s]
        BY <1>0 DEF LastOK
      <3> QED BY <1>0, <2>1, <3>1 DEF Follows
    <2>3. Above(l.number) /\ l.number <= counter
      BY <1>0, <1>5, <2>1 DEF NumbersOK
    <2>4. starts' = starts /\ active' = active /\ rejected' = rejected /\ l.event < next'[s]
      BY <1>0, <1>2, <2>1 DEF startVars, ObservationsOK
    <2>5. /\ LastOK' /\ Order' /\ spooled' \in Seq(Layer) /\ last' \in [Starts -> Nat]
          /\ last'[s] = l.number /\ \A t \in Starts : t # s => last'[t] = last[t]
          /\ \A n : n = counter + 1 => Above(n)'
      BY <1>0, <1>2, <1>5, <2>1, <2>2, <2>3, <2>4, SpooledOK
    <2>6. Types'
      BY <1>0, <1>1, <2>5 DEF startVars, Types
    <2>7. StartsOK'
      BY <1>0, <2>5 DEF startVars, StartsOK
    <2>8. NumbersOK'
      <3>1. Above(counter + 1)'
        BY <1>0, <2>5
      <3> QED BY <1>0, <1>1, <1>5, <2>4, <3>1 DEF NumbersOK
    <2> QED BY <1>3, <1>4, <2>5, <2>6, <2>7, <2>8 DEF Order
  <1>6. CASE active # s
    <2>1. UNCHANGED <<last, spooled>>
      BY <1>6 DEF SpoolNext
    <2>2. \A t \in Starts : next[t] \in Nat /\ next[t] <= next'[t]
      BY <1>2 DEF ObservationsOK
    <2>3. UNCHANGED <<startVars, rejected, layers>> /\ job'.at # "spool"
          /\ queue' \in SUBSET Starts /\ \A t \in Starts : next'[t] \in Nat
      BY <1>0, <1>1, <1>2, <2>1 DEF layers, Types
    <2> QED BY <1>1, <1>3, <1>4, <2>2, <2>3, FlushMoves
  <1> QED BY <1>5, <1>6

LEMMA FlushFailsOK ==
  ASSUME CaptureInv, FlushFails
  PROVE  CaptureInv'
  <1> USE DEF CaptureInv
  <1>0. /\ job.at \in {"number", "spool"} /\ job.start \in ready
        /\ rejected' = TRUE /\ queue' = {} /\ job' = NoJob
        /\ UNCHANGED <<startVars, observed, next, counter, spooled>>
        /\ last' \in [Starts -> Nat] /\ \A t \in Starts : t # job.start => last'[t] = last[t]
    BY DEF FlushFails, JobOK, Types
  <1>1. ObservationsOK' /\ Order'
    BY <1>0, Frames DEF observed, Order
  <1>2. /\ NoJob.at = "idle"
        /\ NoJob \in [at : {"idle", "number", "spool", "more"}, start : 0 .. MaxStarts,
                      event : Nat, number : Nat]
    BY StartIds DEF NoJob
  <1>3. Types'
    BY <1>0, <1>2 DEF startVars, Types
  <1>4. StartsOK'
    BY <1>0 DEF startVars, StartsOK
  <1>5. JobOK'
    BY <1>0, <1>2 DEF JobOK
  <1>6. LastOK'
    BY <1>0 DEF startVars, LastOK, LastOf
  <1>7. NumbersOK'
    BY <1>0, <1>2 DEF startVars, NumbersOK, Above
  <1> QED BY <1>1, <1>3, <1>4, <1>5, <1>6, <1>7 DEF Order

-------------------------------------------------------------------------------
(* The theorems *)

LEMMA CaptureInit == Init => CaptureInv
  <1> SUFFICES ASSUME Init PROVE CaptureInv
    OBVIOUS
  <1>1. Types
    <2>1. starts \in [Starts -> [at : Stages, number : Nat]] /\ last \in [Starts -> Nat]
      BY DEF Init, Stages
    <2>2. spooled \in Seq(Layer)
      <3>1. \A S : <<>> \in Seq(S)
        OBVIOUS
      <3> QED BY <3>1 DEF Init
    <2>3. job \in [at : {"idle", "number", "spool", "more"}, start : 0 .. MaxStarts,
                   event : Nat, number : Nat]
      BY StartIds DEF Init, NoJob
    <2> QED BY <2>1, <2>2, <2>3, StartIds DEF Init, Types
  <1>2. StartsOK /\ JobOK
    <2>1. \A s \in Starts : starts[s].at = "none" /\ last[s] = 0 /\ s # active
      BY StartIds DEF Init
    <2>2. job.at = "idle" /\ job = NoJob /\ active = 0 /\ ready = {} /\ ~rejected
      BY DEF Init, NoJob
    <2>3. StartsOK
      BY <2>1, <2>2 DEF StartsOK
    <2> QED BY <2>2, <2>3 DEF JobOK
  <1>3. ObservationsOK
    BY CaptureAssumption DEF Init, ObservationsOK
  <1>4. LastOK /\ NumbersOK
    BY DEF Init, LastOK, NumbersOK, Above, NoJob
  <1>5. CausalOrder /\ NumbersIncrease
    BY DEF Init, CausalOrder, NumbersIncrease
  <1> QED BY <1>1, <1>2, <1>3, <1>4, <1>5 DEF CaptureInv

LEMMA CaptureStep == CaptureInv /\ [Next]_vars => CaptureInv'
  <1> SUFFICES ASSUME CaptureInv, [Next]_vars PROVE CaptureInv'
    OBVIOUS
  <1>1. CASE UNCHANGED vars
    <2>1. UNCHANGED <<startVars, observed, work, layers>>
      BY <1>1 DEF vars
    <2>2. ObservationsOK' /\ JobOK'
      BY <2>1, Frames DEF CaptureInv, startVars, observed, work
    <2> QED BY <2>1, <2>2, ObservedOK DEF CaptureInv, Types, work
  <1>2. CASE Next
    BY <1>2, StopOK, ObserveOK, StartOK, DecideOK, ProjectOK, SpoolInitialOK, StartedOK,
       StartFailsOK, FlushOK, CompleteOK, ExpireOK, DrawNumberOK, SpoolNextOK, FlushFailsOK
    DEF Next
  <1> QED BY <1>1, <1>2

\* Whatever starts overtake each other, and in whatever order observations
\* settle or expire, the spooled layers of a start are its initial one and then
\* one per observation in the order these began, each naming the one before it.
THEOREM LayersInOrder == Spec => []CausalOrder
  <1>1. CaptureInv => CausalOrder
    BY DEF CaptureInv
  <1> QED BY <1>1, CaptureInit, CaptureStep, PTL DEF Spec

\* The numbers drawn from the background reach the spool in increasing order,
\* as a start that was overtaken spools nothing any more (appendLayer).
THEOREM NumbersInOrder == Spec => []NumbersIncrease
  <1>1. CaptureInv => NumbersIncrease
    BY DEF CaptureInv
  <1> QED BY <1>1, CaptureInit, CaptureStep, PTL DEF Spec

\* The flush passes over no observation that is still pending
\* (flushCompletedObservations).
THEOREM NoneSkipped == Spec => []NothingPassedOver
  <1>1. CaptureInv => NothingPassedOver
    <2> SUFFICES ASSUME CaptureInv, NEW s \in Starts, NEW e \in Events, e < next[s],
                        pending[s][e] # "none"
                 PROVE  FALSE
      BY DEF NothingPassedOver
    <2>1. next[s] <= e /\ next[s] \in Nat /\ e \in Nat
      BY DEF CaptureInv, ObservationsOK, Events
    <2> QED BY <2>1
  <1> QED BY <1>1, CaptureInit, CaptureStep, PTL DEF Spec

\* Observations are pending only where they were counted, and the flush works
\* for a start that is ready.
THEOREM CaptureTypes == Spec => []TypeOK
  <1>1. CaptureInv => TypeOK
    <2> SUFFICES ASSUME CaptureInv PROVE TypeOK
      OBVIOUS
    <2>1. ASSUME NEW s \in Starts
          PROVE  next[s] \in 1 .. MaxEvents + 1
      <3>1. next[s] \in 1 .. count[s] + 1 /\ count[s] \in Nat /\ count[s] <= MaxEvents
        BY CaptureAssumption DEF CaptureInv, ObservationsOK
      <3> QED BY <3>1, CaptureAssumption
    <2>2. job # NoJob => job.at # "idle"
      BY DEF CaptureInv, JobOK
    <2> QED BY <2>1, <2>2 DEF CaptureInv, Types, StartsOK, ObservationsOK, JobOK, TypeOK
  <1> QED BY <1>1, CaptureInit, CaptureStep, PTL DEF Spec
=============================================================================
