---------------------------- MODULE AmbientCapture ----------------------------
(***************************************************************************)
(* The capture controller of one document,                                 *)
(* extension/learning/ambient-capture.js: starts that overtake each other, *)
(* observations that settle in any order or expire, and the one promise    *)
(* chain (captureWork) that appends a layer for each of them in the order  *)
(* they began.  AmbientDelivery follows a layer from the spool on.         *)
(*                                                                         *)
(* Every await is a point where the document goes on: a start has one for  *)
(* the decision, the projection, the layer number and the spool, a flush   *)
(* for the number and the spool.  The background may fail to answer either *)
(* of the last two.                                                        *)
(***************************************************************************)
EXTENDS Naturals, Sequences, FiniteSets

CONSTANTS
  MaxStarts,    \* bound: starts of the controller in the document
  MaxEvents,    \* bound: observations of one start
  MaxFailures   \* bound: requests the background does not answer

ASSUME CaptureAssumption == MaxStarts \in Nat \ {0} /\ MaxEvents \in Nat /\ MaxFailures \in Nat

VARIABLES
  starts,    \* where each call of start stands
  active,    \* the start whose state the controller works for, 0 for none
  attached,  \* starts whose observer is connected
  ready,     \* starts with initialReady set
  pending,   \* pending observations: start -> event -> none, open or done
  count,     \* eventSequence
  next,      \* nextCompletionSequence
  skipped,   \* discardedSequences
  last,      \* lastLayerId, 0 for none
  queue,     \* captureWork: starts with a flush queued; a second one is the same
  job,       \* the flush that is running: what it appends and how far it is
  rejected,  \* captureWork is a rejected promise
  counter,   \* layer numbers drawn from the background
  spooled,   \* layers enqueued, in order
  failures

startVars == <<starts, active, attached, ready>>
observed == <<pending, count, skipped>>
work == <<queue, job, rejected, next>>
layers == <<last, counter, spooled, failures>>
vars == <<startVars, observed, work, layers>>

Starts == 1 .. MaxStarts
Events == 1 .. MaxEvents
NoJob == [at |-> "idle", start |-> 0, event |-> 0, number |-> 0]

Init ==
  /\ starts = [s \in Starts |-> [at |-> "none", number |-> 0]]
  /\ active = 0 /\ attached = {} /\ ready = {}
  /\ pending = [s \in Starts |-> [e \in Events |-> "none"]]
  /\ count = [s \in Starts |-> 0]
  /\ next = [s \in Starts |-> 1]
  /\ skipped = [s \in Starts |-> {}]
  /\ last = [s \in Starts |-> 0]
  /\ queue = {} /\ job = NoJob /\ rejected = FALSE
  /\ counter = 0 /\ spooled = <<>> /\ failures = 0

FlushedAlways(s) == queue \cup {s}

\* flushCompletedObservations chains one more flush; behind a rejected
\* promise it never runs.
Flushed(s) == IF rejected THEN queue ELSE queue \cup {s}

Goto(s, at) == starts' = [starts EXCEPT ![s].at = at]

-----------------------------------------------------------------------------
(* stop: the active start's observer is disconnected and its pending        *)
(* observations, with their timers, are cleared.                            *)
Cleared(s) == [pending EXCEPT ![s] = [e \in Events |-> "none"]]

Stop ==
  /\ active # 0
  /\ active' = 0 /\ attached' = attached \ {active}
  /\ pending' = Cleared(active)
  /\ UNCHANGED <<starts, ready, count, skipped, work, layers>>

\* start, up to the decision it awaits.
Start(s) ==
  /\ starts[s].at = "none" /\ \A t \in 1 .. s - 1 : starts[t].at # "none"
  /\ Goto(s, "decision")
  /\ IF active = 0 THEN UNCHANGED <<active, attached, pending>>
     ELSE active' = 0 /\ attached' = attached \ {active} /\ pending' = Cleared(active)
  /\ UNCHANGED <<ready, count, skipped, work, layers>>

\* The answer makes this start the active one, whatever became active while
\* it was awaited.
Decide(s) ==
  /\ starts[s].at = "decision"
  /\ \/ Goto(s, "denied") /\ UNCHANGED <<active, attached>>
     \/ Goto(s, "projection") /\ active' = s /\ attached' = attached \cup {s}
  /\ UNCHANGED <<ready, observed, work, layers>>

Drawn == counter' = counter + 1
Appended(s, e, n) == spooled' = Append(spooled, [start |-> s, event |-> e, number |-> n, from |-> last[s]])

\* captureInitial, then appendLayer's first check and the layer number.
Project(s) ==
  /\ starts[s].at = "projection"
  /\ IF active = s
     THEN starts' = [starts EXCEPT ![s] = [at |-> "spool", number |-> counter + 1]] /\ Drawn
     ELSE Goto(s, "stopped") /\ UNCHANGED counter
  /\ UNCHANGED <<active, attached, ready, observed, work, last, spooled, failures>>

SpoolUnchecked(s) ==
  /\ starts[s].at = "spool"
  /\ last' = [last EXCEPT ![s] = starts[s].number]
  /\ Appended(s, 0, starts[s].number)
  /\ Goto(s, "enqueued")
  /\ UNCHANGED <<active, attached, ready, observed, work, counter, failures>>

SpoolInitial(s) ==
  /\ starts[s].at = "spool"
  /\ IF active = s
     THEN /\ last' = [last EXCEPT ![s] = starts[s].number]
          /\ Appended(s, 0, starts[s].number)
          /\ Goto(s, "enqueued")
     ELSE Goto(s, "stopped") /\ UNCHANGED <<last, spooled>>
  /\ UNCHANGED <<active, attached, ready, observed, work, counter, failures>>

Started(s) ==
  /\ starts[s].at = "enqueued"
  /\ ready' = ready \cup {s} /\ queue' = Flushed(s) /\ Goto(s, "started")
  /\ UNCHANGED <<active, attached, observed, job, rejected, next, layers>>

\* start rejects; the controller stays attached and never becomes ready.
StartFails(s) ==
  /\ failures < MaxFailures /\ failures' = failures + 1
  /\ \/ starts[s].at = "projection" /\ active = s /\ UNCHANGED last
     \/ starts[s].at = "spool" /\ active = s /\ last' = [last EXCEPT ![s] = starts[s].number]
  /\ Goto(s, "failed")
  /\ UNCHANGED <<active, attached, ready, observed, work, counter, spooled>>

-----------------------------------------------------------------------------
(* Observations.  Every connected observer sees the user's event, and each  *)
(* reports it to the controller, which counts it for the active start.      *)
Observe ==
  LET seen == Cardinality(attached)
      begun == count[active] + 1 .. count[active] + seen
  IN
  /\ active # 0 /\ seen > 0 /\ count[active] + seen <= MaxEvents
  /\ count' = [count EXCEPT ![active] = @ + seen]
  /\ pending' = [pending EXCEPT ![active] = [e \in Events |-> IF e \in begun THEN "open" ELSE @[e]]]
  /\ UNCHANGED <<startVars, skipped, work, layers>>

\* completeObservation
Complete(e) ==
  /\ active # 0 /\ pending[active][e] = "open"
  /\ pending' = [pending EXCEPT ![active][e] = "done"]
  /\ queue' = Flushed(active)
  /\ UNCHANGED <<startVars, count, skipped, job, rejected, next, layers>>

\* The timer of an observation; those begun earlier have fired before.
TimersInOrder(s, e) == \A d \in 1 .. e - 1 : pending[s][d] = "none"

ExpireQuietly(e, state) ==
  /\ active # 0 /\ pending[active][e] = state /\ TimersInOrder(active, e)
  /\ pending' = [pending EXCEPT ![active][e] = "none"]
  /\ skipped' = [skipped EXCEPT ![active] = @ \cup {e}]
  /\ UNCHANGED <<startVars, count, work, layers>>

ExpireWhen(e, state) ==
  /\ active # 0 /\ pending[active][e] = state /\ TimersInOrder(active, e)
  /\ pending' = [pending EXCEPT ![active][e] = "none"]
  /\ skipped' = [skipped EXCEPT ![active] = @ \cup {e}]
  /\ queue' = Flushed(active)
  /\ UNCHANGED <<startVars, count, job, rejected, next, layers>>

Expire(e) == ExpireWhen(e, "open") \/ ExpireWhen(e, "done")

-----------------------------------------------------------------------------
FirstCompleted(s) ==
  LET done == {e \in next[s] .. MaxEvents : pending[s][e] = "done"} IN
  IF done = {} THEN next[s] ELSE CHOOSE e \in done : \A d \in done : e <= d

(* One flush: from the next sequence on, past the discarded ones, it takes  *)
(* completed observations until one is missing.                             *)
FirstKept(s) ==
  CHOOSE e \in next[s] .. MaxEvents + 1 : e \notin skipped[s] /\ \A d \in next[s] .. e - 1 : d \in skipped[s]

Flushable(s) == active = s /\ s \in ready
Completed(s, e) == e \in Events /\ pending[s][e] = "done"

Flush(s) ==
  LET e == FirstKept(s) IN
  /\ IF job.at = "more" THEN s = job.start ELSE job.at = "idle" /\ s \in queue
  /\ queue' = IF job.at = "more" THEN queue ELSE queue \ {s}
  /\ IF Flushable(s)
     THEN /\ next' = [next EXCEPT ![s] = e]
          /\ skipped' = [skipped EXCEPT ![s] = @ \ (next[s] .. e - 1)]
          /\ IF Completed(s, e)
             THEN /\ pending' = [pending EXCEPT ![s][e] = "none"]
                  /\ job' = [at |-> "number", start |-> s, event |-> e, number |-> 0]
             ELSE job' = NoJob /\ UNCHANGED pending
     ELSE job' = NoJob /\ UNCHANGED <<next, skipped, pending>>
  /\ UNCHANGED <<startVars, count, rejected, layers>>

DrawNumber ==
  /\ job.at = "number"
  /\ Drawn /\ job' = [job EXCEPT !.at = "spool", !.number = counter + 1]
  /\ UNCHANGED <<startVars, observed, queue, rejected, next, last, spooled, failures>>

SpoolFromInitial ==
  LET s == job.start IN
  /\ job.at = "spool"
  /\ IF active = s THEN Appended(s, job.event, job.number) ELSE UNCHANGED spooled
  /\ next' = [next EXCEPT ![s] = @ + 1]
  /\ job' = [NoJob EXCEPT !.at = "more", !.start = s]
  /\ UNCHANGED <<startVars, observed, queue, rejected, last, counter, failures>>

\* A start that is not active any more spools nothing; either way the flush
\* goes on behind the observation it took.
SpoolNext ==
  LET s == job.start IN
  /\ job.at = "spool"
  /\ IF active = s
     THEN last' = [last EXCEPT ![s] = job.number] /\ Appended(s, job.event, job.number)
     ELSE UNCHANGED <<last, spooled>>
  /\ next' = [next EXCEPT ![s] = @ + 1]
  /\ job' = [NoJob EXCEPT !.at = "more", !.start = s]
  /\ UNCHANGED <<startVars, observed, queue, rejected, counter, failures>>

\* appendLayer throws: captureWork is rejected, for good and for every start.
FlushFails ==
  LET s == job.start IN
  /\ failures < MaxFailures /\ failures' = failures + 1
  /\ \/ job.at = "number" /\ UNCHANGED last
     \/ job.at = "spool" /\ active = s /\ last' = [last EXCEPT ![s] = job.number]
  /\ rejected' = TRUE /\ queue' = {} /\ job' = NoJob
  /\ UNCHANGED <<startVars, observed, next, counter, spooled>>

Next ==
  \/ Stop \/ Observe
  \/ \E s \in Starts :
       \/ Start(s) \/ Decide(s) \/ Project(s) \/ SpoolInitial(s) \/ Started(s) \/ StartFails(s)
       \/ Flush(s)
  \/ \E e \in Events : Complete(e) \/ Expire(e)
  \/ DrawNumber \/ SpoolNext \/ FlushFails

Spec == Init /\ [][Next]_vars

\* Awaits are answered, queued work runs, and timers fire; nothing makes the
\* user act, an observation settle or the policy change.
Fairness ==
  /\ \A s \in Starts : WF_vars(Decide(s)) /\ WF_vars(Project(s)) /\ WF_vars(SpoolInitial(s)) /\ WF_vars(Started(s))
                      /\ WF_vars(Flush(s))
  /\ \A e \in Events : WF_vars(ExpireWhen(e, "open"))
  /\ WF_vars(DrawNumber) /\ WF_vars(SpoolNext)

FairSpec == Spec /\ Fairness

-----------------------------------------------------------------------------
(* Observations are pending only for a start that counted them, and a flush *)
(* that has taken one works for a start that was ready.                     *)
TypeOK ==
  /\ active \in 0 .. MaxStarts /\ attached \subseteq Starts /\ ready \subseteq Starts
  /\ active # 0 => active \in attached
  /\ \A s \in Starts :
       /\ count[s] \in 0 .. MaxEvents /\ next[s] \in 1 .. MaxEvents + 1
       /\ \A e \in Events : pending[s][e] # "none" => e <= count[s]
       /\ skipped[s] \subseteq 1 .. count[s]
  /\ queue \subseteq Starts /\ (job # NoJob => job.start \in ready)
  /\ rejected => queue = {} /\ job = NoJob

(* The layers of a start are its initial one and then one per observation,  *)
(* in the order the observations began, though they settle in any order and *)
(* expire in between; and each names the layer spooled just before it as    *)
(* the one it came from.                                                    *)
CausalOrder ==
  \A i \in 1 .. Len(spooled) :
    LET earlier == {j \in 1 .. i - 1 : spooled[j].start = spooled[i].start} IN
    \/ earlier = {} /\ spooled[i].event = 0 /\ spooled[i].from = 0
    \/ \E j \in earlier :
         /\ \A k \in earlier : k <= j
         /\ spooled[i].event > spooled[j].event /\ spooled[i].from = spooled[j].number

(* Numbers reach the spool in the order they were drawn, even when a start  *)
(* overtakes another that has drawn its own.                                *)
NumbersIncrease ==
  \A i \in 1 .. Len(spooled) - 1 : spooled[i].number < spooled[i + 1].number

(* An observation is passed over only when it expired: the flush never      *)
(* skips one that is still pending.                                         *)
NothingPassedOver ==
  \A s \in Starts : \A e \in Events : s = active /\ e < next[s] => pending[s][e] = "none"

(* A completed observation of a controller that is ready does not wait for  *)
(* ever: the flush of the event before it, of its own completion or of an   *)
(* expiry takes it, unless an append failed, after which none is taken.     *)
CompletedIsTaken ==
  \A s \in Starts : \A e \in Events :
    (active = s /\ s \in ready /\ pending[s][e] = "done")
      ~> (pending[s][e] # "done" \/ active # s \/ rejected)

(* The contract: a user event completes one layer.                          *)
OneObserver == Cardinality(attached) <= 1
=============================================================================
