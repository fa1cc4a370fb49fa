---------------------------- MODULE RunCoordinator ----------------------------
(***************************************************************************)
(* extension/coordinator/run-coordinator.js: the durable run coordinator   *)
(* of the MV3 service worker, over the serialized storage of               *)
(* chrome-adapters.js.                                                     *)
(*                                                                         *)
(* Five kinds of asynchronous task work on a run, each holding its own     *)
(* copy of the run's record between two awaits and writing the whole copy  *)
(* back:                                                                   *)
(*   request  acceptRequest .. openExecutionTab, in the request queue;     *)
(*   queue    the run queue: source, review and actor events, timeouts,    *)
(*            disconnects and closed tabs, one at a time;                  *)
(*   recover  recover(), started with the worker, in no queue;             *)
(*   resume   resumeExecutionTab, started by a port, in no queue;          *)
(*   observe  storeObservation, started by a terminal record, in no queue. *)
(*                                                                         *)
(* pc[r, c] is the await at which task c of run r stands and rec[r, c] its *)
(* copy.  A save is two moments: it is issued (Issue appends the task to   *)
(* writes, the FIFO of createSerializedMutator) and it commits (Commit     *)
(* takes the head); the code that follows the commit up to its next await  *)
(* belongs to the same step.  A load is the step that reads store, with    *)
(* the code that follows it: storage.local answers in the order it is      *)
(* called, so nothing that was called later comes between.                 *)
(***************************************************************************)
EXTENDS RunState, FiniteSets

CONSTANTS
  OwnedTabs,   \* tabs that finished runs have left to the coordinator
  MaxRuns,     \* runs that may be requested (bounds the model)
  MaxEvents,   \* actor events one run may take (bounds the model)
  MaxFaults    \* worker suspensions, disconnections and closed tabs (bounds the model)

ASSUME BoundAssumption ==
  /\ OwnedTabs \subseteq Tabs
  /\ MaxRuns \in Nat /\ MaxEvents \in Nat /\ MaxFaults \in Nat

Ctx == {"request", "queue", "recover", "resume", "observe"}
Stops == {"timeout", "tab_closed", "source_gone"}

(* Labels at which a save is in flight, and labels at which something else is awaited;
   a run that is given_up waits for a recovery that has thrown before it came to it. *)
Saving ==
  {"created", "policy_checked", "opening", "waiting", "accepted", "confirm_requested",
   "event_saved", "page_saved", "attested", "prepared", "dispatched", "advanced",
   "finishing", "reopened", "repicked", "reaccepted", "approved", "terminal", "last"}
Awaiting ==
  {"queued", "resolve", "list_tabs", "pick_tab", "repick_tab", "loaded", "prepare",
   "prepare_next", "reauthorize", "fail", "authorize",
   "resume", "observe", "observed", "given_up"}
Labels == {"idle"} \cup Saving \cup Awaiting

Event ==
  [type  : {"none", "page", "completed", "failed", "confirm", "cancel", "stop"},
   doc   : Docs \cup {0},
   seq   : Nat,
   cmd   : Nat,
   ok    : BOOLEAN,   \* postcondition, precondition, attested identity, or approval
   moved : BOOLEAN,   \* the url differs from pendingCommand.urlBefore
   scope : BOOLEAN]   \* inside the origin allowlist and the navigation budget
NoEvent == [type |-> "none", doc |-> 0, seq |-> 0, cmd |-> 0,
            ok |-> FALSE, moved |-> FALSE, scope |-> TRUE]

VARIABLES
  store,     \* storage.local: the durable record of each run
  writes,    \* saves issued and not committed, in FIFO order
  pc, rec,   \* where each task stands, and its copy of the record
  event,     \* the event the run queue is handling
  busy,      \* tabs a task has seen in use (inUseTabIds)
  inbox,     \* fail tasks waiting in the run queue
  armed,     \* deadlineTimers
  due,       \* the action's deadline has passed (seen by a timer)
  up,        \* the service worker is running
  faults,    \* suspensions, disconnections and closed tabs so far
  source,    \* the port of the run's source document
  port,      \* executionPorts: the bound document of each tab, 0 if none
  ports,     \* documents whose execution port is connected
  docs,      \* documents loaded so far in each tab
  tabs,      \* "unused", "open" (owned by the coordinator) or "closed"
  cmds,      \* command ids handed out (randomId)
  posted,    \* commands posted to an actor: [cmd, step, doc]
  delivered, \* the source document has received a terminal envelope
  repeated,  \* history: steps whose command was posted more than once
  durable,   \* history: commands a committed record has carried as dispatched
  evidence,  \* history: steps whose effect an actor has reported
  gate,      \* history: "closed", "approved", "attested"
  fate       \* history: "open", "ended" (terminal), "reopened" (terminal overwritten)

taskVars  == <<writes, pc, rec, event, busy>>
timerVars == <<inbox, armed, due>>
workerVars == <<up, faults>>
sourceVars == <<source, delivered>>
tabVars   == <<port, ports, docs, tabs>>
postVars  == <<posted, repeated>>
histVars  == <<evidence, gate>>
vars == <<store, taskVars, timerVars, workerVars, sourceVars, tabVars, cmds, postVars,
          durable, histVars, fate>>

Tasks == Runs \X Ctx
Sources == {"on", "off", "grace", "closed"}

Posting == [cmd : Nat, step : Nat, doc : Docs]

Init ==
  /\ store = [r \in Runs |-> NoRun]
  /\ writes = <<>>
  /\ pc = [t \in Tasks |-> "idle"]
  /\ rec = [t \in Tasks |-> NoRun]
  /\ event = [r \in Runs |-> NoEvent]
  /\ busy = [t \in Tasks |-> {}]
  /\ inbox = [r \in Runs |-> {}]
  /\ armed = [r \in Runs |-> FALSE]
  /\ due = [r \in Runs |-> FALSE]
  /\ up = TRUE
  /\ faults = 0
  /\ source = [r \in Runs |-> "on"]
  /\ delivered = [r \in Runs |-> FALSE]
  /\ port = [t \in Tabs |-> 0]
  /\ ports = [t \in Tabs |-> {}]
  /\ docs = [t \in Tabs |-> 0]
  /\ tabs = [t \in Tabs |-> IF t \in OwnedTabs THEN "open" ELSE "unused"]
  /\ cmds = [r \in Runs |-> 0]
  /\ posted = [r \in Runs |-> {}]
  /\ repeated = [r \in Runs |-> {}]
  /\ durable = [r \in Runs |-> {}]
  /\ evidence = [r \in Runs |-> {}]
  /\ gate = [r \in Runs |-> "closed"]
  /\ fate = [r \in Runs |-> "open"]

-------------------------------------------------------------------------------
(* Awaits *)

\* Task c of run r issues a save of R: it goes to the end of the queue of saves.
Issue(queued, r, c, label, R) ==
  /\ writes' = Append(queued, <<r, c>>)
  /\ pc' = [pc EXCEPT ![<<r, c>>] = label]
  /\ rec' = [rec EXCEPT ![<<r, c>>] = R]
  /\ UNCHANGED <<event, busy>>

\* Task c of run r goes on to await something that is not a save.
Await(queued, r, c, label) ==
  /\ writes' = queued
  /\ pc' = [pc EXCEPT ![<<r, c>>] = label]
  /\ UNCHANGED <<rec, event, busy>>

\* Task c of run r ends; those in spawned start.
DoneStarting(queued, r, c, spawned) ==
  /\ writes' = queued
  /\ pc' = [t \in Tasks |->
             IF t = <<r, c>> THEN "idle"
             ELSE IF t \in spawned /\ pc[t] = "idle" THEN t[2] ELSE pc[t]]
  /\ rec' = [rec EXCEPT ![<<r, c>>] = NoRun]
  /\ busy' = [busy EXCEPT ![<<r, c>>] = {}]
  /\ event' = IF c = "queue" THEN [event EXCEPT ![r] = NoEvent] ELSE event

Done(queued, r, c) == DoneStarting(queued, r, c, {})

\* The save of task c of run r at the head of the queue commits.
Commit(r, c, label) ==
  /\ writes # <<>>
  /\ Head(writes) = <<r, c>>
  /\ pc[<<r, c>>] = label
  /\ store' = [store EXCEPT ![r] = rec[<<r, c>>]]
  /\ durable' = [durable EXCEPT ![r] =
                   IF rec[<<r, c>>].pending.sent THEN @ \cup {rec[<<r, c>>].pending.cmd} ELSE @]
  /\ fate' = [fate EXCEPT ![r] =
                CASE IsTerminal(rec[<<r, c>>]) /\ @ = "open"   -> "ended"
                  [] ~IsTerminal(rec[<<r, c>>]) /\ @ = "ended" -> "reopened"
                  [] OTHER -> @]

Others == Tail(writes)

\* No record becomes durable in the step.
NoCommit == UNCHANGED <<store, durable, fate>>

-------------------------------------------------------------------------------
(* Pieces of handlers that several tasks share *)

\* The terminal record: transitionRun to a terminal status with its envelope.
End(R, status) == [Move(R, status) EXCEPT !.terminal = "unacked"]

\* awaitConfirmation and confirmationRecord: the binding is the page of the run.
AskConfirmation(r, R) ==
  LET d == IF Plan[r].confirm = "before_run" THEN 0 ELSE R.doc
  IN  [Move(R, "awaiting_confirmation") EXCEPT
         !.asked = FALSE,
         !.conf = [state |-> "requested", doc |-> d, rev |-> R.rev,
                   seq |-> IF d = 0 THEN 0 ELSE R.last[d]]]

NeedsConfirmationOffByOne(r, R, i) ==
  Plan[r].confirm = "before_step" /\ Plan[r].at = i + 1 /\ ~IsApproved(R)

NeedsConfirmation(r, R, i) ==
  Plan[r].confirm = "before_step" /\ Plan[r].at = i /\ ~IsApproved(R)

\* receiveReviewEvent: the page must be the one the confirmation was bound to.
BindingHolds(r, R) ==
  \/ Plan[r].confirm = "before_run"
  \/ /\ R.conf.doc = R.doc
     /\ R.doc # 0
     /\ R.conf.seq = R.last[R.doc]
     /\ R.conf.rev = R.rev

CommandStatus(r, i) == IF OpOf(r, i) = "extract" THEN "extracting" ELSE "dispatching_step"

WaitingStatus(r, i) ==
  CASE OpOf(r, i) = "extract"  -> "extracting"
    [] OpOf(r, i) = "navigate" -> "waiting_for_navigation"
    [] OTHER                   -> "waiting_for_effect"

PostUnchecked(r, R) ==
  /\ posted' = [posted EXCEPT ![r] = @ \cup
                  {[cmd |-> R.pending.cmd, step |-> R.step, doc |-> port[R.tab]]}]
  /\ UNCHANGED repeated

\* The envelope of the pending command goes to the port bound to the run's tab, if any.
PostCommand(r, R) ==
  IF R.tab # NoTab /\ port[R.tab] # 0
  THEN /\ posted' = [posted EXCEPT ![r] = @ \cup
                        {[cmd |-> R.pending.cmd, step |-> R.step, doc |-> port[R.tab]]}]
       /\ repeated' = [repeated EXCEPT ![r] =
                          IF \E p \in posted[r] : p.step = R.step THEN @ \cup {R.step} ELSE @]
  ELSE UNCHANGED postVars

\* dispatchPreparedStep: make the dispatch durable first; a command that
\* already is dispatched is posted again at once.
Dispatch(queued, r, c, R) ==
  IF R.status = "dispatching_step" \/ (R.status = "extracting" /\ ~R.pending.sent)
  THEN /\ Issue(queued, r, c, "dispatched",
                [R EXCEPT !.status = WaitingStatus(r, R.step), !.pending.sent = TRUE])
       /\ UNCHANGED <<postVars, armed>>
  ELSE /\ armed' = [armed EXCEPT ![r] = TRUE]
       /\ PostCommand(r, R)
       /\ Done(queued, r, c)

\* The runs (other than those in done) that tabClosed fails when a tab is gone.
StopRunsOn(t, done) ==
  inbox' = [q \in Runs |->
              IF q \notin done /\ IsActive(store[q]) /\ store[q].tab = t
              THEN inbox[q] \cup {"tab_closed"} ELSE inbox[q]]

\* The tab disappears, with the ports of its documents.
RemoveTab(t) ==
  /\ tabs' = [tabs EXCEPT ![t] = "closed"]
  /\ port' = [port EXCEPT ![t] = 0]
  /\ ports' = [ports EXCEPT ![t] = {}]
  /\ UNCHANGED docs

\* closeExecutionTab
CloseExecutionTab(r, R) ==
  IF Plan[r].closes /\ R.tab # NoTab
  THEN RemoveTab(R.tab) /\ StopRunsOn(R.tab, {r})
  ELSE UNCHANGED <<tabVars, inbox>>

\* dispatchTerminal: the envelope stays eligible for replay until it is acknowledged.
DispatchTerminal(r, R) ==
  delivered' = [delivered EXCEPT ![r] =
                  @ \/ (R.terminal = "unacked" /\ source[r] = "on")]

-------------------------------------------------------------------------------
(* The request task *)

\* acceptRequest; a request for a stored run only replays what is known.
Request(r) ==
  /\ up /\ source[r] = "on"
  /\ store[r].status = "none"
  /\ pc[<<r, "request">>] = "idle"
  /\ Cardinality({q \in Runs : store[q].status # "none" \/ pc[<<q, "request">>] # "idle"}) < MaxRuns
  /\ Issue(writes, r, "request", "created", CreatedRun)
  /\ NoCommit
  /\ UNCHANGED <<timerVars, workerVars, sourceVars, tabVars, cmds, postVars, histVars>>

RunCreated(r, c) ==
  /\ Commit(r, c, "created")
  /\ Await(Others, r, c, "resolve")
  /\ UNCHANGED <<timerVars, workerVars, sourceVars, tabVars, cmds, postVars, histVars>>

\* resolveCreatedRun: the registry, the validations and the policy decide.
Resolve(r, c) ==
  /\ pc[<<r, c>>] = "resolve"
  /\ \/ Issue(writes, r, c, "policy_checked", Move(rec[<<r, c>>], "policy_checked"))
     \/ Await(writes, r, c, "fail")
  /\ NoCommit
  /\ UNCHANGED <<timerVars, workerVars, sourceVars, tabVars, cmds, postVars, histVars>>

PolicyChecked(r, c) ==
  /\ Commit(r, c, "policy_checked")
  /\ armed' = [armed EXCEPT ![r] = TRUE]
  /\ IF Plan[r].confirm = "before_run"
     THEN Issue(Others, r, c, "confirm_requested", AskConfirmation(r, rec[<<r, c>>]))
     ELSE Issue(Others, r, c, "opening", Move(rec[<<r, c>>], "opening_tab"))
  /\ UNCHANGED <<inbox, due, workerVars, sourceVars, tabVars, cmds, postVars, histVars>>

\* sendConfirmation: the envelope becomes durable, then goes to the review and source ports.
ConfirmationRequested(r, c) ==
  /\ Commit(r, c, "confirm_requested")
  /\ Issue(Others, r, c, "last", [rec[<<r, c>>] EXCEPT !.asked = TRUE])
  /\ UNCHANGED <<timerVars, workerVars, sourceVars, tabVars, cmds, postVars, histVars>>

TabOpening(r, c) ==
  /\ \/ Commit(r, c, "opening")
     \/ Commit(r, c, "reopened")
  /\ Await(Others, r, c, "list_tabs")
  /\ UNCHANGED <<timerVars, workerVars, sourceVars, tabVars, cmds, postVars, histVars>>

InUse(r) == {store[q].tab : q \in {q \in Runs \ {r} : IsActive(store[q])}} \ {NoTab}

ListTabs(r, c) ==
  /\ pc[<<r, c>>] = "list_tabs"
  /\ busy' = [busy EXCEPT ![<<r, c>>] = InUse(r)]
  /\ pc' = [pc EXCEPT ![<<r, c>>] = "pick_tab"]
  /\ NoCommit
  /\ UNCHANGED <<writes, rec, event, timerVars, workerVars, sourceVars, tabVars, cmds, postVars,
                 histVars>>

\* The record names the tab that findReusable or tabs.create returned.
Occupy(r, c, label, t) ==
  Issue(writes, r, c, label,
        [Move(rec[<<r, c>>], "waiting_for_page") EXCEPT !.tab = t, !.doc = 0, !.rev = TRUE])

ReuseTab(r, c, label, t) ==
  /\ tabs[t] = "open" /\ t \notin busy[<<r, c>>]
  /\ Occupy(r, c, label, t)
  /\ UNCHANGED tabVars

CreateTab(r, c, label, t) ==
  /\ tabs[t] = "unused"
  /\ tabs' = [tabs EXCEPT ![t] = "open"]
  /\ Occupy(r, c, label, t)
  /\ UNCHANGED <<port, ports, docs>>

\* An exception ends a task; out of recover's loop, which has no try, it also
\* gives up the runs that the loop has not come to.
Throw(queued, r, c) ==
  IF c # "recover"
  THEN Done(queued, r, c)
  ELSE LET later == {t \in Tasks : pc[t] = "queued" /\ t # <<r, c>>}
           over  == later \cup {<<r, c>>}
       IN  /\ writes' = queued
           /\ pc' = [t \in Tasks |-> IF t \in later THEN "given_up"
                                     ELSE IF t \in over THEN "idle" ELSE pc[t]]
           /\ rec' = [t \in Tasks |-> IF t \in over THEN NoRun ELSE rec[t]]
           /\ busy' = [t \in Tasks |-> IF t \in over THEN {} ELSE busy[t]]
           /\ UNCHANGED event

\* openExecutionTab and openExecutionTabFromConfirmation; tabs.create may reject.
PickTab(r, c) ==
  /\ pc[<<r, c>>] = "pick_tab"
  /\ \/ \E t \in Tabs : ReuseTab(r, c, "waiting", t) \/ CreateTab(r, c, "waiting", t)
     \/ Throw(writes, r, c) /\ UNCHANGED tabVars
  /\ NoCommit
  /\ UNCHANGED <<timerVars, workerVars, sourceVars, cmds, postVars, histVars>>

\* recover: an interrupted creation is repeated only for a safe action.
RepickTab(r) ==
  /\ pc[<<r, "recover">>] = "repick_tab"
  /\ \/ \E t \in Tabs : ReuseTab(r, "recover", "repicked", t)
     \/ Plan[r].safe /\ \E t \in Tabs : CreateTab(r, "recover", "repicked", t)
     \/ Plan[r].safe /\ Throw(writes, r, "recover") /\ UNCHANGED tabVars
     \/ ~Plan[r].safe /\ Await(writes, r, "recover", "fail") /\ UNCHANGED tabVars
  /\ NoCommit
  /\ UNCHANGED <<timerVars, workerVars, sourceVars, cmds, postVars, histVars>>

\* sendAccepted
TabOccupied(r, c) ==
  /\ \/ Commit(r, c, "waiting")
        /\ Issue(Others, r, c, "accepted", [rec[<<r, c>>] EXCEPT !.accepted = TRUE])
     \/ Commit(r, c, "repicked")
        /\ Issue(Others, r, c, "reaccepted", [rec[<<r, c>>] EXCEPT !.accepted = TRUE])
  /\ UNCHANGED <<timerVars, workerVars, sourceVars, tabVars, cmds, postVars, histVars>>

\* openExecutionTab ends with resumeExecutionTab; in the run queue that only
\* posts the binding, for the record stays in waiting_for_page until it is over.
Accepted(r, c) ==
  /\ \/ /\ Commit(r, c, "accepted")
        /\ DoneStarting(Others, r, c,
             IF c # "queue" /\ port[rec[<<r, c>>].tab] # 0 THEN {<<r, "resume">>} ELSE {})
     \/ Commit(r, c, "reaccepted") /\ Done(Others, r, c)
  /\ UNCHANGED <<timerVars, workerVars, sourceVars, tabVars, cmds, postVars, histVars>>

-------------------------------------------------------------------------------
(* The run queue: events *)

\* The run queue is first in, first out: an event taken now came before any stop.
Vacant(r) == up /\ pc[<<r, "queue">>] = "idle" /\ inbox[r] = {}

\* The queue takes event e with R, what is loaded and what acceptEvent makes of it.
Take(r, e, R) ==
  /\ Vacant(r)
  /\ pc' = [pc EXCEPT ![<<r, "queue">>] = "loaded"]
  /\ rec' = [rec EXCEPT ![<<r, "queue">>] = R]
  /\ event' = [event EXCEPT ![r] = e]
  /\ NoCommit
  /\ UNCHANGED <<writes, busy, timerVars, workerVars, sourceVars, tabVars, cmds, postVars>>

Heard(R) == Cardinality({k \in Docs \X (1..MaxEvents) : k[2] <= R.last[k[1]]})

TakeActorEvent(r, e) ==
  /\ store[r].tab # NoTab
  /\ e.doc \in ports[store[r].tab]
  /\ Heard(store[r]) < MaxEvents
  /\ CanAccept(store[r], e.doc, e.seq)
  /\ Take(r, e, Accept(store[r], e.doc, e.seq))

NextSeq(r, d) == store[r].last[d] + 1

PageOutcomes ==
  {o \in [ok : BOOLEAN, moved : BOOLEAN, scope : BOOLEAN] : o.ok \/ o.moved => o.scope}

\* The actor reports the effect of the pending navigation by loading a page that satisfies it.
ShowsEffect(R, d, o) ==
  /\ R.status = "waiting_for_navigation" /\ R.pending.cmd # 0
  /\ o.ok /\ (o.moved \/ d # R.pending.doc)

PageReady(r) ==
  \E d \in Docs, o \in PageOutcomes :
    /\ TakeActorEvent(r, [NoEvent EXCEPT !.type = "page", !.doc = d, !.seq = NextSeq(r, d),
                            !.ok = o.ok, !.moved = o.moved, !.scope = o.scope])
    /\ evidence' = [evidence EXCEPT ![r] =
                      IF ShowsEffect(store[r], d, o) THEN @ \cup {store[r].step} ELSE @]
    /\ gate' = [gate EXCEPT ![r] =
                  IF @ = "approved" /\ o.ok /\ d = store[r].conf.doc THEN "attested" ELSE @]

\* step.completed, or step.failed (moved: it reports an observed navigation)
StepReported(r) ==
  \E p \in posted[r], type \in {"completed", "failed"}, flag \in BOOLEAN :
    LET e == [NoEvent EXCEPT !.type = type, !.doc = p.doc, !.seq = NextSeq(r, p.doc),
                !.cmd = p.cmd, !.ok = (type = "completed" /\ flag),
                !.moved = (type = "failed" /\ flag)]
    IN  /\ TakeActorEvent(r, e)
        /\ evidence' = [evidence EXCEPT ![r] = IF e.ok THEN @ \cup {p.step} ELSE @]
        /\ UNCHANGED gate

\* run.cancel of the source document, which learned the run's id from run.accepted
Cancel(r) ==
  /\ source[r] = "on" /\ store[r].accepted
  /\ CanAccept(store[r], 0, 0)
  /\ Take(r, [NoEvent EXCEPT !.type = "cancel"], store[r])
  /\ UNCHANGED histVars

\* run.confirm of the review page
Confirm(r, ok) ==
  /\ store[r].conf.state # "none"
  /\ CanAccept(store[r], 0, 0)
  /\ Take(r, [NoEvent EXCEPT !.type = "confirm", !.ok = ok], store[r])
  /\ gate' = [gate EXCEPT ![r] = IF ok /\ @ = "closed" THEN "approved" ELSE @]
  /\ UNCHANGED evidence

\* run.ack of the source document that has the terminal envelope
Acknowledge(r) ==
  /\ Vacant(r)
  /\ source[r] = "on" /\ delivered[r]
  /\ store[r].terminal = "unacked"
  /\ Issue(writes, r, "queue", "last", [store[r] EXCEPT !.terminal = "acked"])
  /\ NoCommit
  /\ UNCHANGED <<timerVars, workerVars, sourceVars, tabVars, cmds, postVars, histVars>>

\* The digest of the event is there: the event becomes durable before it is handled.
EventLoaded(r) ==
  /\ pc[<<r, "queue">>] = "loaded"
  /\ Issue(writes, r, "queue", "event_saved", rec[<<r, "queue">>])
  /\ NoCommit
  /\ UNCHANGED <<timerVars, workerVars, sourceVars, tabVars, cmds, postVars, histVars>>

\* The last save of a task.
LastSaved(r, c) ==
  /\ Commit(r, c, "last")
  /\ Done(Others, r, c)
  /\ UNCHANGED <<timerVars, workerVars, sourceVars, tabVars, cmds, postVars, histVars>>

-------------------------------------------------------------------------------
(* The run queue: steps and pages *)

\* A step's effect is there: on to the next step, its confirmation, or the end.
\* A page.ready carries no revision (pageRevisionAfter), a step.completed does.
CompletePending(r, R) ==
  LET S == [R EXCEPT !.step = @ + 1, !.pending = NoCommand, !.rev = event[r].type # "page"]
  IN  IF IsLast(r, R.step) THEN Issue(Others, r, "queue", "finishing", S)
      ELSE IF NeedsConfirmation(r, S, S.step)
      THEN Issue(Others, r, "queue", "confirm_requested", AskConfirmation(r, S))
      ELSE Issue(Others, r, "queue", "advanced", Move(S, CommandStatus(r, S.step)))

\* prepareNextStep, up to the digest of the command (complete would be illegal here)
PrepareNext(r, R) ==
  IF R.step \notin Steps(r) THEN Throw(Others, r, "queue")
  ELSE IF NeedsConfirmation(r, R, R.step)
  THEN Issue(Others, r, "queue", "confirm_requested", AskConfirmation(r, R))
  ELSE Await(Others, r, "queue", "prepare")

\* handlePageReady, once the page (and its attestation) is durable
PageContinues(r, R, e) ==
  IF R.status = "waiting_for_navigation" /\ R.pending.cmd # 0
  THEN IF ShowsEffect(R, e.doc, e) THEN CompletePending(r, R) ELSE Done(Others, r, "queue")
  ELSE IF R.status # "waiting_for_page" THEN Done(Others, r, "queue")
  ELSE IF R.step = 0 /\ ~e.ok THEN Await(Others, r, "queue", "fail")
  ELSE PrepareNext(r, R)

\* A document's number stands for the navigation sequence its binding gave it.
PageEventSaved(r, R, e) ==
  IF ~e.scope THEN Await(Others, r, "queue", "fail")
  ELSE IF e.doc < R.doc THEN Throw(Others, r, "queue")
  ELSE Issue(Others, r, "queue", "page_saved", [R EXCEPT !.doc = e.doc, !.rev = TRUE])

WaitsForPending(R, e) == R.pending.cmd # 0 /\ R.pending.cmd = e.cmd /\ R.pending.doc = e.doc

CompletedUnchecked(r, R, e) ==
  IF R.status \notin {"waiting_for_effect", "waiting_for_navigation", "extracting"}
     \/ ~WaitsForPending(R, e)
  THEN Done(Others, r, "queue")
  ELSE CompletePending(r, R)

CompletedEventSaved(r, R, e) ==
  IF R.status \notin {"waiting_for_effect", "waiting_for_navigation", "extracting"}
     \/ ~WaitsForPending(R, e)
  THEN Done(Others, r, "queue")
  ELSE IF ~e.ok THEN Await(Others, r, "queue", "fail")
  ELSE CompletePending(r, R)

\* A failure that only reports the expected navigation is left to the next page.
FailedEventSaved(r, R, e) ==
  IF ~WaitsForPending(R, e)
     \/ (R.status = "waiting_for_navigation" /\ OpOf(r, R.step) = "navigate" /\ e.moved)
  THEN Done(Others, r, "queue")
  ELSE Await(Others, r, "queue", "fail")

ConfirmEventSaved(r, R, e) ==
  IF R.status # "awaiting_confirmation" THEN Done(Others, r, "queue")
  ELSE IF e.ok /\ BindingHolds(r, R) THEN Await(Others, r, "queue", "reauthorize")
  ELSE Await(Others, r, "queue", "fail")

EventSaved(r) ==
  LET R == rec[<<r, "queue">>]
      e == event[r]
  IN  /\ Commit(r, "queue", "event_saved")
      /\ \/ e.type = "page" /\ PageEventSaved(r, R, e)
         \/ e.type = "completed" /\ CompletedEventSaved(r, R, e)
         \/ e.type = "failed" /\ FailedEventSaved(r, R, e)
         \/ e.type = "cancel" /\ Await(Others, r, "queue", "fail")
         \/ e.type = "confirm" /\ ConfirmEventSaved(r, R, e)
      /\ UNCHANGED <<timerVars, workerVars, sourceVars, tabVars, cmds, postVars, histVars>>

AttestsUnsatisfied(R, e) == e.doc = R.conf.doc /\ e.seq > R.conf.seq /\ R.conf.rev

\* The confirmed page must still be the one that the confirmation was bound to: another
\* document has another navigationSequence; url, stateId and the precondition are in e.ok.
Attests(R, e) ==
  /\ e.ok /\ e.doc = R.conf.doc
  /\ e.seq > R.conf.seq
  /\ R.conf.rev

PageSaved(r) ==
  LET R == rec[<<r, "queue">>]
      e == event[r]
  IN  /\ Commit(r, "queue", "page_saved")
      /\ IF R.status = "waiting_for_page" /\ R.conf.state = "approved"
         THEN IF Attests(R, e)
              THEN Issue(Others, r, "queue", "attested", [R EXCEPT !.conf.state = "attested"])
              ELSE Await(Others, r, "queue", "fail")
         ELSE PageContinues(r, R, e)
      /\ UNCHANGED <<timerVars, workerVars, sourceVars, tabVars, cmds, postVars, histVars>>

Attested(r) ==
  /\ Commit(r, "queue", "attested")
  /\ PageContinues(r, rec[<<r, "queue">>], event[r])
  /\ UNCHANGED <<timerVars, workerVars, sourceVars, tabVars, cmds, postVars, histVars>>

\* The command gets its id and the page it is meant for, and becomes durable.
Prepare(r) ==
  LET R == rec[<<r, "queue">>]
      S == [R EXCEPT !.pending = [cmd |-> cmds[r] + 1, doc |-> R.doc, sent |-> FALSE]]
  IN  /\ \/ pc[<<r, "queue">>] = "prepare"
            /\ Issue(writes, r, "queue", "prepared", Move(S, CommandStatus(r, R.step)))
         \/ pc[<<r, "queue">>] = "prepare_next"
            /\ Issue(writes, r, "queue", "prepared", S)
      /\ cmds' = [cmds EXCEPT ![r] = @ + 1]
      /\ NoCommit
      /\ UNCHANGED <<timerVars, workerVars, sourceVars, tabVars, postVars, histVars>>

PreparedPostsFirst(r) ==
  /\ Commit(r, "queue", "prepared")
  /\ PostCommand(r, rec[<<r, "queue">>])
  /\ Issue(Others, r, "queue", "dispatched",
       [rec[<<r, "queue">>] EXCEPT !.status = WaitingStatus(r, rec[<<r, "queue">>].step),
                               !.pending.sent = TRUE])
  /\ UNCHANGED <<timerVars, workerVars, sourceVars, tabVars, cmds, histVars>>

Prepared(r) ==
  /\ Commit(r, "queue", "prepared")
  /\ Dispatch(Others, r, "queue", rec[<<r, "queue">>])
  /\ UNCHANGED <<inbox, due, workerVars, sourceVars, tabVars, cmds, histVars>>

Dispatched(r, c) ==
  /\ Commit(r, c, "dispatched")
  /\ armed' = [armed EXCEPT ![r] = TRUE]
  /\ PostCommand(r, rec[<<r, c>>])
  /\ Done(Others, r, c)
  /\ UNCHANGED <<inbox, due, workerVars, sourceVars, tabVars, cmds, histVars>>

StepAdvanced(r) ==
  /\ Commit(r, "queue", "advanced")
  /\ Await(Others, r, "queue", "prepare_next")
  /\ UNCHANGED <<timerVars, workerVars, sourceVars, tabVars, cmds, postVars, histVars>>

\* complete: the last step's effect is durable before the run is.
LastStepSaved(r) ==
  /\ Commit(r, "queue", "finishing")
  /\ Issue(Others, r, "queue", "terminal", End(rec[<<r, "queue">>], "completed"))
  /\ UNCHANGED <<timerVars, workerVars, sourceVars, tabVars, cmds, postVars, histVars>>

\* receiveReviewEvent: the registry and the policy decide once more.
Reauthorize(r) ==
  LET R == rec[<<r, "queue">>]
  IN  /\ pc[<<r, "queue">>] = "reauthorize"
      /\ \/ Await(writes, r, "queue", "fail")
         \/ /\ Plan[r].confirm = "before_run"
            /\ Issue(writes, r, "queue", "reopened",
                     [Move(R, "opening_tab") EXCEPT !.conf.state = "attested"])
         \/ /\ Plan[r].confirm # "before_run"
            /\ Issue(writes, r, "queue", "approved",
                     [Move(R, "waiting_for_page") EXCEPT !.conf.state = "approved"])
      /\ NoCommit
      /\ UNCHANGED <<timerVars, workerVars, sourceVars, tabVars, cmds, postVars, histVars>>

\* The page is asked for a fresh page.ready (resumeExecutionTab posts its binding).
Approved(r) ==
  /\ Commit(r, "queue", "approved")
  /\ Done(Others, r, "queue")
  /\ UNCHANGED <<timerVars, workerVars, sourceVars, tabVars, cmds, postVars, histVars>>

-------------------------------------------------------------------------------
(* The run queue: timeouts, disconnects and closed tabs; the end of a run *)

\* timeout rechecks the deadlines of the record it loads; the other stops fail the run.
TakeStop(r, k) ==
  /\ up /\ pc[<<r, "queue">>] = "idle"
  /\ k \in inbox[r]
  /\ inbox' = [inbox EXCEPT ![r] = @ \ {k}]
  /\ \/ /\ k = "timeout" => due[r] \/ store[r].pending.sent
        /\ IsActive(store[r])
        /\ pc' = [pc EXCEPT ![<<r, "queue">>] = "fail"]
        /\ event' = [event EXCEPT ![r] = [NoEvent EXCEPT !.type = "stop"]]
        /\ UNCHANGED armed
     \/ /\ k = "timeout" => ~due[r]
        /\ k # "timeout" => ~IsActive(store[r])
        /\ armed' = [armed EXCEPT ![r] = @ \/ IsActive(store[r])]
        /\ UNCHANGED <<pc, event>>
  /\ NoCommit
  /\ UNCHANGED <<writes, rec, busy, due, workerVars, sourceVars, tabVars, cmds, postVars,
                 histVars>>

FailAlways(r, c) ==
  /\ pc[<<r, c>>] = "fail"
  /\ Issue(writes, r, c, "terminal", End(store[r], "failed"))
  /\ NoCommit
  /\ UNCHANGED <<timerVars, workerVars, sourceVars, tabVars, cmds, postVars, histVars>>

\* fail and cancel load the record afresh.
Fail(r, c) ==
  LET status == IF c = "queue" /\ event[r].type = "cancel" THEN "cancelled" ELSE "failed"
  IN  /\ pc[<<r, c>>] = "fail"
      /\ IF IsActive(store[r]) THEN Issue(writes, r, c, "terminal", End(store[r], status))
         ELSE Done(writes, r, c)
      /\ NoCommit
      /\ UNCHANGED <<timerVars, workerVars, sourceVars, tabVars, cmds, postVars, histVars>>

\* terminal, once the terminal record is durable
TerminalSaved(r, c) ==
  /\ Commit(r, c, "terminal")
  /\ armed' = [armed EXCEPT ![r] = FALSE]
  /\ DispatchTerminal(r, rec[<<r, c>>])
  /\ CloseExecutionTab(r, rec[<<r, c>>])
  /\ DoneStarting(Others, r, c, {<<r, "observe">>})
  /\ UNCHANGED <<due, workerVars, source, cmds, postVars, histVars>>

\* storeObservation saves the observation, which may throw, loads the record
\* again and writes that copy back.
StoreObservation(r) ==
  /\ pc[<<r, "observe">>] = "observe"
  /\ \/ ~store[r].observed /\ Await(writes, r, "observe", "observed")
     \/ Done(writes, r, "observe")
  /\ NoCommit
  /\ UNCHANGED <<timerVars, workerVars, sourceVars, tabVars, cmds, postVars, histVars>>

ObservationStored(r) ==
  /\ pc[<<r, "observe">>] = "observed"
  /\ IF store[r].observed THEN Done(writes, r, "observe")
     ELSE Issue(writes, r, "observe", "last", [store[r] EXCEPT !.observed = TRUE])
  /\ NoCommit
  /\ UNCHANGED <<timerVars, workerVars, sourceVars, tabVars, cmds, postVars, histVars>>

-------------------------------------------------------------------------------
(* resumeExecutionTab *)

ResumeAlways(r) ==
  LET R == store[r]
  IN  /\ pc[<<r, "resume">>] = "resume"
      /\ IF R.status \in {"waiting_for_effect", "extracting"} /\ R.pending.cmd # 0
         THEN Dispatch(writes, r, "resume", R)
         ELSE Done(writes, r, "resume") /\ UNCHANGED <<armed, postVars>>
      /\ NoCommit
      /\ UNCHANGED <<inbox, due, workerVars, sourceVars, tabVars, cmds, histVars>>

\* An uncertain command is repeated when the action is safe, else it fails the run.
Resume(r) ==
  LET R == store[r]
      uncertain == R.status \in {"waiting_for_effect", "extracting"} /\ R.pending.cmd # 0
  IN  /\ pc[<<r, "resume">>] = "resume"
      /\ \/ uncertain /\ Plan[r].safe /\ Dispatch(writes, r, "resume", R)
         \/ uncertain /\ ~Plan[r].safe /\ Await(writes, r, "resume", "fail")
              /\ UNCHANGED <<armed, postVars>>
         \/ ~uncertain /\ Done(writes, r, "resume") /\ UNCHANGED <<armed, postVars>>
      /\ NoCommit
      /\ UNCHANGED <<inbox, due, workerVars, sourceVars, tabVars, cmds, histVars>>

-------------------------------------------------------------------------------
(* recover *)

\* The worker starts: recover lists the stored runs and takes them one at a time.
WorkerStart ==
  /\ ~up /\ up' = TRUE
  /\ pc' = [t \in Tasks |->
             IF t[2] # "recover" THEN pc[t]
             ELSE IF store[t[1]].status = "none" THEN "idle" ELSE "queued"]
  /\ rec' = [t \in Tasks |-> IF t[2] = "recover" THEN store[t[1]] ELSE rec[t]]
  /\ busy' = [t \in Tasks |-> IF t[2] = "recover" THEN InUse(t[1]) ELSE busy[t]]
  /\ NoCommit
  /\ UNCHANGED <<writes, event, timerVars, faults, sourceVars, tabVars, cmds, postVars,
                 histVars>>

NextInRecovery(r) ==
  /\ pc[<<r, "recover">>] = "queued"
  /\ \A q \in Runs : pc[<<q, "recover">>] \in {"idle", "queued"}

RecoverTerminal(r) ==
  /\ NextInRecovery(r)
  /\ IsTerminal(rec[<<r, "recover">>])
  /\ DispatchTerminal(r, store[r])
  /\ CloseExecutionTab(r, store[r])
  /\ DoneStarting(writes, r, "recover", IF store[r].observed THEN {} ELSE {<<r, "observe">>})
  /\ NoCommit
  /\ UNCHANGED <<armed, due, workerVars, source, cmds, postVars, histVars>>

RecoverUnarmed(r) ==
  /\ NextInRecovery(r)
  /\ ~IsTerminal(rec[<<r, "recover">>])
  /\ Await(writes, r, "recover",
           IF rec[<<r, "recover">>].status = "created" THEN "resolve" ELSE "authorize")
  /\ NoCommit
  /\ UNCHANGED <<timerVars, workerVars, sourceVars, tabVars, cmds, postVars, histVars>>

\* A created run has no deadline yet; that of any other run may have passed while
\* the worker was down, else it is armed and the run is authorized again.
RecoverActive(r) ==
  LET R == rec[<<r, "recover">>]
  IN  /\ NextInRecovery(r)
      /\ ~IsTerminal(R)
      /\ \/ /\ R.status # "created"
            /\ Await(writes, r, "recover", "fail") /\ UNCHANGED armed
         \/ /\ R.status = "created"
            /\ Await(writes, r, "recover", "resolve") /\ UNCHANGED armed
         \/ /\ R.status # "created" /\ ~due[r]
            /\ armed' = [armed EXCEPT ![r] = TRUE]
            /\ Await(writes, r, "recover", "authorize")
      /\ NoCommit
      /\ UNCHANGED <<inbox, due, workerVars, sourceVars, tabVars, cmds, postVars, histVars>>

RecoverRefused(r) ==
  /\ pc[<<r, "recover">>] = "authorize"
  /\ Await(writes, r, "recover", "fail")
  /\ NoCommit
  /\ UNCHANGED <<timerVars, workerVars, sourceVars, tabVars, cmds, postVars, histVars>>

RecoverOpening(r) ==
  LET R == rec[<<r, "recover">>]
  IN  /\ pc[<<r, "recover">>] = "authorize"
      /\ \/ R.status = "policy_checked"
              /\ Issue(writes, r, "recover", "opening", Move(R, "opening_tab"))
         \/ R.status = "opening_tab" /\ Await(writes, r, "recover", "repick_tab")
      /\ NoCommit
      /\ UNCHANGED <<timerVars, workerVars, sourceVars, tabVars, cmds, postVars, histVars>>

\* dispatchPreparedStep throws when no command was prepared.
RecoverDispatch(r) ==
  LET R == rec[<<r, "recover">>]
  IN  /\ pc[<<r, "recover">>] = "authorize"
      /\ R.status = "dispatching_step"
      /\ \/ R.pending.cmd = 0 /\ Throw(writes, r, "recover") /\ UNCHANGED <<armed, postVars>>
         \/ R.pending.cmd # 0 /\ Dispatch(writes, r, "recover", R)
      /\ NoCommit
      /\ UNCHANGED <<inbox, due, workerVars, sourceVars, tabVars, cmds, histVars>>

RecoverWaiting(r) ==
  LET R == rec[<<r, "recover">>]
  IN  /\ pc[<<r, "recover">>] = "authorize"
      /\ R.status \notin {"policy_checked", "opening_tab", "dispatching_step"}
      /\ IF R.tab # NoTab /\ tabs[R.tab] # "open" THEN StopRunsOn(R.tab, {}) ELSE UNCHANGED inbox
      /\ Done(writes, r, "recover")
      /\ NoCommit
      /\ UNCHANGED <<armed, due, workerVars, sourceVars, tabVars, cmds, postVars, histVars>>

-------------------------------------------------------------------------------
(* The browser: worker suspensions, documents, ports, tabs and time *)

Fault == faults < MaxFaults /\ faults' = faults + 1

\* A source document is followed from its run on.
Known(r) == store[r].status # "none"

\* The worker stops: everything in memory is lost, with every port.  The save
\* at the head of the queue may still have reached the disk.
Crash ==
  /\ up /\ up' = FALSE
  /\ Fault
  /\ \/ NoCommit
     \/ writes # <<>> /\ Commit(Head(writes)[1], Head(writes)[2], pc[Head(writes)])
  /\ writes' = <<>>
  /\ pc' = [t \in Tasks |-> "idle"]
  /\ rec' = [t \in Tasks |-> NoRun]
  /\ event' = [r \in Runs |-> NoEvent]
  /\ busy' = [t \in Tasks |-> {}]
  /\ inbox' = [r \in Runs |-> {}]
  /\ armed' = [r \in Runs |-> FALSE]
  /\ source' = [r \in Runs |-> IF Known(r) /\ source[r] # "closed" THEN "off" ELSE source[r]]
  /\ port' = [t \in Tabs |-> 0]
  /\ ports' = [t \in Tabs |-> {}]
  /\ UNCHANGED <<due, delivered, docs, tabs, cmds, postVars, histVars>>

\* A document loads in an owned tab; the one before may still be connected.
NewDocument(t) ==
  /\ tabs[t] = "open"
  /\ docs[t] < MaxDocs
  /\ docs' = [docs EXCEPT ![t] = @ + 1]
  /\ UNCHANGED <<store, durable, fate, taskVars, timerVars, workerVars, sourceVars, port,
                 ports, tabs, cmds, postVars, histVars>>

\* bindPort: the newest document's actor connects, and resumeExecutionTab starts.
BindExecution(t) ==
  /\ up /\ tabs[t] = "open"
  /\ docs[t] \in Docs \ ports[t]
  /\ port' = [port EXCEPT ![t] = docs[t]]
  /\ ports' = [ports EXCEPT ![t] = @ \cup {docs[t]}]
  /\ pc' = [k \in Tasks |->
             IF k[2] = "resume" /\ pc[k] = "idle" /\ IsActive(store[k[1]]) /\ store[k[1]].tab = t
             THEN "resume" ELSE pc[k]]
  /\ NoCommit
  /\ UNCHANGED <<writes, rec, event, busy, timerVars, workerVars, sourceVars, docs, tabs, cmds,
                 postVars, histVars>>

\* disconnect of an execution port: only the bound one clears the binding.
Unbind(t, d) ==
  /\ up /\ d \in ports[t]
  /\ Fault
  /\ ports' = [ports EXCEPT ![t] = @ \ {d}]
  /\ port' = [port EXCEPT ![t] = IF @ = d THEN 0 ELSE @]
  /\ UNCHANGED <<store, durable, fate, taskVars, timerVars, up, sourceVars, docs, tabs, cmds,
                 postVars, histVars>>

\* tabClosed for an execution tab; without a worker nobody is told.
CloseTab(t) ==
  /\ tabs[t] = "open"
  /\ Fault
  /\ RemoveTab(t)
  /\ IF up THEN StopRunsOn(t, {}) ELSE UNCHANGED inbox
  /\ UNCHANGED <<store, durable, fate, taskVars, armed, due, up, sourceVars, cmds,
                 postVars, histVars>>

SetSource(r, s, stops) ==
  /\ Known(r)
  /\ source' = [source EXCEPT ![r] = s]
  /\ inbox' = IF stops /\ IsActive(store[r]) THEN [inbox EXCEPT ![r] = @ \cup {"source_gone"}]
              ELSE inbox
  /\ UNCHANGED <<store, durable, fate, taskVars, armed, due, up, tabVars, cmds, postVars,
                 histVars>>

\* disconnect: the source document has sourceReconnectGraceMs to come back.
SourceDrop(r) ==
  source[r] = "on" /\ Fault /\ SetSource(r, "grace", FALSE) /\ UNCHANGED delivered

\* expireSourceDisconnect
SourceExpire(r) ==
  source[r] = "grace" /\ SetSource(r, "off", TRUE) /\ UNCHANGED <<faults, delivered>>

\* tabClosed for the source tab
SourceClose(r) ==
  source[r] # "closed" /\ Fault /\ SetSource(r, "closed", up) /\ UNCHANGED delivered

SourceBindSilent(r) ==
  /\ up /\ source[r] \in {"grace", "off"}
  /\ SetSource(r, "on", FALSE)
  /\ UNCHANGED <<faults, delivered>>

\* bindPort and resumeSource: a stored terminal envelope is sent again.  (One
\* that becomes durable while resumeSource lists the runs is sent by terminal.)
SourceBind(r) ==
  /\ up /\ source[r] \in {"grace", "off"}
  /\ SetSource(r, "on", FALSE)
  /\ delivered' = [delivered EXCEPT ![r] = @ \/ store[r].terminal = "unacked"]
  /\ UNCHANGED faults

\* A timer fires: for the action's deadline, or for that of a dispatched step.
FireTimer(r) ==
  /\ armed[r]
  /\ armed' = [armed EXCEPT ![r] = FALSE]
  /\ \/ due' = [due EXCEPT ![r] = TRUE]
     \/ store[r].pending.sent /\ UNCHANGED due
  /\ inbox' = [inbox EXCEPT ![r] = @ \cup {"timeout"}]
  /\ UNCHANGED <<store, durable, fate, taskVars, workerVars, sourceVars, tabVars, cmds,
                 postVars, histVars>>

-------------------------------------------------------------------------------
(* The specification *)

Starting(r, c) ==
  \/ RunCreated(r, c) \/ Resolve(r, c) \/ PolicyChecked(r, c) \/ ConfirmationRequested(r, c)
  \/ TabOpening(r, c) \/ ListTabs(r, c) \/ PickTab(r, c) \/ TabOccupied(r, c) \/ Accepted(r, c)

Handling(r) ==
  \/ EventLoaded(r) \/ EventSaved(r) \/ PageSaved(r) \/ Attested(r) \/ Prepare(r) \/ Prepared(r)
  \/ StepAdvanced(r) \/ LastStepSaved(r) \/ Reauthorize(r) \/ Approved(r)

Ending(r, c) ==
  \/ Fail(r, c) \/ TerminalSaved(r, c) \/ Dispatched(r, c) \/ LastSaved(r, c)

Observing(r) == StoreObservation(r) \/ ObservationStored(r)

Recovering(r) ==
  \/ RecoverTerminal(r) \/ RecoverActive(r) \/ RecoverRefused(r) \/ RecoverOpening(r)
  \/ RepickTab(r) \/ RecoverDispatch(r) \/ RecoverWaiting(r)

\* What task c of run r does by itself: its promises resolve, and the run queue
\* goes on to the next stop.
Working(r, c) ==
  \/ /\ pc[<<r, c>>] # "idle"
     /\ \/ Starting(r, c) \/ Ending(r, c)
        \/ c = "queue" /\ Handling(r)
        \/ c = "recover" /\ Recovering(r)
        \/ c = "resume" /\ Resume(r)
        \/ c = "observe" /\ Observing(r)
  \/ c = "queue" /\ \E k \in Stops : TakeStop(r, k)

\* What the actor, the source document and the user send.
Events(r) ==
  \/ Request(r) \/ PageReady(r) \/ StepReported(r) \/ Cancel(r) \/ Acknowledge(r)
  \/ \E ok \in BOOLEAN : Confirm(r, ok)

Environment ==
  \/ Crash \/ WorkerStart
  \/ \E t \in Tabs : \/ NewDocument(t) \/ BindExecution(t) \/ CloseTab(t)
                     \/ \E d \in Docs : Unbind(t, d)
  \/ \E r \in Runs : \/ SourceDrop(r) \/ SourceExpire(r) \/ SourceBind(r) \/ SourceClose(r)
                     \/ FireTimer(r)

Next == Environment \/ \E r \in Runs : Events(r) \/ \E c \in Ctx : Working(r, c)

Spec == Init /\ [][Next]_vars

(***************************************************************************)
(* Fairness.  Promises resolve, Chrome starts the worker again when a port *)
(* connects or an event is due, and time passes: a deadline that is armed  *)
(* again and again is the same deadline and is reached (SF).  The actor,   *)
(* the user and the source document owe nothing, except that a source      *)
(* document that stays open connects its port again.                       *)
(***************************************************************************)
Fairness ==
  /\ WF_vars(WorkerStart)
  /\ \A r \in Runs :
       /\ \A c \in Ctx : WF_vars(Working(r, c))
       /\ SF_vars(FireTimer(r) /\ due'[r])
       /\ WF_vars(SourceBind(r))

FairSpec == Spec /\ Fairness

-------------------------------------------------------------------------------
(* Properties *)

RecordsOK ==
  /\ store \in [Runs -> Record]
  /\ durable \in [Runs -> SUBSET Nat]
  /\ fate \in [Runs -> {"open", "ended", "reopened"}]

TasksOK ==
  /\ writes \in Seq(Tasks)
  /\ pc \in [Tasks -> Labels]
  /\ rec \in [Tasks -> Record]
  /\ event \in [Runs -> Event]
  /\ busy \in [Tasks -> SUBSET Tabs]

WorkerOK ==
  /\ inbox \in [Runs -> SUBSET Stops]
  /\ armed \in [Runs -> BOOLEAN] /\ due \in [Runs -> BOOLEAN]
  /\ up \in BOOLEAN /\ faults \in Nat
  /\ cmds \in [Runs -> Nat]

PortsOK ==
  /\ source \in [Runs -> Sources] /\ delivered \in [Runs -> BOOLEAN]
  /\ port \in [Tabs -> Docs \cup {0}] /\ ports \in [Tabs -> SUBSET Docs]
  /\ docs \in [Tabs -> Docs \cup {0}]
  /\ tabs \in [Tabs -> {"unused", "open", "closed"}]

HistoryOK ==
  /\ posted \in [Runs -> SUBSET Posting] /\ repeated \in [Runs -> SUBSET Nat]
  /\ evidence \in [Runs -> SUBSET Nat]
  /\ gate \in [Runs -> {"closed", "approved", "attested"}]

\* Every variable keeps its type; in particular the records that tasks save
\* and hold are records of run-state.js.
TypeOK == RecordsOK /\ TasksOK /\ WorkerOK /\ PortsOK /\ HistoryOK

\* No command reaches an actor before a record that carries it as dispatched is
\* on disk, whatever faults and stale copies come between (system-contract.md,
\* "Persist state before every dispatch"; dispatchPreparedStep).
DispatchIsDurable == \A r \in Runs : \A p \in posted[r] : p.cmd \in durable[r]

\* contracts/README.md:66: "Conditional or unsafe actions are never automatically
\* replayed after an uncertain result."  A step of such an action is posted to an
\* actor at most once until its run ends, over every crash, recovery and
\* reconnection.
UnsafeStepPostedOnce ==
  \A r \in Runs : fate[r] = "open" /\ ~Plan[r].safe => repeated[r] = {}

\* While the disk says that the command of such a step was dispatched, nothing is
\* posted for its run: what may have reached an actor is not sent again (recover,
\* resumeExecutionTab, dispatchPreparedStep).
UnsafeSentNotReposted ==
  [][\A r \in Runs :
       fate[r] = "open" /\ ~Plan[r].safe /\ store[r].pending.sent
         => UNCHANGED <<posted[r], repeated[r]>>]_vars

\* The step behind a before_step confirmation, and every step after it, is
\* posted only when the user approved and the very document of the approval
\* attested its page again (receiveReviewEvent, handlePageReady).
ConfirmedBeforeStep ==
  \A r \in Runs : \A p \in posted[r] :
    Plan[r].confirm = "before_step" /\ p.step >= Plan[r].at => gate[r] = "attested"

\* A step is posted only when an actor showed the effect of every step before
\* it, and a run completes only when it showed that of every step
\* (completePendingStep; system-contract.md, invariants 4 and 10).
SuccessNeedsEvidence ==
  \A r \in Runs :
    /\ \A p \in posted[r] : 0..(p.step - 1) \subseteq evidence[r]
    /\ store[r].status = "completed" => Steps(r) \subseteq evidence[r]

\* No handler ever asks transitionRun for a transition that run-state.js forbids:
\* a task moves its copy of the record, or one it has just loaded, along
\* LEGAL_TRANSITIONS.  (It would throw, and leave the run where it is.)
MovesAreLegal ==
  [][\A t \in Tasks :
       LET old == rec[t].status
           new == rec'[t].status
       IN  new \notin {old, "none", "created"} =>
             \/ new = store[t[1]].status
             \/ CanMove(store[t[1]], new)
             \/ CanMove(rec[t], new)]_vars

\* Every accepted invocation ends: once its run is durable, a terminal record
\* becomes durable, however the worker, the tabs and the ports fail; unless a
\* recovery that threw for another run gave this one up (recover).
Settles ==
  \A r \in Runs :
    store[r].status # "none" ~> fate[r] # "open" \/ pc[<<r, "recover">>] = "given_up"

\* system-contract.md:64: "Service-worker suspension must not lose the run."
\* A run that has been accepted ends, whatever happens to the other runs.
NoRunIsLost == \A r \in Runs : store[r].status # "none" ~> fate[r] # "open"

\* A terminal outcome reaches the source document, unless that is gone or the
\* outcome was overwritten (terminal, resumeSource).
OutcomeIsHeard ==
  \A r \in Runs :
    IsTerminal(store[r]) ~> delivered[r] \/ source[r] = "closed" \/ fate[r] = "reopened"

\* run-state.js: "Terminal run state is immutable".
TerminalImmutable ==
  [][\A r \in Runs : IsTerminal(store[r]) => store'[r].status = store[r].status]_vars

\* Nothing is posted to an actor for a before_run action that nobody approved.
ConfirmedBeforeRun ==
  \A r \in Runs : Plan[r].confirm = "before_run" /\ posted[r] # {} => gate[r] # "closed"

\* Once the worker is up and every task is done, no run is left in
\* dispatching_step: recover and the run queue dispatch or fail it.
NoStrandedDispatch ==
  \A r \in Runs :
    /\ up /\ writes = <<>>
    /\ \A t \in Tasks : pc[t] \in {"idle", "given_up"}
    /\ fate[r] = "open"
    => store[r].status # "dispatching_step"

\* A fresh page.ready of the very document a confirmation was bound to, that
\* satisfies the step, is not what fails the confirmed run.
FreshPageAttests ==
  \A r \in Runs :
    /\ gate[r] = "attested"
    /\ event[r].type = "page" /\ event[r].ok
    /\ event[r].doc = rec[<<r, "queue">>].conf.doc
    => pc[<<r, "queue">>] # "fail"

\* Two active runs never work in the same execution tab.
TabExclusive ==
  \A q, r \in Runs :
    q # r /\ IsActive(store[q]) /\ IsActive(store[r]) /\ store[q].tab # NoTab
      => store[q].tab # store[r].tab

===============================================================================
