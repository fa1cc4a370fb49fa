----------------------------- MODULE ActorBridge -----------------------------
(***************************************************************************)
(* extension/actor/bootstrap.js, createActorBridge, over executeStep of    *)
(* actor/runtime.js: the documents of one execution tab, each with its     *)
(* port to the worker, under one run.                                      *)
(*                                                                         *)
(* What awaits is kept between two steps: an announcement of the page      *)
(* (announcePage, while the page's state is detected) and an execution     *)
(* (executeStep: "detecting" until the operation, "waiting" until the      *)
(* postcondition).  Each await of an execution races with its signal, so   *)
(* one that is aborted ends before anything else is handled.               *)
(*                                                                         *)
(* The coordinator's handlers are those of RunCoordinator with their saves *)
(* taken as one step; a report and the deadline of the run are handled     *)
(* here only as far as they decide what is posted to the actor.            *)
(***************************************************************************)
EXTENDS Naturals, FiniteSets, Sequences

CONSTANTS
  Plans,      \* actions that may run: see Plan
  Refused,    \* whether the coordinator refuses a completion: see Validated
  MaxDocs,    \* documents of the tab (bounds the model)
  MaxDrops    \* ports lost (bounds the model)

(* What an action's steps do to the page, whether it is safe to repeat, and
   the step that is confirmed before it runs (0 if none). *)
Plan == [ops : Seq({"act", "navigate"}) \ {<<>>}, safe : BOOLEAN, confirm : Nat]

ASSUME ActorAssumption ==
  /\ \A p \in Plans : p \in Plan
  /\ Refused \subseteq BOOLEAN /\ Refused # {}
  /\ MaxDocs \in Nat \ {0} /\ MaxDrops \in Nat

Docs == 1..MaxDocs

VARIABLES
  run,        \* the coordinator's record of the run
  doc,        \* the document of the tab
  wire,       \* the port of each document: what is posted on it and not handled
  bridge,     \* the closure of createActorBridge in the current document
  announcing, \* announcements that await the detection of the page
  execs,      \* executions that have not ended
  again,      \* openExecutionTab has still to call resumeExecutionTab
  drops,      \* ports lost so far
  performed,  \* history: how often each step's operation was performed
  rewound     \* history: a binding took the sequence back

history == <<performed, rewound>>
vars == <<run, doc, wire, bridge, announcing, execs, again, drops, history>>

Ops == run.plan.ops
Steps == 1..Len(Ops)
NoPage == [doc |-> 0, seq |-> 0, nav |-> 0]
NoBinding == [id |-> 0, last |-> 0, nav |-> 0]
Fresh == [started |-> TRUE, binding |-> NoBinding, active |-> 0, seq |-> 0]
Closed == [open |-> FALSE, down |-> <<>>, up |-> <<>>]

Init ==
  /\ \E plan \in Plans :
     run = [plan |-> plan, status |-> "opening", step |-> 1, cmd |-> 0, pend |-> 0,
            last |-> [d \in Docs |-> 0], exec |-> 0, nav |-> 0,
            approved |-> FALSE, attest |-> FALSE, bound |-> NoPage]
  /\ doc = 1
  /\ wire = [d \in Docs |-> Closed]
  /\ bridge = Fresh
  /\ announcing = {}
  /\ execs = {}
  /\ again = FALSE
  /\ drops = 0
  /\ performed = [s \in Steps |-> 0]
  /\ rewound = FALSE

----------------------------------------------------------------------------
(* The actor: every operator below is from a bridge or a wire to the one   *)
(* it leaves.                                                              *)

(* A new object: the least name that no binding and no execution has. *)
New(used) == CHOOSE n \in 1..(Cardinality(used) + 1) : n \notin used
NewBinding == New({a.id : a \in announcing} \cup {bridge.binding.id})
NewExecution == New({e.id : e \in execs})

(* postEnvelope: nothing without a port and a binding. *)
Posts(b, w) == w.open /\ b.binding # NoBinding

PostEnvelope(b, w, message) ==
  IF Posts(b, w)
    THEN [w EXCEPT !.up = Append(@, [type |-> message.type, seq |-> b.seq + 1,
                                     nav |-> message.nav, cmd |-> message.cmd])]
    ELSE w

Numbered(b, w) == IF Posts(b, w) THEN [b EXCEPT !.seq = @ + 1] ELSE b

NothingAborted(es) == es

(* activeCommand?.abort() *)
Aborted(es) == {e \in es : e.id # bridge.active}

(* handlePortMessage with a binding: the active command is aborted, the
   sequence continues the one the coordinator has stored, and the page is
   announced. *)
ReceiveBinding ==
  LET w == wire[doc]
      message == Head(w.down)
      new == [id |-> NewBinding, last |-> message.last, nav |-> message.nav] IN
  /\ w.down # <<>> /\ message.type = "binding"
  /\ wire' = [wire EXCEPT ![doc].down = Tail(@)]
  /\ bridge' = [bridge EXCEPT !.binding = new, !.active = 0, !.seq = message.last]
  /\ execs' = Aborted(execs)
  /\ announcing' = announcing \cup {new}
  /\ rewound' = (rewound \/ message.last < bridge.seq)
  /\ UNCHANGED <<run, doc, again, drops, performed>>

(* announcePage goes on when the page is detected, or its detection has
   failed or timed out; an announcement of an older binding is dropped. *)
Announce(current) ==
  /\ current \in announcing
  /\ announcing' = announcing \ {current}
  /\ IF bridge.binding = current
       THEN /\ wire' = [wire EXCEPT ![doc] =
                          PostEnvelope(bridge, @, [type |-> "page", nav |-> current.nav, cmd |-> 0])]
            /\ bridge' = Numbered(bridge, wire[doc])
       ELSE UNCHANGED <<wire, bridge>>
  /\ UNCHANGED <<run, doc, execs, again, drops, history>>

(* executeCommand: a newer command aborts the one before. *)
ReceiveCommand ==
  LET w == wire[doc]
      message == Head(w.down) IN
  /\ w.down # <<>> /\ message.type = "command"
  /\ wire' = [wire EXCEPT ![doc].down = Tail(@)]
  /\ IF bridge.binding = NoBinding THEN UNCHANGED <<bridge, execs>>
     ELSE /\ bridge' = [bridge EXCEPT !.active = NewExecution]
          /\ execs' = Aborted(execs) \cup
               {[id |-> NewExecution, cmd |-> message.cmd, step |-> message.step,
                 phase |-> "detecting"]}
  /\ UNCHANGED <<run, doc, announcing, again, drops, history>>

(* executeCommand after executeStep: the outcome of an execution that is not
   the active one any more is dropped. *)
Report(e, type) ==
  /\ execs' = execs \ {e}
  /\ IF bridge.active = e.id
       THEN LET rest == [bridge EXCEPT !.active = 0] IN
            /\ wire' = [wire EXCEPT ![doc] =
                          PostEnvelope(rest, @, [type |-> type, nav |-> 0, cmd |-> e.cmd])]
            /\ bridge' = Numbered(rest, wire[doc])
       ELSE UNCHANGED <<wire, bridge>>
  /\ UNCHANGED <<run, doc, announcing, again, drops>>

(* executeStep fails: the signal, the deadline, the origin, the target or
   the postcondition. *)
StepFails(e) ==
  /\ Report(e, "failed")
  /\ UNCHANGED history

Operate(e) ==
  /\ e.phase = "detecting"
  /\ execs' = (execs \ {e}) \cup {[e EXCEPT !.phase = "waiting"]}
  /\ performed' = [performed EXCEPT ![e.step] = @ + 1]
  /\ UNCHANGED <<run, doc, wire, bridge, announcing, again, drops, rewound>>

StepCompletes(e) ==
  /\ e.phase = "waiting"
  /\ Report(e, "completed")
  /\ UNCHANGED history

(* Ports, documents and bindings are followed until the run has ended and
   no execution is left (bounds the model). *)
Followed == run.status \notin {"completed", "failed"} \/ execs # {}

(* The port's onDisconnect; Connect is the timer it sets, and start(). *)
LosePort ==
  /\ bridge' = [bridge EXCEPT !.binding = NoBinding, !.active = 0]
  /\ execs' = Aborted(execs)
  /\ wire' = [wire EXCEPT ![doc] = Closed]

PortDrops ==
  /\ Followed /\ wire[doc].open /\ drops < MaxDrops
  /\ drops' = drops + 1
  /\ LosePort
  /\ UNCHANGED <<run, doc, announcing, again, history>>

Stop ==
  /\ Followed /\ bridge.started
  /\ bridge' = [bridge EXCEPT !.started = FALSE, !.binding = NoBinding, !.active = 0]
  /\ execs' = Aborted(execs)
  /\ wire' = [wire EXCEPT ![doc] = Closed]
  /\ UNCHANGED <<run, doc, announcing, again, drops, history>>

----------------------------------------------------------------------------
(* The coordinator: from a record and a port to the ones it leaves.        *)

Active == run.status \notin {"opening", "completed", "failed"}
Pending == {"effect", "navigation"}

Failed(R) == [R EXCEPT !.status = "failed", !.cmd = 0]

CommandUnnumbered(R) == [type |-> "command", cmd |-> 0, step |-> R.step]

(* prepareNextStep, or completePendingStep when a step follows: the command
   is prepared, made durable and posted. *)
CommandOf(R) == [type |-> "command", cmd |-> R.cmd, step |-> R.step]

NextCommand(R) ==
  [R EXCEPT !.cmd = R.step, !.pend = R.exec, !.attest = FALSE,
            !.status = IF Ops[R.step] = "navigate" THEN "navigation" ELSE "effect"]

AwaitsConfirmation(R) == R.step = R.plan.confirm /\ ~R.approved

(* confirmationRecord binds the page as the coordinator knows it. *)
PageOf(R) == [doc |-> R.exec, seq |-> R.last[R.exec], nav |-> R.nav]

Prepare(R) ==
  IF AwaitsConfirmation(R)
    THEN [R EXCEPT !.status = "confirm", !.bound = PageOf(R), !.cmd = 0]
    ELSE NextCommand(R)

CompletePending(R) ==
  IF R.step = Len(Ops) THEN [R EXCEPT !.status = "completed", !.cmd = 0]
  ELSE Prepare([R EXCEPT !.step = @ + 1, !.cmd = 0])

(* A command is posted whenever a handler leaves one it did not find. *)
Posted(ws, R) ==
  IF R.cmd # 0 /\ R.cmd # run.cmd /\ ws[doc].open
    THEN [ws EXCEPT ![doc].down = Append(@, CommandOf(R))] ELSE ws

(* resumeExecutionTab: the binding, and the pending command again if the
   action is safe; an unsafe one fails the run. *)
BindingOf(R, d) ==
  [type |-> "binding", last |-> R.last[d],
   nav |-> IF R.exec = 0 THEN 0 ELSE IF R.exec = d THEN R.nav ELSE R.nav + 1]

ResumeAlways(R, w) ==
  LET bound == [w EXCEPT !.down = Append(@, BindingOf(R, doc))] IN
  /\ run' = R
  /\ wire' = [wire EXCEPT ![doc] = IF R.status = "effect"
                 THEN [bound EXCEPT !.down = Append(@, CommandOf(R))] ELSE bound]

Resume(R, w) ==
  LET bound == [w EXCEPT !.down = Append(@, BindingOf(R, doc))] IN
  IF R.status # "effect"
    THEN run' = R /\ wire' = [wire EXCEPT ![doc] = bound]
  ELSE IF R.plan.safe
    THEN run' = R /\ wire' = [wire EXCEPT ![doc] = [bound EXCEPT !.down = Append(@, CommandOf(R))]]
  ELSE run' = Failed(R) /\ wire' = [wire EXCEPT ![doc] = bound]

(* connect, and bindPort *)
Connect ==
  /\ Followed /\ bridge.started /\ ~wire[doc].open
  /\ IF Active THEN Resume(run, [Closed EXCEPT !.open = TRUE])
     ELSE run' = run /\ wire' = [wire EXCEPT ![doc].open = TRUE]
  /\ UNCHANGED <<doc, bridge, announcing, execs, again, drops, history>>

(* openExecutionTab makes the tab of the run durable, and then resumes the
   tab if a port is bound already. *)
OpenTab ==
  /\ run.status = "opening"
  /\ run' = [run EXCEPT !.status = "page"]
  /\ again' = TRUE
  /\ UNCHANGED <<doc, wire, bridge, announcing, execs, drops, history>>

OpenedNotResumed ==
  /\ again
  /\ again' = FALSE
  /\ UNCHANGED <<run, wire, doc, bridge, announcing, execs, drops, history>>

ResumeOpened ==
  /\ again
  /\ again' = FALSE
  /\ IF wire[doc].open /\ Active THEN Resume(run, wire[doc]) ELSE UNCHANGED <<run, wire>>
  /\ UNCHANGED <<doc, bridge, announcing, execs, drops, history>>

(* The approval of a step on the page it was asked for; the page has to
   attest itself again. *)
Approve ==
  LET R == [run EXCEPT !.status = "page", !.approved = TRUE, !.attest = TRUE] IN
  /\ run.status = "confirm"
  /\ IF run.bound # PageOf(run) THEN run' = Failed(run) /\ UNCHANGED wire
     ELSE IF wire[doc].open THEN Resume(R, wire[doc]) ELSE run' = R /\ UNCHANGED wire
  /\ UNCHANGED <<doc, bridge, announcing, execs, again, drops, history>>

(* acceptEvent *)
InOrder(R, d, message) == message.seq > R.last[d]

(* handlePageReady; `good` stands for the checks of the url, the state and
   the precondition, `moved` for a page that shows the pending effect.  An
   event older than the last navigation throws. *)
HandlePage(R, d, message, good, moved) ==
  LET here == [R EXCEPT !.exec = d, !.nav = message.nav] IN
  IF ~good THEN Failed(here)
  ELSE IF message.nav < R.nav THEN R
  ELSE IF R.attest /\ (message.seq <= R.bound.seq \/ message.nav # R.bound.nav)
    THEN Failed(here)
  ELSE IF R.status = "navigation" /\ moved THEN CompletePending(here)
  ELSE IF R.status = "page" THEN Prepare([here EXCEPT !.attest = FALSE])
  ELSE here

ReportOfAnyCommand(R, d, message) ==
  IF R.status \notin Pending THEN R
  ELSE CASE message.type = "completed" -> CompletePending(R)
         [] message.type = "failed" -> Failed(R)
         [] message.type = "replaced" -> IF R.status = "navigation" THEN R ELSE Failed(R)

(* handleStepCompleted and handleStepFailed: the report must be of the
   pending command and of the document it was prepared for. *)
HandleReport(R, d, message) ==
  IF message.cmd # R.cmd \/ R.status \notin Pending \/ R.pend # d THEN R
  ELSE CASE message.type = "completed" -> CompletePending(R)
         [] message.type = "failed" -> Failed(R)
         [] message.type = "replaced" -> IF R.status = "navigation" THEN R ELSE Failed(R)

(* validateInboundMessage takes a completion with five keys and the actor of
   this tree sends seven: Refused is {TRUE} for that actor, {FALSE} for one
   with the five. *)
Validated(message, refused) == message.type = "completed" => ~refused

(* receive, and receiveActorEvent for a message that is valid *)
ReceiveReport(d) ==
  LET message == Head(wire[d].up)
      taken == [wire EXCEPT ![d].up = Tail(@)]
      R == [run EXCEPT !.last[d] = message.seq] IN
  /\ wire[d].up # <<>>
  /\ \E refused \in Refused :
       IF ~Validated(message, refused) \/ ~Active \/ ~InOrder(run, d, message)
         THEN run' = run /\ wire' = taken
       ELSE \E good, moved \in BOOLEAN :
              /\ run' = IF message.type = "page" THEN HandlePage(R, d, message, good, moved)
                        ELSE HandleReport(R, d, message)
              /\ wire' = Posted(taken, run')
  /\ UNCHANGED <<doc, bridge, announcing, execs, again, drops, history>>

(* A deadline, or a cancellation of the run: the actor is not told. *)
RunEnds ==
  /\ Active
  /\ run' = Failed(run)
  /\ UNCHANGED <<doc, wire, bridge, announcing, execs, again, drops, history>>

(* The page is replaced: pagehide ends the execution with "replaced", which
   the closing port may still carry; the new document starts afresh.  What
   was posted before may reach the worker or be lost with the port. *)
Navigate ==
  LET active == {e \in execs : e.id = bridge.active}
      Replaced(e) == [type |-> "replaced", nav |-> 0, cmd |-> e.cmd]
      last == IF active = {} THEN wire[doc]
              ELSE PostEnvelope(bridge, wire[doc], Replaced(CHOOSE e \in active : TRUE)) IN
  /\ Followed /\ doc < MaxDocs
  /\ doc' = doc + 1
  /\ \E n \in 0..Len(last.up) :
       wire' = [wire EXCEPT ![doc] = [Closed EXCEPT !.up = SubSeq(last.up, 1, n)]]
  /\ bridge' = Fresh
  /\ announcing' = {}
  /\ execs' = {}
  /\ UNCHANGED <<run, again, drops, history>>

----------------------------------------------------------------------------
Actor ==
  \/ ReceiveBinding \/ ReceiveCommand
  \/ \E current \in announcing : Announce(current)
  \/ \E e \in execs : StepFails(e) \/ Operate(e) \/ StepCompletes(e)

Coordinator == OpenTab \/ ResumeOpened \/ Approve \/ \E d \in Docs : ReceiveReport(d)

Next == Actor \/ Coordinator \/ Connect \/ PortDrops \/ Stop \/ RunEnds \/ Navigate

Spec == Init /\ [][Next]_vars

(* The page detects its state and the actor goes on, the worker answers, a
   lost port is opened again, a run opens its tab. *)
Fairness ==
  /\ WF_vars(ReceiveBinding) /\ WF_vars(ReceiveCommand)
  /\ WF_vars(\E current \in announcing : Announce(current))
  /\ WF_vars(Connect) /\ WF_vars(OpenTab) /\ WF_vars(ResumeOpened)
  /\ \A d \in Docs : WF_vars(ReceiveReport(d))

FairSpec == Spec /\ Fairness

----------------------------------------------------------------------------
Message(types) == [type : types, seq : Nat, nav : Nat, cmd : 0..Len(Ops)]

TypeOK ==
  /\ run.status \in {"opening", "page", "effect", "navigation", "confirm", "completed", "failed"}
  /\ run.step \in Steps /\ run.cmd \in 0..Len(Ops) /\ run.pend \in 0..MaxDocs
  /\ run.exec \in 0..MaxDocs /\ run.last \in [Docs -> Nat] /\ run.nav \in Nat
  /\ doc \in Docs
  /\ \A d \in Docs :
       wire[d].up \in Seq(Message({"page", "completed", "failed", "replaced"}))
  /\ bridge.seq \in Nat
  /\ \A e \in execs : e.step \in Steps /\ e.cmd = e.step
  /\ performed \in [Steps -> Nat]

(* An operation on the page is performed only by the command the bridge
   holds as active: one overtaken by a newer command, a new binding or a
   lost port does nothing more to the page (executeCommand and check()). *)
OnlyActiveActs ==
  [][\A s \in Steps : performed'[s] > performed[s] =>
       \E e \in execs : e.id = bridge.active /\ e.step = s]_vars

(* The operation of a step that may not be repeated is performed at most
   once, over lost ports, replaced documents, rebinding and redelivery
   (resumeExecutionTab and executeCommand together). *)
UnsafePerformedOnce == ~run.plan.safe => \A s \in Steps : performed[s] <= 1

(* The coordinator takes a step of the page's own for done only after the
   actor has performed its operation: no report of another command, another
   document or an aborted execution counts for it. *)
TakenStepsWerePerformed ==
  \A s \in Steps :
    Ops[s] = "act" /\ (run.step > s \/ run.status = "completed") => performed[s] > 0

(* A run that waits for its page is not left waiting while the document's
   bridge runs: some binding of the document that stays is announced, and
   the coordinator takes the announcement (announcePage, handlePageReady).
   A binding that takes the sequence back is the exception: then a late
   report uses up the number of the announcement (OutcomeInOrder). *)
PageWaitEnds ==
  run.status = "page" ~> (run.status # "page" \/ ~bridge.started \/ rewound)

(* system-contract.md:181: every message has a monotonic sequence.  What the
   actor reports of the pending command is newer than what the coordinator
   has accepted of the document. *)
OutcomeInOrder ==
  \A d \in Docs : wire[d].up # <<>> /\ Active =>
    LET message == Head(wire[d].up) IN
    message.type = "completed" /\ message.cmd = run.cmd /\ run.pend = d
      => message.seq > run.last[d]

(* run-message.schema.json:361-373: a completion carries the seven keys the
   actor sends.  One of the pending command, of the document it was prepared
   for and in order ends the wait for it, unless it is
   lost with its document or port (handleStepCompleted). *)
CompletionTaken ==
  [][\A d \in Docs :
       /\ Active /\ wire[d].up # <<>> /\ wire'[d].up = Tail(wire[d].up)
       /\ doc' = doc /\ bridge' = bridge /\ drops' = drops
       =>
         LET message == Head(wire[d].up) IN
         message.type = "completed" /\ message.cmd = run.cmd /\ run.pend = d
           /\ run.status \in Pending /\ InOrder(run, d, message)
           => run'.cmd # run.cmd]_vars
=============================================================================
