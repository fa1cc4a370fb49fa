-------------------------- MODULE RunCoordinatorProofs --------------------------
(* Theorems about RunCoordinator, for every plan and every bound: the records it keeps, and *)
(* what a run may do: it is confirmed before it acts, completes on evidence and moves only  *)
(* as its table allows.                                                                      *)
EXTENDS RunCoordinator, SequenceTheorems, TLAPS

-------------------------------------------------------------------------------
(* Records *)

LEMMA NoRunType == NoRun \in Record /\ CreatedRun \in Record /\ NoEvent \in Event
  BY DEF NoRun, CreatedRun, NoEvent, Record, Event, Command, Confirmation, NoCommand,
         NoConfirmation, Statuses, Terminal

LEMMA MoveType ==
  ASSUME NEW R \in Record, NEW s \in Statuses
  PROVE  Move(R, s) \in Record /\ End(R, s) \in Record
  BY DEF Move, End, Record

LEMMA AcceptType ==
  ASSUME NEW R \in Record, NEW d \in Docs \cup {0}, NEW seq \in Nat
  PROVE  Accept(R, d, seq) \in Record
  BY DEF Accept, Record

LEMMA AskType ==
  ASSUME NEW R \in Record, NEW r \in Runs
  PROVE  AskConfirmation(r, R) \in Record
  <1> DEFINE d == IF Plan[r].confirm = "before_run" THEN 0 ELSE R.doc
  <1> DEFINE C == [state |-> "requested", doc |-> d, rev |-> R.rev,
                   seq |-> IF d = 0 THEN 0 ELSE R.last[d]]
  <1>1. C \in Confirmation
    BY DEF Confirmation, Record
  <1>2. Move(R, "awaiting_confirmation") \in Record
    BY MoveType DEF Statuses
  <1> HIDE DEF C
  <1>3. [Move(R, "awaiting_confirmation") EXCEPT !.asked = FALSE, !.conf = C] \in Record
    BY <1>1, <1>2 DEF Record
  <1> QED BY <1>3 DEF AskConfirmation, C

LEMMA StatusTypes ==
  ASSUME NEW r \in Runs, NEW i
  PROVE  CommandStatus(r, i) \in Statuses /\ WaitingStatus(r, i) \in Statuses
  BY DEF CommandStatus, WaitingStatus, Statuses

LEMMA DispatchedType ==
  ASSUME NEW R \in Record, NEW r \in Runs
  PROVE  [R EXCEPT !.status = WaitingStatus(r, R.step), !.pending.sent = TRUE] \in Record
  <1>1. [R.pending EXCEPT !.sent = TRUE] \in Command
    BY DEF Record, Command
  <1>2. WaitingStatus(r, R.step) \in Statuses
    BY StatusTypes
  <1> QED BY <1>1, <1>2 DEF Record

-------------------------------------------------------------------------------
(* What tasks do *)

LEMMA IssueType ==
  ASSUME TasksOK, NEW queued \in Seq(Tasks), NEW r \in Runs, NEW c \in Ctx,
         NEW label \in Labels, NEW R \in Record, Issue(queued, r, c, label, R)
  PROVE  TasksOK'
  BY DEF TasksOK, Issue, Tasks

LEMMA AwaitType ==
  ASSUME TasksOK, NEW queued \in Seq(Tasks), NEW r \in Runs, NEW c \in Ctx,
         NEW label \in Labels, Await(queued, r, c, label)
  PROVE  TasksOK'
  BY DEF TasksOK, Await, Tasks

LEMMA DoneStartingType ==
  ASSUME TasksOK, NEW queued \in Seq(Tasks), NEW r \in Runs, NEW c \in Ctx,
         NEW spawned \in SUBSET (Runs \X {"resume", "observe"}),
         DoneStarting(queued, r, c, spawned)
  PROVE  TasksOK'
  <1>1. \A t \in spawned : t[2] \in Labels
    BY DEF Labels, Awaiting
  <1>2. pc' \in [Tasks -> Labels]
    BY <1>1 DEF TasksOK, DoneStarting, Labels, Awaiting
  <1>3. rec' \in [Tasks -> Record] /\ event' \in [Runs -> Event]
    BY NoRunType DEF TasksOK, DoneStarting, Tasks
  <1> QED BY <1>2, <1>3 DEF TasksOK, DoneStarting, Tasks

LEMMA DoneType ==
  ASSUME TasksOK, NEW queued \in Seq(Tasks), NEW r \in Runs, NEW c \in Ctx,
         Done(queued, r, c)
  PROVE  TasksOK'
  BY DoneStartingType DEF Done

LEMMA ThrowType ==
  ASSUME TasksOK, NEW queued \in Seq(Tasks), NEW r \in Runs, NEW c \in Ctx,
         Throw(queued, r, c)
  PROVE  TasksOK'
  <1>1. CASE c # "recover"
    BY <1>1, DoneType DEF Throw
  <1>2. CASE c = "recover"
    <2>1. \A t \in Tasks : /\ pc'[t] \in {"idle", "given_up", pc[t]}
                           /\ rec'[t] \in {NoRun, rec[t]} /\ busy'[t] \in {{}, busy[t]}
      BY <1>2 DEF Throw
    <2>2. {"idle", "given_up"} \subseteq Labels
      BY DEF Labels, Awaiting
    <2>3. /\ pc' \in [Tasks -> Labels] /\ rec' \in [Tasks -> Record]
          /\ busy' \in [Tasks -> SUBSET Tabs] /\ event' = event /\ writes' = queued
      BY <1>2, <2>1, <2>2, NoRunType DEF Throw, TasksOK
    <2> QED BY <2>3 DEF TasksOK
  <1> QED BY <1>1, <1>2

LEMMA CommitType ==
  ASSUME RecordsOK, TasksOK, NEW r \in Runs, NEW c \in Ctx, NEW label,
         Commit(r, c, label)
  PROVE  RecordsOK' /\ Others \in Seq(Tasks) /\ rec[<<r, c>>] \in Record
  <1>1. rec[<<r, c>>] \in Record
    BY DEF TasksOK, Tasks
  <1>2. durable' \in [Runs -> SUBSET Nat]
    BY <1>1 DEF Commit, RecordsOK, Record, Command
  <1>3. fate' \in [Runs -> {"open", "ended", "reopened"}]
    BY DEF Commit, RecordsOK
  <1>4. Others \in Seq(Tasks)
    BY HeadTailProperties DEF Commit, Others, TasksOK
  <1> QED BY <1>1, <1>2, <1>3, <1>4 DEF Commit, RecordsOK

LEMMA NoCommitType == RecordsOK /\ NoCommit => RecordsOK'
  BY DEF RecordsOK, NoCommit

LEMMA FrameType ==
  /\ WorkerOK /\ UNCHANGED <<timerVars, workerVars, cmds>> => WorkerOK'
  /\ PortsOK /\ UNCHANGED <<sourceVars, tabVars>> => PortsOK'
  /\ HistoryOK /\ UNCHANGED <<postVars, histVars>> => HistoryOK'
  BY DEF WorkerOK, PortsOK, HistoryOK, timerVars, workerVars, sourceVars, tabVars, postVars,
         histVars

-------------------------------------------------------------------------------
(* Commands and tabs *)

LEMMA PostType ==
  ASSUME PortsOK, HistoryOK, NEW r \in Runs, NEW R \in Record, PostCommand(r, R),
         UNCHANGED histVars
  PROVE  HistoryOK'
  <1>1. CASE R.tab # NoTab /\ port[R.tab] # 0
    <2>1. R.tab \in Tabs /\ port[R.tab] \in Docs
      BY <1>1 DEF PortsOK, Record
    <2>2. R.pending.cmd \in Nat /\ R.step \in Nat
      BY DEF Record, Command
    <2>3. [cmd |-> R.pending.cmd, step |-> R.step, doc |-> port[R.tab]] \in Posting
      BY <2>1, <2>2 DEF Posting
    <2> QED BY <1>1, <2>2, <2>3 DEF PostCommand, HistoryOK, histVars
  <1>2. CASE ~(R.tab # NoTab /\ port[R.tab] # 0)
    BY <1>2 DEF PostCommand, HistoryOK, histVars, postVars
  <1> QED BY <1>1, <1>2

LEMMA DispatchType ==
  ASSUME TasksOK, PortsOK, HistoryOK, WorkerOK, NEW queued \in Seq(Tasks), NEW r \in Runs,
         NEW c \in Ctx, NEW R \in Record, Dispatch(queued, r, c, R), UNCHANGED histVars
  PROVE  TasksOK' /\ HistoryOK' /\ armed' \in [Runs -> BOOLEAN]
  <1>1. "dispatched" \in Labels
    BY DEF Labels, Saving
  <1> DEFINE later == R.status = "dispatching_step" \/ (R.status = "extracting" /\ ~R.pending.sent)
  <1>2. CASE later
    <2>1. UNCHANGED <<postVars, armed>>
          /\ Issue(queued, r, c, "dispatched",
                   [R EXCEPT !.status = WaitingStatus(r, R.step), !.pending.sent = TRUE])
      BY <1>2 DEF Dispatch
    <2> QED BY <1>1, <2>1, DispatchedType, IssueType, FrameType DEF WorkerOK
  <1>3. CASE ~later
    <2>1. /\ armed' = [armed EXCEPT ![r] = TRUE]
          /\ PostCommand(r, R)
          /\ Done(queued, r, c)
      BY <1>3 DEF Dispatch
    <2> QED BY <2>1, PostType, DoneType DEF WorkerOK
  <1> QED BY <1>2, <1>3

LEMMA StopRunsType ==
  ASSUME inbox \in [Runs -> SUBSET Stops], NEW t, NEW done, StopRunsOn(t, done)
  PROVE  inbox' \in [Runs -> SUBSET Stops]
  BY DEF StopRunsOn, Stops

LEMMA RemoveTabType ==
  ASSUME PortsOK, NEW t \in Tabs, RemoveTab(t), source' \in [Runs -> Sources],
         delivered' \in [Runs -> BOOLEAN]
  PROVE  PortsOK'
  BY DEF RemoveTab, PortsOK

LEMMA CloseExecutionTabType ==
  ASSUME PortsOK, WorkerOK, NEW r \in Runs, NEW R \in Record, CloseExecutionTab(r, R),
         DispatchTerminal(r, R), UNCHANGED source
  PROVE  PortsOK' /\ inbox' \in [Runs -> SUBSET Stops]
  <1>1. delivered' \in [Runs -> BOOLEAN] /\ source' \in [Runs -> Sources]
    BY DEF DispatchTerminal, PortsOK
  <1>2. CASE Plan[r].closes /\ R.tab # NoTab
    <2>1. R.tab \in Tabs
      BY <1>2 DEF Record
    <2> QED BY <1>1, <1>2, <2>1, RemoveTabType, StopRunsType DEF CloseExecutionTab, WorkerOK
  <1>3. CASE ~(Plan[r].closes /\ R.tab # NoTab)
    BY <1>1, <1>3 DEF CloseExecutionTab, PortsOK, WorkerOK, tabVars
  <1> QED BY <1>2, <1>3

-------------------------------------------------------------------------------
(* Every action keeps the types *)

LEMMA LabelTypes == Labels = {"idle"} \cup Saving \cup Awaiting
                    /\ Saving \subseteq Labels /\ Awaiting \subseteq Labels
  BY DEF Labels

LEMMA CopyType ==
  ASSUME TasksOK, NEW r \in Runs, NEW c \in Ctx
  PROVE  rec[<<r, c>>] \in Record /\ writes \in Seq(Tasks)
  BY DEF TasksOK, Tasks

LEMMA OccupyType ==
  ASSUME TasksOK, NEW r \in Runs, NEW c \in Ctx, NEW label \in Labels, NEW t \in Tabs,
         Occupy(r, c, label, t)
  PROVE  TasksOK'
  <1>1. Move(rec[<<r, c>>], "waiting_for_page") \in Record
    BY CopyType, MoveType DEF Statuses
  <1>2. [Move(rec[<<r, c>>], "waiting_for_page") EXCEPT !.tab = t, !.doc = 0, !.rev = TRUE]
          \in Record
    BY <1>1 DEF Record
  <1> QED BY <1>2, CopyType, IssueType DEF Occupy

LEMMA TabChoiceType ==
  ASSUME TasksOK, PortsOK, NEW r \in Runs, NEW c \in Ctx, NEW label \in Labels,
         NEW t \in Tabs, ReuseTab(r, c, label, t) \/ CreateTab(r, c, label, t),
         UNCHANGED sourceVars
  PROVE  TasksOK' /\ PortsOK'
  <1>1. TasksOK'
    BY OccupyType DEF ReuseTab, CreateTab
  <1>2. PortsOK'
    BY DEF ReuseTab, CreateTab, PortsOK, sourceVars, tabVars
  <1> QED BY <1>1, <1>2

\* The request task, and the same steps in other tasks.
LEMMA StartingType ==
  ASSUME TypeOK, NEW r \in Runs, NEW c \in Ctx, Starting(r, c)
  PROVE  TypeOK'
  <1> USE LabelTypes DEF TypeOK
  <1> rec[<<r, c>>] \in Record /\ writes \in Seq(Tasks)
    BY CopyType
  <1>1. CASE RunCreated(r, c)
    BY <1>1, CommitType, AwaitType, FrameType DEF RunCreated, Awaiting
  <1>2. CASE Resolve(r, c)
    <2>1. Move(rec[<<r, c>>], "policy_checked") \in Record
      BY MoveType DEF Statuses
    <2>2. TasksOK'
      BY <1>2, <2>1, IssueType, AwaitType DEF Resolve, Saving, Awaiting
    <2> QED BY <1>2, <2>2, NoCommitType, FrameType DEF Resolve
  <1>3. CASE PolicyChecked(r, c)
    <2>1. Move(rec[<<r, c>>], "opening_tab") \in Record
          /\ AskConfirmation(r, rec[<<r, c>>]) \in Record
      BY MoveType, AskType DEF Statuses
    <2>2. RecordsOK' /\ TasksOK'
      BY <1>3, <2>1, CommitType, IssueType DEF PolicyChecked, Saving
    <2>3. WorkerOK'
      BY <1>3 DEF PolicyChecked, WorkerOK, workerVars
    <2> QED BY <1>3, <2>2, <2>3, FrameType DEF PolicyChecked
  <1>4. CASE ConfirmationRequested(r, c)
    <2> DEFINE S == [rec[<<r, c>>] EXCEPT !.asked = TRUE]
    <2>1. S \in Record
      BY DEF Record
    <2>2. Commit(r, c, "confirm_requested") /\ Issue(Others, r, c, "last", S)
      BY <1>4 DEF ConfirmationRequested
    <2> HIDE DEF S
    <2>3. RecordsOK' /\ TasksOK'
      BY <2>1, <2>2, CommitType, IssueType DEF Saving
    <2> QED BY <1>4, <2>3, FrameType DEF ConfirmationRequested
  <1>5. CASE TabOpening(r, c)
    BY <1>5, CommitType, AwaitType, FrameType DEF TabOpening, Awaiting
  <1>6. CASE ListTabs(r, c)
    <2>1. InUse(r) \in SUBSET Tabs
      BY DEF InUse, RecordsOK, Record
    <2>2. TasksOK'
      BY <1>6, <2>1 DEF ListTabs, TasksOK, Tasks, Awaiting
    <2> QED BY <1>6, <2>2, NoCommitType, FrameType DEF ListTabs
  <1>7. CASE PickTab(r, c)
    <2>1. TasksOK' /\ PortsOK'
      BY <1>7, TabChoiceType, ThrowType, FrameType DEF PickTab, Saving
    <2> QED BY <1>7, <2>1, NoCommitType, FrameType DEF PickTab
  <1>8. CASE TabOccupied(r, c)
    <2> DEFINE S == [rec[<<r, c>>] EXCEPT !.accepted = TRUE]
    <2>1. S \in Record
      BY DEF Record
    <2>2. \/ Commit(r, c, "waiting") /\ Issue(Others, r, c, "accepted", S)
          \/ Commit(r, c, "repicked") /\ Issue(Others, r, c, "reaccepted", S)
      BY <1>8 DEF TabOccupied
    <2> HIDE DEF S
    <2>3. RecordsOK' /\ TasksOK'
      BY <2>1, <2>2, CommitType, IssueType DEF Saving
    <2> QED BY <1>8, <2>3, FrameType DEF TabOccupied
  <1>9. CASE Accepted(r, c)
    <2>1. TasksOK' /\ RecordsOK'
      BY <1>9, CommitType, DoneStartingType, DoneType DEF Accepted
    <2> QED BY <1>9, <2>1, FrameType DEF Accepted
  <1> QED BY <1>1, <1>2, <1>3, <1>4, <1>5, <1>6, <1>7, <1>8, <1>9 DEF Starting

LEMMA CompletePendingType ==
  ASSUME TasksOK, Others \in Seq(Tasks), NEW r \in Runs, NEW R \in Record,
         CompletePending(r, R)
  PROVE  TasksOK'
  <1> DEFINE S == [R EXCEPT !.step = @ + 1, !.pending = NoCommand,
                            !.rev = event[r].type # "page"]
  <1>1. S \in Record
    <2>1. NoCommand \in Command
      BY DEF NoCommand, Command
    <2>2. R.step + 1 \in Nat /\ (event[r].type # "page") \in BOOLEAN
      BY DEF Record
    <2>3. \A n \in Nat, p \in Command, b \in BOOLEAN :
            [R EXCEPT !.step = n, !.pending = p, !.rev = b] \in Record
      BY DEF Record
    <2> QED BY <2>1, <2>2, <2>3
  <1>2. \/ Issue(Others, r, "queue", "finishing", S)
        \/ Issue(Others, r, "queue", "confirm_requested", AskConfirmation(r, S))
        \/ Issue(Others, r, "queue", "advanced", Move(S, CommandStatus(r, S.step)))
    BY DEF CompletePending
  <1> HIDE DEF S
  <1>3. AskConfirmation(r, S) \in Record /\ Move(S, CommandStatus(r, S.step)) \in Record
    BY <1>1, AskType, MoveType, StatusTypes
  <1> QED BY <1>1, <1>2, <1>3, IssueType, LabelTypes DEF Saving, Ctx

LEMMA PageContinuesType ==
  ASSUME TasksOK, Others \in Seq(Tasks), NEW r \in Runs, NEW R \in Record, NEW e,
         PageContinues(r, R, e)
  PROVE  TasksOK'
  <1>1. \/ CompletePending(r, R)
        \/ Done(Others, r, "queue")
        \/ Await(Others, r, "queue", "fail")
        \/ Await(Others, r, "queue", "prepare")
        \/ Throw(Others, r, "queue")
        \/ Issue(Others, r, "queue", "confirm_requested", AskConfirmation(r, R))
    BY DEF PageContinues, PrepareNext
  <1> QED BY <1>1, CompletePendingType, DoneType, AwaitType, ThrowType, IssueType, AskType,
             LabelTypes DEF Saving, Awaiting, Ctx

LEMMA EventSavedType ==
  ASSUME TypeOK, NEW r \in Runs, EventSaved(r)
  PROVE  TypeOK'
  <1> DEFINE R == rec[<<r, "queue">>]
             e == event[r]
  <1> USE LabelTypes DEF TypeOK
  <1>1. R \in Record /\ "queue" \in Ctx /\ e.doc \in Docs \cup {0}
    BY CopyType DEF Ctx, TasksOK, Event
  <1>2. RecordsOK' /\ Others \in Seq(Tasks)
    BY <1>1, CommitType DEF EventSaved
  <1>3. CASE e.type = "page" /\ PageEventSaved(r, R, e)
    <2> DEFINE S == [R EXCEPT !.doc = e.doc, !.rev = TRUE]
    <2>1. S \in Record
      BY <1>1 DEF Record
    <2>2. \/ Await(Others, r, "queue", "fail")
          \/ Throw(Others, r, "queue")
          \/ Issue(Others, r, "queue", "page_saved", S)
      BY <1>3 DEF PageEventSaved
    <2> HIDE DEF S
    <2> QED BY <1>1, <1>2, <2>1, <2>2, AwaitType, ThrowType, IssueType, FrameType
            DEF EventSaved, Saving, Awaiting
  <1>4. CASE e.type = "completed" /\ CompletedEventSaved(r, R, e)
    <2>1. TasksOK'
      BY <1>1, <1>2, <1>4, DoneType, AwaitType, CompletePendingType
      DEF CompletedEventSaved, Awaiting
    <2> QED BY <1>2, <2>1, FrameType DEF EventSaved
  <1>5. CASE e.type = "failed" /\ FailedEventSaved(r, R, e)
    <2>1. TasksOK'
      BY <1>1, <1>2, <1>5, DoneType, AwaitType DEF FailedEventSaved, Awaiting
    <2> QED BY <1>2, <2>1, FrameType DEF EventSaved
  <1>6. CASE e.type = "cancel" /\ Await(Others, r, "queue", "fail")
    BY <1>1, <1>2, <1>6, AwaitType, FrameType DEF EventSaved, Awaiting
  <1>7. CASE e.type = "confirm" /\ ConfirmEventSaved(r, R, e)
    <2>1. TasksOK'
      BY <1>1, <1>2, <1>7, DoneType, AwaitType DEF ConfirmEventSaved, Awaiting
    <2> QED BY <1>2, <2>1, FrameType DEF EventSaved
  <1> QED BY <1>3, <1>4, <1>5, <1>6, <1>7 DEF EventSaved

LEMMA PageSavedType ==
  ASSUME TypeOK, NEW r \in Runs, PageSaved(r) \/ Attested(r)
  PROVE  TypeOK'
  <1> DEFINE R == rec[<<r, "queue">>]
             S == [R EXCEPT !.conf.state = "attested"]
  <1> USE LabelTypes DEF TypeOK
  <1>1. R \in Record /\ "queue" \in Ctx
    BY CopyType DEF Ctx
  <1>2. RecordsOK' /\ Others \in Seq(Tasks)
    BY <1>1, CommitType DEF PageSaved, Attested
  <1>3. S \in Record
    <2>1. [R.conf EXCEPT !.state = "attested"] \in Confirmation
      BY <1>1 DEF Record, Confirmation
    <2> QED BY <1>1, <2>1 DEF Record
  <1>4. \/ Issue(Others, r, "queue", "attested", S)
        \/ Await(Others, r, "queue", "fail")
        \/ PageContinues(r, R, event[r])
    BY DEF PageSaved, Attested
  <1> HIDE DEF S
  <1>5. TasksOK'
    BY <1>1, <1>2, <1>3, <1>4, IssueType, AwaitType, PageContinuesType DEF Saving, Awaiting
  <1> QED BY <1>2, <1>5, FrameType DEF PageSaved, Attested

LEMMA PrepareType ==
  ASSUME TypeOK, NEW r \in Runs, Prepare(r)
  PROVE  TypeOK'
  <1> DEFINE R == rec[<<r, "queue">>]
             P == [cmd |-> cmds[r] + 1, doc |-> R.doc, sent |-> FALSE]
             S == [R EXCEPT !.pending = P]
  <1> USE DEF TypeOK
  <1>1. R \in Record /\ "queue" \in Ctx /\ writes \in Seq(Tasks) /\ "prepared" \in Labels
    BY CopyType DEF Ctx, Labels, Saving
  <1>2. P \in Command
    <2>1. cmds[r] + 1 \in Nat
      BY DEF WorkerOK
    <2>2. R.doc \in Docs \cup {0}
      BY <1>1 DEF Record
    <2> QED BY <2>1, <2>2 DEF Command
  <1>3. \/ Issue(writes, r, "queue", "prepared", Move(S, CommandStatus(r, R.step)))
        \/ Issue(writes, r, "queue", "prepared", S)
    BY DEF Prepare
  <1>4. S \in Record
    <2> HIDE DEF P
    <2> QED BY <1>1, <1>2 DEF Record
  <1> HIDE DEF S
  <1>5. TasksOK'
    BY <1>1, <1>3, <1>4, MoveType, StatusTypes, IssueType
  <1>6. WorkerOK'
    BY DEF Prepare, WorkerOK, timerVars, workerVars
  <1> QED BY <1>5, <1>6, NoCommitType, FrameType DEF Prepare

LEMMA DispatchedStepType ==
  ASSUME TypeOK, NEW r \in Runs, NEW c \in Ctx, Prepared(r) \/ Dispatched(r, c)
  PROVE  TypeOK'
  <1> USE DEF TypeOK
  <1>1. "queue" \in Ctx /\ \A k \in Ctx : rec[<<r, k>>] \in Record
    BY CopyType DEF Ctx
  <1>2. CASE Prepared(r)
    <2>1. RecordsOK' /\ Others \in Seq(Tasks)
      BY <1>1, <1>2, CommitType DEF Prepared
    <2>2. TasksOK' /\ HistoryOK' /\ armed' \in [Runs -> BOOLEAN]
      BY <1>1, <1>2, <2>1, DispatchType DEF Prepared
    <2>3. WorkerOK' /\ PortsOK'
      BY <1>2, <2>2, FrameType DEF Prepared, WorkerOK, workerVars
    <2> QED BY <2>1, <2>2, <2>3
  <1>3. CASE Dispatched(r, c)
    <2>1. RecordsOK' /\ Others \in Seq(Tasks)
      BY <1>3, CommitType DEF Dispatched
    <2>2. TasksOK' /\ HistoryOK'
      BY <1>1, <1>3, <2>1, DoneType, PostType DEF Dispatched
    <2>3. WorkerOK' /\ PortsOK'
      BY <1>3, FrameType DEF Dispatched, WorkerOK, workerVars
    <2> QED BY <2>1, <2>2, <2>3
  <1> QED BY <1>2, <1>3

LEMMA TakeStopType ==
  ASSUME TypeOK, NEW r \in Runs, NEW k \in Stops, TakeStop(r, k)
  PROVE  TypeOK'
  <1> USE DEF TypeOK
  <1>1. [NoEvent EXCEPT !.type = "stop"] \in Event
    BY DEF NoEvent, Event
  <1>2. pc' \in [Tasks -> Labels] /\ event' \in [Runs -> Event]
    BY <1>1 DEF TakeStop, TasksOK, Tasks, Labels, Awaiting
  <1>3. TasksOK'
    BY <1>2 DEF TakeStop, TasksOK
  <1>4. WorkerOK'
    BY DEF TakeStop, WorkerOK, workerVars
  <1> QED BY <1>3, <1>4, NoCommitType, FrameType DEF TakeStop

LEMMA HandlingType ==
  ASSUME TypeOK, NEW r \in Runs, Handling(r)
  PROVE  TypeOK'
  <1> USE LabelTypes DEF TypeOK
  <1> DEFINE R == rec[<<r, "queue">>]
  <1>0. R \in Record /\ "queue" \in Ctx /\ writes \in Seq(Tasks)
    BY CopyType DEF Ctx
  <1>1. CASE EventLoaded(r)
    <2>1. TasksOK'
      BY <1>0, <1>1, IssueType DEF EventLoaded, Saving
    <2> QED BY <1>1, <2>1, NoCommitType, FrameType DEF EventLoaded
  <1>2. CASE StepAdvanced(r)
    <2>1. RecordsOK' /\ TasksOK'
      BY <1>0, <1>2, CommitType, AwaitType DEF StepAdvanced, Awaiting
    <2> QED BY <1>2, <2>1, FrameType DEF StepAdvanced
  <1>3. CASE LastStepSaved(r)
    <2>1. End(R, "completed") \in Record
      BY <1>0, MoveType DEF Statuses, Terminal
    <2>2. RecordsOK' /\ TasksOK'
      BY <1>0, <1>3, <2>1, CommitType, IssueType DEF LastStepSaved, Saving
    <2> QED BY <1>3, <2>2, FrameType DEF LastStepSaved
  <1>4. CASE Reauthorize(r)
    <2>1. \A s \in Statuses, st \in {"approved", "attested"} :
            [Move(R, s) EXCEPT !.conf.state = st] \in Record
      <3> SUFFICES ASSUME NEW s \in Statuses, NEW st \in {"approved", "attested"}
                   PROVE  [Move(R, s) EXCEPT !.conf.state = st] \in Record
        OBVIOUS
      <3>1. Move(R, s) \in Record
        BY <1>0, MoveType
      <3>2. [Move(R, s).conf EXCEPT !.state = st] \in Confirmation
        BY <3>1 DEF Record, Confirmation
      <3> QED BY <3>1, <3>2 DEF Record
    <2>2. /\ [Move(R, "opening_tab") EXCEPT !.conf.state = "attested"] \in Record
          /\ [Move(R, "waiting_for_page") EXCEPT !.conf.state = "approved"] \in Record
      BY <2>1 DEF Statuses
    <2>3. TasksOK'
      BY <1>0, <1>4, <2>2, IssueType, AwaitType DEF Reauthorize, Saving, Awaiting
    <2> QED BY <1>4, <2>3, NoCommitType, FrameType DEF Reauthorize
  <1>5. CASE Approved(r)
    <2>1. RecordsOK' /\ TasksOK'
      BY <1>0, <1>5, CommitType, DoneType DEF Approved
    <2> QED BY <1>5, <2>1, FrameType DEF Approved
  <1> QED BY <1>1, <1>2, <1>3, <1>4, <1>5, <1>0, EventSavedType, PageSavedType, PrepareType,
             DispatchedStepType DEF Handling

LEMMA EndingType ==
  ASSUME TypeOK, NEW r \in Runs, NEW c \in Ctx, Ending(r, c)
  PROVE  TypeOK'
  <1> USE LabelTypes DEF TypeOK
  <1>0. rec[<<r, c>>] \in Record /\ writes \in Seq(Tasks) /\ store[r] \in Record
    BY CopyType DEF RecordsOK
  <1>1. CASE Fail(r, c)
    <2>1. \A s \in {"cancelled", "failed"} : End(store[r], s) \in Record
      BY <1>0, MoveType DEF Statuses, Terminal
    <2>2. TasksOK'
      BY <1>0, <1>1, <2>1, IssueType, DoneType DEF Fail, Saving
    <2> QED BY <1>1, <2>2, NoCommitType, FrameType DEF Fail
  <1>2. CASE TerminalSaved(r, c)
    <2>1. RecordsOK' /\ TasksOK'
      BY <1>0, <1>2, CommitType, DoneStartingType DEF TerminalSaved
    <2>2. PortsOK' /\ inbox' \in [Runs -> SUBSET Stops]
      BY <1>0, <1>2, CloseExecutionTabType DEF TerminalSaved
    <2>3. WorkerOK'
      BY <1>2, <2>2 DEF TerminalSaved, WorkerOK, workerVars
    <2> QED BY <1>2, <2>1, <2>2, <2>3, FrameType DEF TerminalSaved
  <1>3. CASE LastSaved(r, c)
    <2>1. RecordsOK' /\ TasksOK'
      BY <1>0, <1>3, CommitType, DoneType DEF LastSaved
    <2> QED BY <1>3, <2>1, FrameType DEF LastSaved
  <1> QED BY <1>1, <1>2, <1>3, DispatchedStepType DEF Ending

LEMMA ObservingType ==
  ASSUME TypeOK, NEW r \in Runs, Observing(r)
  PROVE  TypeOK'
  <1> USE LabelTypes DEF TypeOK
  <1>0. "observe" \in Ctx /\ writes \in Seq(Tasks) /\ store[r] \in Record
    BY CopyType DEF RecordsOK, TasksOK, Ctx
  <1>1. CASE StoreObservation(r)
    <2>1. TasksOK'
      BY <1>0, <1>1, AwaitType, DoneType DEF StoreObservation, Awaiting
    <2> QED BY <1>1, <2>1, NoCommitType, FrameType DEF StoreObservation
  <1>2. CASE ObservationStored(r)
    <2> DEFINE S == [store[r] EXCEPT !.observed = TRUE]
    <2>1. S \in Record
      BY <1>0 DEF Record
    <2>2. Done(writes, r, "observe") \/ Issue(writes, r, "observe", "last", S)
      BY <1>2 DEF ObservationStored
    <2> HIDE DEF S
    <2>3. TasksOK'
      BY <1>0, <2>1, <2>2, IssueType, DoneType DEF Saving
    <2> QED BY <1>2, <2>3, NoCommitType, FrameType DEF ObservationStored
  <1> QED BY <1>1, <1>2 DEF Observing

LEMMA ResumeType ==
  ASSUME TypeOK, NEW r \in Runs, Resume(r)
  PROVE  TypeOK'
  <1> USE LabelTypes DEF TypeOK
  <1>0. "resume" \in Ctx /\ writes \in Seq(Tasks) /\ store[r] \in Record
    BY DEF RecordsOK, TasksOK, Ctx
  <1>1. \/ Dispatch(writes, r, "resume", store[r])
        \/ Await(writes, r, "resume", "fail") /\ UNCHANGED <<armed, postVars>>
        \/ Done(writes, r, "resume") /\ UNCHANGED <<armed, postVars>>
    BY DEF Resume
  <1>2. TasksOK' /\ HistoryOK' /\ armed' \in [Runs -> BOOLEAN]
    BY <1>0, <1>1, DispatchType, AwaitType, DoneType, FrameType DEF Resume, WorkerOK, Awaiting
  <1>3. WorkerOK' /\ PortsOK'
    BY <1>2, FrameType DEF Resume, WorkerOK, workerVars
  <1> QED BY <1>2, <1>3, NoCommitType DEF Resume

LEMMA RecoveringType ==
  ASSUME TypeOK, NEW r \in Runs, Recovering(r)
  PROVE  TypeOK'
  <1> USE LabelTypes DEF TypeOK
  <1> DEFINE R == rec[<<r, "recover">>]
  <1>0. /\ "recover" \in Ctx /\ writes \in Seq(Tasks)
        /\ R \in Record /\ store[r] \in Record
    BY CopyType DEF RecordsOK, TasksOK, Ctx
  <1>1. CASE RecoverTerminal(r)
    <2>1. TasksOK'
      BY <1>0, <1>1, DoneStartingType DEF RecoverTerminal
    <2>2. PortsOK' /\ inbox' \in [Runs -> SUBSET Stops]
      BY <1>0, <1>1, CloseExecutionTabType DEF RecoverTerminal
    <2>3. WorkerOK'
      BY <1>1, <2>2 DEF RecoverTerminal, WorkerOK, workerVars
    <2> QED BY <1>1, <2>1, <2>2, <2>3, NoCommitType, FrameType DEF RecoverTerminal
  <1>2. CASE RecoverActive(r)
    <2>1. TasksOK'
      BY <1>0, <1>2, AwaitType DEF RecoverActive, Awaiting
    <2>2. WorkerOK'
      BY <1>2 DEF RecoverActive, WorkerOK, workerVars
    <2> QED BY <1>2, <2>1, <2>2, NoCommitType, FrameType DEF RecoverActive
  <1>3. CASE RecoverRefused(r)
    <2>1. TasksOK'
      BY <1>0, <1>3, AwaitType DEF RecoverRefused, Awaiting
    <2> QED BY <1>3, <2>1, NoCommitType, FrameType DEF RecoverRefused
  <1>4. CASE RecoverOpening(r)
    <2>1. Move(R, "opening_tab") \in Record
      BY <1>0, MoveType DEF Statuses
    <2>2. TasksOK'
      BY <1>0, <1>4, <2>1, IssueType, AwaitType DEF RecoverOpening, Saving, Awaiting
    <2> QED BY <1>4, <2>2, NoCommitType, FrameType DEF RecoverOpening
  <1>5. CASE RepickTab(r)
    <2>1. TasksOK' /\ PortsOK'
      BY <1>0, <1>5, TabChoiceType, ThrowType, AwaitType, FrameType
      DEF RepickTab, Saving, Awaiting
    <2> QED BY <1>5, <2>1, NoCommitType, FrameType DEF RepickTab
  <1>6. CASE RecoverDispatch(r)
    <2>1. \/ Throw(writes, r, "recover") /\ UNCHANGED <<armed, postVars>>
          \/ Dispatch(writes, r, "recover", R)
      BY <1>6 DEF RecoverDispatch
    <2>2. TasksOK' /\ HistoryOK' /\ armed' \in [Runs -> BOOLEAN]
      BY <1>0, <1>6, <2>1, DispatchType, ThrowType, FrameType DEF RecoverDispatch, WorkerOK
    <2>3. WorkerOK' /\ PortsOK'
      BY <1>6, <2>2, FrameType DEF RecoverDispatch, WorkerOK, workerVars
    <2> QED BY <1>6, <2>2, <2>3, NoCommitType DEF RecoverDispatch
  <1>7. CASE RecoverWaiting(r)
    <2>1. TasksOK'
      BY <1>0, <1>7, DoneType DEF RecoverWaiting
    <2>2. WorkerOK'
      BY <1>7, StopRunsType DEF RecoverWaiting, WorkerOK, workerVars
    <2> QED BY <1>7, <2>1, <2>2, NoCommitType, FrameType DEF RecoverWaiting
  <1> QED BY <1>1, <1>2, <1>3, <1>4, <1>5, <1>6, <1>7 DEF Recovering

LEMMA TakeType ==
  ASSUME TypeOK, NEW r \in Runs, NEW e \in Event, NEW R \in Record, Take(r, e, R)
  PROVE  RecordsOK' /\ TasksOK' /\ WorkerOK' /\ PortsOK' /\ UNCHANGED postVars
  <1>1. TasksOK'
    BY DEF TypeOK, Take, TasksOK, Tasks, Labels, Awaiting
  <1> QED BY <1>1, NoCommitType, FrameType DEF TypeOK, Take

LEMMA EventType ==
  ASSUME NEW k \in {"page", "completed", "failed", "confirm", "cancel", "stop"},
         NEW d \in Docs \cup {0}, NEW n \in Nat, NEW m \in Nat, NEW o \in BOOLEAN,
         NEW v \in BOOLEAN, NEW s \in BOOLEAN
  PROVE  [NoEvent EXCEPT !.type = k, !.doc = d, !.seq = n, !.cmd = m, !.ok = o,
                         !.moved = v, !.scope = s] \in Event
  BY DEF NoEvent, Event

LEMMA PageReadyType ==
  ASSUME TypeOK, NEW r \in Runs, PageReady(r)
  PROVE  TypeOK'
  <1> USE DEF TypeOK
  <1>0. store[r] \in Record
    BY DEF RecordsOK
  <1>1. PICK d \in Docs, o \in PageOutcomes :
          /\ TakeActorEvent(r, [NoEvent EXCEPT !.type = "page", !.doc = d,
                                  !.seq = NextSeq(r, d), !.ok = o.ok, !.moved = o.moved,
                                  !.scope = o.scope])
          /\ evidence' = [evidence EXCEPT ![r] =
                            IF ShowsEffect(store[r], d, o) THEN @ \cup {store[r].step} ELSE @]
    BY DEF PageReady
  <1> DEFINE e == [NoEvent EXCEPT !.type = "page", !.doc = d, !.seq = NextSeq(r, d),
                                  !.ok = o.ok, !.moved = o.moved, !.scope = o.scope]
  <1>2. o.ok \in BOOLEAN /\ o.moved \in BOOLEAN /\ o.scope \in BOOLEAN
    BY DEF PageOutcomes
  <1>3. NextSeq(r, d) \in Nat
    BY <1>0 DEF NextSeq, Record
  <1>4. e \in Event /\ e.doc \in Docs \cup {0} /\ e.seq \in Nat
    BY <1>2, <1>3 DEF NoEvent, Event
  <1>5. TakeActorEvent(r, e)
    BY <1>1
  <1> HIDE DEF e
  <1>6. RecordsOK' /\ TasksOK' /\ WorkerOK' /\ PortsOK' /\ UNCHANGED postVars
    BY <1>0, <1>4, <1>5, AcceptType, TakeType DEF TakeActorEvent
  <1>7. evidence' \in [Runs -> SUBSET Nat]
    BY <1>0, <1>1 DEF HistoryOK, Record
  <1>8. gate' \in [Runs -> {"closed", "approved", "attested"}]
    BY DEF PageReady, HistoryOK
  <1> QED BY <1>6, <1>7, <1>8 DEF HistoryOK, postVars

LEMMA StepReportedType ==
  ASSUME TypeOK, NEW r \in Runs, StepReported(r)
  PROVE  TypeOK'
  <1> USE DEF TypeOK
  <1>0. store[r] \in Record
    BY DEF RecordsOK
  <1> DEFINE E(p, type, flag) ==
               [NoEvent EXCEPT !.type = type, !.doc = p.doc, !.seq = NextSeq(r, p.doc),
                  !.cmd = p.cmd, !.ok = (type = "completed" /\ flag),
                  !.moved = (type = "failed" /\ flag)]
  <1>1. PICK p \in posted[r], type \in {"completed", "failed"}, flag \in BOOLEAN :
          /\ TakeActorEvent(r, E(p, type, flag))
          /\ evidence' = [evidence EXCEPT ![r] =
                            IF E(p, type, flag).ok THEN @ \cup {p.step} ELSE @]
          /\ UNCHANGED gate
    BY DEF StepReported
  <1>2. p.doc \in Docs /\ p.cmd \in Nat /\ p.step \in Nat
    BY DEF HistoryOK, Posting
  <1>3. NextSeq(r, p.doc) \in Nat
    BY <1>0, <1>2 DEF NextSeq, Record
  <1> DEFINE e == E(p, type, flag)
  <1>4. e \in Event /\ e.doc \in Docs \cup {0} /\ e.seq \in Nat
    BY <1>2, <1>3 DEF NoEvent, Event
  <1>5. TakeActorEvent(r, e)
    BY <1>1
  <1>6. evidence' \in [Runs -> SUBSET Nat]
    BY <1>1, <1>2 DEF HistoryOK
  <1> HIDE DEF e
  <1>7. RecordsOK' /\ TasksOK' /\ WorkerOK' /\ PortsOK' /\ UNCHANGED postVars
    BY <1>0, <1>4, <1>5, AcceptType, TakeType DEF TakeActorEvent
  <1> QED BY <1>1, <1>6, <1>7 DEF HistoryOK, postVars

LEMMA EventsType ==
  ASSUME TypeOK, NEW r \in Runs, Events(r)
  PROVE  TypeOK'
  <1> USE DEF TypeOK
  <1>0. store[r] \in Record /\ writes \in Seq(Tasks)
        /\ "queue" \in Ctx /\ "request" \in Ctx
    BY DEF RecordsOK, TasksOK, Ctx
  <1>1. CASE Request(r)
    <2>1. TasksOK'
      BY <1>0, <1>1, NoRunType, IssueType DEF Request, Labels, Saving
    <2> QED BY <1>1, <2>1, NoCommitType, FrameType DEF Request
  <1>2. CASE Cancel(r)
    <2>1. [NoEvent EXCEPT !.type = "cancel"] \in Event
      BY DEF NoEvent, Event
    <2> QED BY <1>0, <1>2, <2>1, TakeType, FrameType DEF Cancel
  <1>3. ASSUME NEW ok \in BOOLEAN, Confirm(r, ok)
        PROVE  TypeOK'
    <2>1. [NoEvent EXCEPT !.type = "confirm", !.ok = ok] \in Event
      BY DEF NoEvent, Event
    <2>2. RecordsOK' /\ TasksOK' /\ WorkerOK' /\ PortsOK' /\ UNCHANGED postVars
      BY <1>0, <1>3, <2>1, TakeType DEF Confirm
    <2> QED BY <1>3, <2>2 DEF Confirm, HistoryOK, postVars
  <1>4. CASE Acknowledge(r)
    <2>1. [store[r] EXCEPT !.terminal = "acked"] \in Record
      BY <1>0 DEF Record
    <2>2. TasksOK'
      BY <1>0, <1>4, <2>1, IssueType DEF Acknowledge, Labels, Saving
    <2> QED BY <1>4, <2>2, NoCommitType, FrameType DEF Acknowledge
  <1> QED BY <1>1, <1>2, <1>3, <1>4, PageReadyType, StepReportedType DEF Events

LEMMA FaultType == WorkerOK /\ Fault => faults' \in Nat
  BY DEF WorkerOK, Fault

LEMMA EnvironmentType ==
  ASSUME TypeOK, Environment
  PROVE  TypeOK'
  <1> USE DEF TypeOK
  <1>1. CASE Crash
    <2>1. RecordsOK'
      <3>1. CASE NoCommit
        BY <3>1, NoCommitType
      <3>2. CASE writes # <<>> /\ Commit(Head(writes)[1], Head(writes)[2], pc[Head(writes)])
        <4>1. Head(writes) \in Tasks
          BY <3>2, HeadTailProperties DEF TasksOK
        <4>2. Head(writes)[1] \in Runs /\ Head(writes)[2] \in Ctx
          BY <4>1 DEF Tasks
        <4> QED BY <3>2, <4>2, CommitType
      <3> QED BY <1>1, <3>1, <3>2 DEF Crash
    <2>2. TasksOK'
      BY <1>1, NoRunType DEF Crash, TasksOK, Labels
    <2>3. WorkerOK'
      <3>1. faults' \in Nat /\ up' \in BOOLEAN
        BY <1>1, FaultType DEF Crash, WorkerOK
      <3>2. UNCHANGED <<due, cmds>>
        BY <1>1 DEF Crash
      <3>3. inbox' \in [Runs -> SUBSET Stops] /\ armed' \in [Runs -> BOOLEAN]
        BY <1>1 DEF Crash
      <3> QED BY <3>1, <3>2, <3>3 DEF WorkerOK
    <2>4. PortsOK'
      BY <1>1 DEF Crash, PortsOK, Sources
    <2> QED BY <1>1, <2>1, <2>2, <2>3, <2>4, FrameType DEF Crash
  <1>2. CASE WorkerStart
    <2>1. \A r \in Runs : InUse(r) \in SUBSET Tabs
      BY DEF InUse, RecordsOK, Record
    <2>2. pc' \in [Tasks -> Labels]
      BY <1>2 DEF WorkerStart, TasksOK, Labels, Awaiting
    <2>3. rec' \in [Tasks -> Record] /\ busy' \in [Tasks -> SUBSET Tabs]
      BY <1>2, <2>1 DEF WorkerStart, TasksOK, RecordsOK, Tasks
    <2>4. TasksOK'
      BY <1>2, <2>2, <2>3 DEF WorkerStart, TasksOK
    <2>5. WorkerOK'
      BY <1>2 DEF WorkerStart, WorkerOK, timerVars
    <2> QED BY <1>2, <2>4, <2>5, NoCommitType, FrameType DEF WorkerStart
  <1>3. ASSUME NEW t \in Tabs, NewDocument(t) \/ BindExecution(t)
        PROVE  TypeOK'
    <2>1. PortsOK'
      <3>1. CASE NewDocument(t)
        <4>1. docs[t] + 1 \in Docs
          BY <3>1, DomainAssumption DEF NewDocument, PortsOK, Docs
        <4> QED BY <3>1, <4>1 DEF NewDocument, PortsOK, sourceVars
      <3>2. CASE BindExecution(t)
        BY <3>2 DEF BindExecution, PortsOK, sourceVars
      <3> QED BY <1>3, <3>1, <3>2
    <2>2. TasksOK'
      BY <1>3 DEF NewDocument, BindExecution, TasksOK, taskVars, Labels, Awaiting
    <2>3. RecordsOK'
      BY <1>3, NoCommitType DEF NewDocument, BindExecution, NoCommit
    <2> QED BY <1>3, <2>1, <2>2, <2>3, FrameType DEF NewDocument, BindExecution
  <1>4. ASSUME NEW t \in Tabs, CloseTab(t) \/ \E d \in Docs : Unbind(t, d)
        PROVE  TypeOK'
    <2>1. PortsOK'
      BY <1>4 DEF CloseTab, Unbind, RemoveTab, PortsOK, sourceVars
    <2>2. WorkerOK'
      BY <1>4, StopRunsType DEF CloseTab, Unbind, Fault, WorkerOK, timerVars
    <2>3. RecordsOK' /\ TasksOK'
      BY <1>4, NoCommitType DEF CloseTab, Unbind, NoCommit, TasksOK, taskVars
    <2> QED BY <1>4, <2>1, <2>2, <2>3, FrameType DEF CloseTab, Unbind
  <1>5. ASSUME NEW r \in Runs,
               SourceDrop(r) \/ SourceExpire(r) \/ SourceBind(r) \/ SourceClose(r)
        PROVE  TypeOK'
    <2>1. /\ \E s \in Sources, stops \in BOOLEAN : SetSource(r, s, stops)
          /\ delivered' \in [Runs -> BOOLEAN] /\ faults' \in Nat
      <3> USE DEF Sources
      <3>1. CASE SourceDrop(r)
        BY <3>1, FaultType DEF SourceDrop, PortsOK
      <3>2. CASE SourceExpire(r)
        BY <3>2 DEF SourceExpire, PortsOK, WorkerOK
      <3>3. CASE SourceBind(r)
        BY <3>3 DEF SourceBind, PortsOK, WorkerOK
      <3>4. CASE SourceClose(r)
        <4>1. up \in BOOLEAN
          BY DEF WorkerOK
        <4> QED BY <3>4, <4>1, FaultType DEF SourceClose, PortsOK
      <3> QED BY <1>5, <3>1, <3>2, <3>3, <3>4
    <2>2. PICK s \in Sources, stops \in BOOLEAN : SetSource(r, s, stops)
      BY <2>1
    <2>3. inbox' \in [Runs -> SUBSET Stops]
      BY <2>2 DEF SetSource, WorkerOK, Stops
    <2>4. PortsOK' /\ WorkerOK'
      BY <2>1, <2>2, <2>3 DEF SetSource, PortsOK, WorkerOK, tabVars
    <2>5. RecordsOK' /\ TasksOK' /\ HistoryOK'
      BY <2>2, NoCommitType, FrameType DEF SetSource, NoCommit, TasksOK, taskVars
    <2> QED BY <2>4, <2>5
  <1>6. ASSUME NEW r \in Runs, FireTimer(r)
        PROVE  TypeOK'
    <2>1. WorkerOK'
      BY <1>6 DEF FireTimer, WorkerOK, workerVars, Stops
    <2>2. RecordsOK' /\ TasksOK'
      BY <1>6, NoCommitType DEF FireTimer, NoCommit, TasksOK, taskVars
    <2> QED BY <1>6, <2>1, <2>2, FrameType DEF FireTimer
  <1> QED BY <1>1, <1>2, <1>3, <1>4, <1>5, <1>6 DEF Environment

LEMMA TypeInit == Init => TypeOK
  <1> SUFFICES ASSUME Init PROVE TypeOK
    OBVIOUS
  <1> USE NoRunType DEF Init
  <1>1. RecordsOK
    BY DEF RecordsOK
  <1>2. TasksOK
    BY DEF TasksOK, Labels
  <1>3. WorkerOK
    BY DEF WorkerOK
  <1>4. PortsOK
    BY DEF PortsOK, Sources
  <1>5. HistoryOK
    BY DEF HistoryOK
  <1> QED BY <1>1, <1>2, <1>3, <1>4, <1>5 DEF TypeOK

LEMMA TypeStep == TypeOK /\ [Next]_vars => TypeOK'
  <1> SUFFICES ASSUME TypeOK, [Next]_vars PROVE TypeOK'
    OBVIOUS
  <1>1. ASSUME NEW r \in Runs, NEW c \in Ctx, Working(r, c)
        PROVE  TypeOK'
    BY <1>1, StartingType, EndingType, HandlingType, TakeStopType, RecoveringType, ResumeType,
       ObservingType DEF Working
  <1>2. CASE UNCHANGED vars
    <2>1. RecordsOK' /\ TasksOK'
      BY <1>2 DEF vars, taskVars, TypeOK, RecordsOK, TasksOK
    <2> QED BY <1>2, <2>1, FrameType DEF vars, TypeOK
  <1> QED BY <1>1, <1>2, EventsType, EnvironmentType DEF Next

\* Whatever the plans and the bounds, every record that a task holds, saves or
\* leaves in storage is a record of run-state.js, and no command is ever posted
\* but to a document of an owned tab (run-state.js, run-coordinator.js).
THEOREM Typing == Spec => []TypeOK
  BY TypeInit, TypeStep, PTL DEF Spec

-------------------------------------------------------------------------------
(* Every posted command is durable *)

(***************************************************************************)
(* DispatchIsDurable is not inductive: a command may be posted again from  *)
(* a record that was loaded, and a task may post from a copy it saved long *)
(* before.  The strengthening says what a stored record and every copy owe *)
(* at each await: a record that waits for the effect of a command carries  *)
(* it as dispatched, what is stored as dispatched has been durable, and a  *)
(* task whose save is about to lead to a dispatch holds the record for it. *)
(***************************************************************************)
Sound(R) == R.status = "waiting_for_effect" /\ R.pending.cmd # 0 => R.pending.sent

Ready(label, R) ==
  /\ label \in {"prepared", "advanced", "prepare_next"} =>
       R.status \in {"dispatching_step", "extracting"}
  /\ label = "prepared" => ~R.pending.sent
  /\ label = "dispatched" => R.pending.sent

StoreSound ==
  \A r \in Runs : /\ Sound(store[r])
                  /\ store[r].pending.sent => store[r].pending.cmd \in durable[r]

CopiesSound == \A t \in Tasks : Sound(rec[t]) /\ Ready(pc[t], rec[t])

DispatchInv == TypeOK /\ DispatchIsDurable /\ StoreSound /\ CopiesSound

Plain == Labels \ {"prepared", "advanced", "prepare_next", "dispatched"}

LEMMA PlainIsReady == ASSUME NEW label \in Plain, NEW R PROVE Ready(label, R)
  BY DEF Plain, Ready

LEMMA NoRunSound == Sound(NoRun) /\ Sound(CreatedRun)
  BY DEF Sound, NoRun, CreatedRun, NoCommand

LEMMA MoveSound ==
  ASSUME NEW R \in Record, NEW s \in Statuses, s # "waiting_for_effect"
  PROVE  Sound(Move(R, s)) /\ Sound(End(R, s))
  BY DEF Sound, Move, End, Record

LEMMA AskSound ==
  ASSUME NEW R \in Record, NEW r \in Runs
  PROVE  Sound(AskConfirmation(r, R))
  <1>1. AskConfirmation(r, R).status = "awaiting_confirmation"
    BY DEF AskConfirmation, Move, Record
  <1> QED BY <1>1 DEF Sound

LEMMA IssueSound ==
  ASSUME TasksOK, CopiesSound, NEW queued, NEW r \in Runs, NEW c \in Ctx, NEW label,
         NEW R, Issue(queued, r, c, label, R), Sound(R), Ready(label, R)
  PROVE  CopiesSound'
  BY DEF TasksOK, CopiesSound, Issue

LEMMA AwaitSound ==
  ASSUME TasksOK, CopiesSound, NEW queued, NEW r \in Runs, NEW c \in Ctx, NEW label,
         Await(queued, r, c, label), label \in Plain \/ Ready(label, rec[<<r, c>>])
  PROVE  CopiesSound'
  BY PlainIsReady DEF TasksOK, CopiesSound, Await

LEMMA DoneStartingSound ==
  ASSUME TasksOK, CopiesSound, NEW queued, NEW r \in Runs, NEW c \in Ctx,
         NEW spawned \in SUBSET (Runs \X {"resume", "observe"}),
         DoneStarting(queued, r, c, spawned)
  PROVE  CopiesSound'
  <1>1. \A t \in Tasks : rec'[t] = NoRun \/ rec'[t] = rec[t]
    BY DEF TasksOK, DoneStarting
  <1>2. \A t \in Tasks : pc'[t] \in {"idle", "resume", "observe"}
                         \/ (pc'[t] = pc[t] /\ rec'[t] = rec[t])
    BY DEF TasksOK, DoneStarting
  <1>3. {"idle", "resume", "observe"} \subseteq Plain
    BY DEF Plain, Labels, Awaiting
  <1> QED BY <1>1, <1>2, <1>3, NoRunSound, PlainIsReady DEF CopiesSound

LEMMA DoneSound ==
  ASSUME TasksOK, CopiesSound, NEW queued, NEW r \in Runs, NEW c \in Ctx,
         Done(queued, r, c)
  PROVE  CopiesSound'
  BY DoneStartingSound DEF Done

LEMMA ThrowSound ==
  ASSUME TasksOK, CopiesSound, NEW queued, NEW r \in Runs, NEW c \in Ctx,
         Throw(queued, r, c)
  PROVE  CopiesSound'
  <1>1. CASE c # "recover"
    BY <1>1, DoneSound DEF Throw
  <1>2. CASE c = "recover"
    <2>1. \A t \in Tasks : \/ pc'[t] \in {"idle", "given_up"} /\ rec'[t] = NoRun
                           \/ pc'[t] = pc[t] /\ rec'[t] = rec[t]
      BY <1>2 DEF Throw
    <2> QED BY <2>1, NoRunSound, PlainIsReady DEF CopiesSound, Plain, Labels, Awaiting
  <1> QED BY <1>1, <1>2

LEMMA CommitSound ==
  ASSUME RecordsOK, TasksOK, StoreSound, CopiesSound, NEW r \in Runs, NEW c \in Ctx,
         NEW label, Commit(r, c, label)
  PROVE  /\ StoreSound'
         /\ \A q \in Runs : durable[q] \subseteq durable'[q]
         /\ Sound(rec[<<r, c>>]) /\ Ready(label, rec[<<r, c>>])
         /\ rec[<<r, c>>].pending.sent => rec[<<r, c>>].pending.cmd \in durable'[r]
  <1>1. Sound(rec[<<r, c>>]) /\ Ready(label, rec[<<r, c>>])
    BY DEF CopiesSound, Commit, Tasks
  <1>2. \A q \in Runs : durable[q] \subseteq durable'[q]
    BY DEF Commit, RecordsOK
  <1>3. rec[<<r, c>>].pending.sent => rec[<<r, c>>].pending.cmd \in durable'[r]
    BY DEF Commit, RecordsOK
  <1>4. \A q \in Runs : store'[q] = IF q = r THEN rec[<<r, c>>] ELSE store[q]
    BY DEF Commit, RecordsOK
  <1> QED BY <1>1, <1>2, <1>3, <1>4 DEF StoreSound

LEMMA NoCommitSound ==
  ASSUME NoCommit
  PROVE  (StoreSound => StoreSound') /\ \A q \in Runs : durable[q] \subseteq durable'[q]
  BY DEF NoCommit, StoreSound

\* Commands stay durable, and so does every command posted before.
LEMMA PostsSound ==
  ASSUME DispatchIsDurable, \A q \in Runs : durable[q] \subseteq durable'[q],
         UNCHANGED posted
  PROVE  DispatchIsDurable'
  BY DEF DispatchIsDurable

LEMMA PostSound ==
  ASSUME DispatchIsDurable, HistoryOK, \A q \in Runs : durable[q] \subseteq durable'[q],
         NEW r \in Runs, NEW R, PostCommand(r, R), R.pending.cmd \in durable'[r]
  PROVE  DispatchIsDurable'
  <1>1. \A q \in Runs : \A p \in posted'[q] :
          p \in posted[q] \/ (q = r /\ p.cmd = R.pending.cmd)
    BY DEF PostCommand, HistoryOK, postVars
  <1> QED BY <1>1 DEF DispatchIsDurable

LEMMA DispatchSound ==
  ASSUME TypeOK, CopiesSound, DispatchIsDurable, NEW queued, NEW r \in Runs, NEW c \in Ctx,
         NEW R \in Record, Dispatch(queued, r, c, R), Sound(R),
         R.status \in {"dispatching_step", "extracting", "waiting_for_effect"},
         R.pending.cmd # 0 \/ R.status # "waiting_for_effect",
         R.pending.sent => R.pending.cmd \in durable'[r],
         \A q \in Runs : durable[q] \subseteq durable'[q]
  PROVE  CopiesSound' /\ DispatchIsDurable'
  <1> USE DEF TypeOK
  <1>1. CASE R.status = "dispatching_step" \/ (R.status = "extracting" /\ ~R.pending.sent)
    <2> DEFINE S == [R EXCEPT !.status = WaitingStatus(r, R.step), !.pending.sent = TRUE]
    <2>1. Issue(queued, r, c, "dispatched", S) /\ UNCHANGED posted
      BY <1>1 DEF Dispatch, postVars
    <2>2. S.pending.sent
      BY DEF Record, Command
    <2> HIDE DEF S
    <2>3. Sound(S) /\ Ready("dispatched", S)
      BY <2>2 DEF Sound, Ready
    <2> QED BY <2>1, <2>3, IssueSound, PostsSound
  <1>2. CASE ~(R.status = "dispatching_step" \/ (R.status = "extracting" /\ ~R.pending.sent))
    <2>1. PostCommand(r, R) /\ Done(queued, r, c)
      BY <1>2 DEF Dispatch
    <2>2. R.pending.sent
      BY <1>2 DEF Sound
    <2> QED BY <2>1, <2>2, DoneSound, PostSound
  <1> QED BY <1>1, <1>2

LEMMA OccupySound ==
  ASSUME TasksOK, CopiesSound, NEW r \in Runs, NEW c \in Ctx, NEW label \in Plain,
         NEW t \in Tabs, ReuseTab(r, c, label, t) \/ CreateTab(r, c, label, t)
  PROVE  CopiesSound'
  <1> DEFINE S == [Move(rec[<<r, c>>], "waiting_for_page")
                     EXCEPT !.tab = t, !.doc = 0, !.rev = TRUE]
  <1>1. Move(rec[<<r, c>>], "waiting_for_page").status = "waiting_for_page"
    BY CopyType DEF Move, Record
  <1>2. S.status = "waiting_for_page"
    BY <1>1, CopyType, MoveType DEF Record, Statuses
  <1>3. Issue(writes, r, c, label, S)
    BY DEF ReuseTab, CreateTab, Occupy
  <1> HIDE DEF S
  <1> QED BY <1>2, <1>3, PlainIsReady, IssueSound DEF Sound

LEMMA PlainTypes ==
  Plain = {"idle", "created", "policy_checked", "opening", "waiting", "accepted",
           "confirm_requested", "event_saved", "page_saved", "attested", "finishing",
           "reopened", "repicked", "reaccepted", "approved", "terminal", "last"}
          \cup (Awaiting \ {"prepare_next"})
  BY DEF Plain, Labels, Saving, Awaiting

LEMMA StartingSound ==
  ASSUME DispatchInv, NEW r \in Runs, NEW c \in Ctx, Starting(r, c)
  PROVE  DispatchIsDurable' /\ StoreSound' /\ CopiesSound'
  <1> USE PlainIsReady DEF DispatchInv, TypeOK
  <1> DEFINE R == rec[<<r, c>>]
  <1>0. R \in Record
    BY CopyType
  <1>1. ASSUME NEW label, Commit(r, c, label), UNCHANGED posted
        PROVE  DispatchIsDurable' /\ StoreSound' /\ Sound(R)
    BY <1>1, CommitSound, PostsSound
  <1>2. ASSUME NoCommit, UNCHANGED posted
        PROVE  DispatchIsDurable' /\ StoreSound'
    BY <1>2, NoCommitSound, PostsSound
  <1>3. CASE RunCreated(r, c)
    BY <1>1, <1>3, AwaitSound, PlainTypes DEF RunCreated, Awaiting, postVars
  <1>4. CASE Resolve(r, c)
    <2>1. Sound(Move(R, "policy_checked"))
      BY <1>0, MoveSound DEF Statuses
    <2> QED BY <1>2, <1>4, <2>1, IssueSound, AwaitSound, PlainTypes
            DEF Resolve, Awaiting, postVars
  <1>5. CASE PolicyChecked(r, c)
    <2>1. Sound(Move(R, "opening_tab")) /\ Sound(AskConfirmation(r, R))
      BY <1>0, MoveSound, AskSound DEF Statuses
    <2> QED BY <1>1, <1>5, <2>1, IssueSound, PlainTypes DEF PolicyChecked, postVars
  <1>6. CASE ConfirmationRequested(r, c)
    <2> DEFINE S == [R EXCEPT !.asked = TRUE]
    <2>1. Commit(r, c, "confirm_requested") /\ Issue(Others, r, c, "last", S)
          /\ UNCHANGED posted
      BY <1>6 DEF ConfirmationRequested, postVars
    <2>2. Sound(S)
      BY <1>0, <1>1, <2>1 DEF Sound, Record
    <2> HIDE DEF S
    <2> QED BY <1>1, <2>1, <2>2, IssueSound, PlainTypes
  <1>7. CASE TabOpening(r, c)
    BY <1>1, <1>7, AwaitSound, PlainTypes DEF TabOpening, Awaiting, postVars
  <1>8. CASE ListTabs(r, c)
    <2>1. CopiesSound'
      BY <1>8, PlainIsReady, PlainTypes DEF ListTabs, CopiesSound, TasksOK, Awaiting
    <2> QED BY <1>2, <1>8, <2>1 DEF ListTabs, postVars
  <1>9. CASE PickTab(r, c)
    <2>1. CopiesSound'
      BY <1>9, OccupySound, ThrowSound, PlainTypes DEF PickTab
    <2> QED BY <1>2, <1>9, <2>1 DEF PickTab, postVars
  <1>10. CASE TabOccupied(r, c)
    <2> DEFINE S == [R EXCEPT !.accepted = TRUE]
    <2>1. \/ Commit(r, c, "waiting") /\ Issue(Others, r, c, "accepted", S)
          \/ Commit(r, c, "repicked") /\ Issue(Others, r, c, "reaccepted", S)
      BY <1>10 DEF TabOccupied
    <2>2. UNCHANGED posted
      BY <1>10 DEF TabOccupied, postVars
    <2>3. Sound(S)
      BY <1>0, <1>1, <2>1, <2>2 DEF Sound, Record
    <2> HIDE DEF S
    <2> QED BY <1>1, <2>1, <2>2, <2>3, IssueSound, PlainTypes
  <1>11. CASE Accepted(r, c)
    <2>1. CopiesSound'
      BY <1>11, DoneStartingSound, DoneSound DEF Accepted
    <2> QED BY <1>1, <1>11, <2>1 DEF Accepted, postVars
  <1> QED BY <1>3, <1>4, <1>5, <1>6, <1>7, <1>8, <1>9, <1>10, <1>11 DEF Starting

LEMMA CompletePendingSound ==
  ASSUME TasksOK, CopiesSound, NEW r \in Runs, NEW R \in Record, CompletePending(r, R)
  PROVE  CopiesSound'
  <1> DEFINE S == [R EXCEPT !.step = @ + 1, !.pending = NoCommand,
                            !.rev = event[r].type # "page"]
  <1>1. S.pending = NoCommand
    BY DEF Record
  <1>2. S \in Record
    <2>1. NoCommand \in Command /\ R.step + 1 \in Nat
      BY DEF NoCommand, Command, Record
    <2>2. \A n \in Nat, p \in Command, b \in BOOLEAN :
            [R EXCEPT !.step = n, !.pending = p, !.rev = b] \in Record
      BY DEF Record
    <2> QED BY <2>1, <2>2
  <1>3. \/ Issue(Others, r, "queue", "finishing", S)
        \/ Issue(Others, r, "queue", "confirm_requested", AskConfirmation(r, S))
        \/ Issue(Others, r, "queue", "advanced", Move(S, CommandStatus(r, S.step)))
    BY DEF CompletePending
  <1> HIDE DEF S
  <1>4. Sound(S) /\ Sound(AskConfirmation(r, S))
    BY <1>1, <1>2, AskSound DEF Sound, NoCommand
  <1>5. /\ Sound(Move(S, CommandStatus(r, S.step)))
        /\ Ready("advanced", Move(S, CommandStatus(r, S.step)))
    BY <1>2 DEF Sound, Ready, Move, CommandStatus, Record
  <1> QED BY <1>3, <1>4, <1>5, IssueSound, PlainIsReady, PlainTypes DEF Ctx

LEMMA PageContinuesSound ==
  ASSUME TasksOK, CopiesSound, NEW r \in Runs, NEW R \in Record, NEW e,
         PageContinues(r, R, e)
  PROVE  CopiesSound'
  <1>1. \/ CompletePending(r, R)
        \/ Done(Others, r, "queue")
        \/ Await(Others, r, "queue", "fail")
        \/ Await(Others, r, "queue", "prepare")
        \/ Throw(Others, r, "queue")
        \/ Issue(Others, r, "queue", "confirm_requested", AskConfirmation(r, R))
    BY DEF PageContinues, PrepareNext
  <1> QED BY <1>1, CompletePendingSound, DoneSound, AwaitSound, ThrowSound, IssueSound, AskSound,
             PlainIsReady, PlainTypes DEF Awaiting, Ctx

LEMMA EventSavedSound ==
  ASSUME DispatchInv, NEW r \in Runs, EventSaved(r)
  PROVE  DispatchIsDurable' /\ StoreSound' /\ CopiesSound'
  <1> USE DEF DispatchInv, TypeOK
  <1> DEFINE R == rec[<<r, "queue">>]
             e == event[r]
  <1>1. R \in Record /\ "queue" \in Ctx
    BY CopyType DEF Ctx
  <1>2. DispatchIsDurable' /\ StoreSound' /\ Sound(R)
    BY <1>1, CommitSound, PostsSound DEF EventSaved, postVars
  <1>3. CASE e.type = "page" /\ PageEventSaved(r, R, e)
    <2> DEFINE S == [R EXCEPT !.doc = e.doc, !.rev = TRUE]
    <2>1. \/ Await(Others, r, "queue", "fail")
          \/ Throw(Others, r, "queue")
          \/ Issue(Others, r, "queue", "page_saved", S)
      BY <1>3 DEF PageEventSaved
    <2>2. Sound(S)
      BY <1>1, <1>2 DEF Sound, Record
    <2> HIDE DEF S
    <2> QED BY <1>1, <1>2, <2>1, <2>2, AwaitSound, ThrowSound, IssueSound, PlainIsReady,
               PlainTypes DEF Awaiting
  <1>4. CASE e.type = "completed" /\ CompletedEventSaved(r, R, e)
    BY <1>1, <1>2, <1>4, DoneSound, AwaitSound, CompletePendingSound, PlainTypes
    DEF CompletedEventSaved, Awaiting
  <1>5. CASE e.type = "failed" /\ FailedEventSaved(r, R, e)
    BY <1>1, <1>2, <1>5, DoneSound, AwaitSound, PlainTypes DEF FailedEventSaved, Awaiting
  <1>6. CASE e.type = "cancel" /\ Await(Others, r, "queue", "fail")
    BY <1>1, <1>2, <1>6, AwaitSound, PlainTypes DEF Awaiting
  <1>7. CASE e.type = "confirm" /\ ConfirmEventSaved(r, R, e)
    BY <1>1, <1>2, <1>7, DoneSound, AwaitSound, PlainTypes DEF ConfirmEventSaved, Awaiting
  <1> QED BY <1>3, <1>4, <1>5, <1>6, <1>7 DEF EventSaved

LEMMA PageSavedSound ==
  ASSUME DispatchInv, NEW r \in Runs, PageSaved(r) \/ Attested(r)
  PROVE  DispatchIsDurable' /\ StoreSound' /\ CopiesSound'
  <1> USE DEF DispatchInv, TypeOK
  <1> DEFINE R == rec[<<r, "queue">>]
             S == [R EXCEPT !.conf.state = "attested"]
  <1>1. R \in Record /\ "queue" \in Ctx
    BY CopyType DEF Ctx
  <1>2. DispatchIsDurable' /\ StoreSound' /\ Sound(R)
    BY <1>1, CommitSound, PostsSound DEF PageSaved, Attested, postVars
  <1>3. Sound(S)
    BY <1>1, <1>2 DEF Sound, Record
  <1>4. \/ Issue(Others, r, "queue", "attested", S)
        \/ Await(Others, r, "queue", "fail")
        \/ PageContinues(r, R, event[r])
    BY DEF PageSaved, Attested
  <1> HIDE DEF S
  <1> QED BY <1>1, <1>2, <1>3, <1>4, IssueSound, AwaitSound, PageContinuesSound, PlainIsReady,
             PlainTypes DEF Awaiting

LEMMA PrepareSound ==
  ASSUME DispatchInv, NEW r \in Runs, Prepare(r)
  PROVE  DispatchIsDurable' /\ StoreSound' /\ CopiesSound'
  <1> USE DEF DispatchInv, TypeOK
  <1> DEFINE R == rec[<<r, "queue">>]
             P == [cmd |-> cmds[r] + 1, doc |-> R.doc, sent |-> FALSE]
             S == [R EXCEPT !.pending = P]
  <1>1. R \in Record /\ "queue" \in Ctx
    BY CopyType DEF Ctx
  <1>2. DispatchIsDurable' /\ StoreSound'
    BY NoCommitSound, PostsSound DEF Prepare, postVars
  <1>3. S.pending = P /\ ~S.pending.sent /\ S.status = R.status
    BY <1>1 DEF Record
  <1>4. Move(S, CommandStatus(r, R.step)).pending = P
        /\ Move(S, CommandStatus(r, R.step)).status = CommandStatus(r, R.step)
    BY <1>1 DEF Record, Move
  <1>5. CASE pc[<<r, "queue">>] = "prepare"
    <2> DEFINE M == Move(S, CommandStatus(r, R.step))
    <2>1. Issue(writes, r, "queue", "prepared", M)
      BY <1>5 DEF Prepare
    <2>2. M.status \in {"dispatching_step", "extracting"} /\ ~M.pending.sent
      BY <1>4 DEF CommandStatus
    <2> HIDE DEF M
    <2>3. Sound(M) /\ Ready("prepared", M)
      BY <2>2 DEF Sound, Ready
    <2> QED BY <1>1, <1>2, <2>1, <2>3, IssueSound
  <1>6. CASE pc[<<r, "queue">>] = "prepare_next"
    <2>1. Issue(writes, r, "queue", "prepared", S)
      BY <1>6 DEF Prepare
    <2>2. R.status \in {"dispatching_step", "extracting"}
      BY <1>1, <1>6 DEF CopiesSound, Ready, Tasks
    <2>3. S.status \in {"dispatching_step", "extracting"} /\ ~S.pending.sent
      BY <1>3, <2>2
    <2> HIDE DEF S
    <2>4. Sound(S) /\ Ready("prepared", S)
      BY <2>3 DEF Sound, Ready
    <2> QED BY <1>1, <1>2, <2>1, <2>4, IssueSound
  <1> QED BY <1>5, <1>6 DEF Prepare

LEMMA DispatchedStepSound ==
  ASSUME DispatchInv, NEW r \in Runs, NEW c \in Ctx, Prepared(r) \/ Dispatched(r, c)
  PROVE  DispatchIsDurable' /\ StoreSound' /\ CopiesSound'
  <1> USE DEF DispatchInv, TypeOK
  <1>1. CASE Prepared(r)
    <2> DEFINE R == rec[<<r, "queue">>]
    <2>1. R \in Record /\ "queue" \in Ctx
      BY CopyType DEF Ctx
    <2>2. /\ StoreSound' /\ \A q \in Runs : durable[q] \subseteq durable'[q]
          /\ Sound(R) /\ Ready("prepared", R)
      BY <1>1, <2>1, CommitSound DEF Prepared
    <2>3. R.status \in {"dispatching_step", "extracting"} /\ ~R.pending.sent
      BY <2>2 DEF Ready
    <2>4. CopiesSound' /\ DispatchIsDurable'
      BY <1>1, <2>1, <2>2, <2>3, DispatchSound DEF Prepared
    <2> QED BY <2>2, <2>4
  <1>2. CASE Dispatched(r, c)
    <2>1. /\ StoreSound' /\ \A q \in Runs : durable[q] \subseteq durable'[q]
          /\ Ready("dispatched", rec[<<r, c>>])
          /\ rec[<<r, c>>].pending.sent => rec[<<r, c>>].pending.cmd \in durable'[r]
      BY <1>2, CommitSound DEF Dispatched
    <2>2. DispatchIsDurable'
      BY <1>2, <2>1, PostSound DEF Dispatched, Ready
    <2> QED BY <1>2, <2>1, <2>2, DoneSound DEF Dispatched
  <1> QED BY <1>1, <1>2

LEMMA TakeStopSound ==
  ASSUME DispatchInv, NEW r \in Runs, NEW k \in Stops, TakeStop(r, k)
  PROVE  DispatchIsDurable' /\ StoreSound' /\ CopiesSound'
  <1> USE DEF DispatchInv, TypeOK
  <1>1. CopiesSound'
    BY PlainIsReady, PlainTypes DEF TakeStop, CopiesSound, TasksOK, Awaiting
  <1> QED BY <1>1, NoCommitSound, PostsSound DEF TakeStop, postVars

LEMMA HandlingSound ==
  ASSUME DispatchInv, NEW r \in Runs, Handling(r)
  PROVE  DispatchIsDurable' /\ StoreSound' /\ CopiesSound'
  <1> USE PlainIsReady DEF DispatchInv, TypeOK
  <1> DEFINE R == rec[<<r, "queue">>]
  <1>0. R \in Record /\ "queue" \in Ctx
    BY CopyType DEF Ctx
  <1>1. ASSUME NEW label, Commit(r, "queue", label), UNCHANGED posted
        PROVE  DispatchIsDurable' /\ StoreSound' /\ Sound(R) /\ Ready(label, R)
    BY <1>0, <1>1, CommitSound, PostsSound
  <1>2. ASSUME NoCommit, UNCHANGED posted
        PROVE  DispatchIsDurable' /\ StoreSound'
    BY <1>2, NoCommitSound, PostsSound
  <1>3. CASE EventLoaded(r)
    <2>1. Sound(R)
      BY <1>0 DEF CopiesSound, Tasks
    <2> QED BY <1>0, <1>2, <1>3, <2>1, IssueSound, PlainTypes DEF EventLoaded, postVars
  <1>4. CASE StepAdvanced(r)
    <2>1. Ready("prepare_next", R)
      BY <1>1, <1>4 DEF StepAdvanced, Ready, postVars
    <2> QED BY <1>0, <1>1, <1>4, <2>1, AwaitSound DEF StepAdvanced, postVars
  <1>5. CASE LastStepSaved(r)
    <2>1. Sound(End(R, "completed"))
      BY <1>0, MoveSound DEF Statuses, Terminal
    <2> QED BY <1>0, <1>1, <1>5, <2>1, IssueSound, PlainTypes DEF LastStepSaved, postVars
  <1>6. CASE Reauthorize(r)
    <2>1. \A s \in {"opening_tab", "waiting_for_page"}, st \in {"approved", "attested"} :
            Sound([Move(R, s) EXCEPT !.conf.state = st])
      BY <1>0 DEF Sound, Move, Record
    <2>2. CopiesSound'
      BY <1>0, <1>6, <2>1, IssueSound, AwaitSound, PlainTypes DEF Reauthorize, Awaiting
    <2> QED BY <1>2, <1>6, <2>2 DEF Reauthorize, postVars
  <1>7. CASE Approved(r)
    BY <1>0, <1>1, <1>7, DoneSound DEF Approved, postVars
  <1> QED BY <1>0, <1>3, <1>4, <1>5, <1>6, <1>7, EventSavedSound, PageSavedSound,
             PrepareSound, DispatchedStepSound DEF Handling

LEMMA EndingSound ==
  ASSUME DispatchInv, NEW r \in Runs, NEW c \in Ctx, Ending(r, c)
  PROVE  DispatchIsDurable' /\ StoreSound' /\ CopiesSound'
  <1> USE PlainIsReady DEF DispatchInv, TypeOK
  <1>1. CASE Fail(r, c)
    <2>1. \A s \in {"cancelled", "failed"} : Sound(End(store[r], s))
      BY MoveSound DEF Statuses, Terminal, RecordsOK
    <2>2. CopiesSound'
      BY <1>1, <2>1, IssueSound, DoneSound, PlainTypes DEF Fail
    <2> QED BY <1>1, <2>2, NoCommitSound, PostsSound DEF Fail, postVars
  <1>2. CASE TerminalSaved(r, c)
    <2>1. DispatchIsDurable' /\ StoreSound'
      BY <1>2, CommitSound, PostsSound DEF TerminalSaved, postVars
    <2> QED BY <1>2, <2>1, DoneStartingSound DEF TerminalSaved
  <1>3. CASE LastSaved(r, c)
    <2>1. DispatchIsDurable' /\ StoreSound'
      BY <1>3, CommitSound, PostsSound DEF LastSaved, postVars
    <2> QED BY <1>3, <2>1, DoneSound DEF LastSaved
  <1> QED BY <1>1, <1>2, <1>3, DispatchedStepSound DEF Ending

LEMMA ObservingSound ==
  ASSUME DispatchInv, NEW r \in Runs, Observing(r)
  PROVE  DispatchIsDurable' /\ StoreSound' /\ CopiesSound'
  <1> USE PlainIsReady DEF DispatchInv, TypeOK
  <1>0. "observe" \in Ctx /\ store[r] \in Record
    BY DEF RecordsOK, Ctx
  <1>1. DispatchIsDurable' /\ StoreSound'
    BY NoCommitSound, PostsSound DEF Observing, StoreObservation, ObservationStored, postVars
  <1>2. CASE StoreObservation(r)
    BY <1>0, <1>1, <1>2, AwaitSound, DoneSound, PlainTypes DEF StoreObservation, Awaiting
  <1>3. CASE ObservationStored(r)
    <2> DEFINE S == [store[r] EXCEPT !.observed = TRUE]
    <2>1. Sound(S)
      BY <1>0 DEF StoreSound, Sound, Record
    <2>2. Done(writes, r, "observe") \/ Issue(writes, r, "observe", "last", S)
      BY <1>3 DEF ObservationStored
    <2> HIDE DEF S
    <2> QED BY <1>0, <1>1, <2>1, <2>2, IssueSound, DoneSound, PlainTypes
  <1> QED BY <1>2, <1>3 DEF Observing

LEMMA ResumeSound ==
  ASSUME DispatchInv, NEW r \in Runs, Resume(r)
  PROVE  DispatchIsDurable' /\ StoreSound' /\ CopiesSound'
  <1> USE DEF DispatchInv, TypeOK
  <1>0. "resume" \in Ctx /\ store[r] \in Record
    BY DEF RecordsOK, Ctx
  <1>1. StoreSound' /\ \A q \in Runs : durable[q] \subseteq durable'[q]
    BY NoCommitSound DEF Resume
  <1>2. CASE /\ store[r].status \in {"waiting_for_effect", "extracting"}
             /\ store[r].pending.cmd # 0
             /\ Dispatch(writes, r, "resume", store[r])
    <2>1. Sound(store[r]) /\ (store[r].pending.sent => store[r].pending.cmd \in durable'[r])
      BY <1>1 DEF StoreSound
    <2> QED BY <1>0, <1>1, <1>2, <2>1, DispatchSound
  <1>3. CASE UNCHANGED postVars /\ (Await(writes, r, "resume", "fail") \/ Done(writes, r, "resume"))
    BY <1>0, <1>1, <1>3, AwaitSound, DoneSound, PostsSound, PlainTypes DEF Awaiting, postVars
  <1> QED BY <1>2, <1>3 DEF Resume

LEMMA RecoveringSound ==
  ASSUME DispatchInv, NEW r \in Runs, Recovering(r)
  PROVE  DispatchIsDurable' /\ StoreSound' /\ CopiesSound'
  <1> USE PlainIsReady DEF DispatchInv, TypeOK
  <1> DEFINE R == rec[<<r, "recover">>]
  <1>0. "recover" \in Ctx /\ R \in Record /\ Sound(R)
    BY CopyType DEF Ctx, CopiesSound, Tasks
  <1>1. StoreSound' /\ \A q \in Runs : durable[q] \subseteq durable'[q]
    BY NoCommitSound DEF Recovering, RecoverTerminal, RecoverActive, RecoverRefused,
                         RecoverOpening, RepickTab, RecoverDispatch, RecoverWaiting
  <1>2. ASSUME UNCHANGED posted
        PROVE  DispatchIsDurable'
    BY <1>1, <1>2, PostsSound
  <1>3. CASE RecoverTerminal(r)
    BY <1>0, <1>1, <1>2, <1>3, DoneStartingSound DEF RecoverTerminal, postVars
  <1>4. CASE RecoverActive(r) \/ RecoverRefused(r)
    BY <1>0, <1>1, <1>2, <1>4, AwaitSound, PlainTypes
    DEF RecoverActive, RecoverRefused, Awaiting, postVars
  <1>5. CASE RecoverOpening(r)
    <2>1. Sound(Move(R, "opening_tab"))
      BY <1>0, MoveSound DEF Statuses
    <2> QED BY <1>0, <1>1, <1>2, <1>5, <2>1, IssueSound, AwaitSound, PlainTypes
            DEF RecoverOpening, Awaiting, postVars
  <1>6. CASE RepickTab(r)
    <2>1. CopiesSound'
      BY <1>0, <1>6, OccupySound, ThrowSound, AwaitSound, PlainTypes DEF RepickTab, Awaiting
    <2> QED BY <1>1, <1>2, <1>6, <2>1 DEF RepickTab, postVars
  <1>7. CASE RecoverDispatch(r)
    <2>1. CASE Throw(writes, r, "recover") /\ UNCHANGED postVars
      BY <1>0, <1>1, <1>2, <2>1, ThrowSound DEF postVars
    <2>2. CASE R.pending.cmd # 0 /\ Dispatch(writes, r, "recover", R)
      <3>1. Issue(writes, r, "recover", "dispatched",
                  [R EXCEPT !.status = WaitingStatus(r, R.step), !.pending.sent = TRUE])
            /\ UNCHANGED posted
        BY <1>7, <2>2 DEF RecoverDispatch, Dispatch, postVars
      <3> DEFINE S == [R EXCEPT !.status = WaitingStatus(r, R.step), !.pending.sent = TRUE]
      <3>2. S.pending.sent
        BY <1>0 DEF Record, Command
      <3>3. Issue(writes, r, "recover", "dispatched", S)
        BY <3>1
      <3> HIDE DEF S
      <3> QED BY <1>0, <1>1, <1>2, <3>1, <3>2, <3>3, IssueSound DEF Sound, Ready
    <2> QED BY <1>7, <2>1, <2>2 DEF RecoverDispatch
  <1>8. CASE RecoverWaiting(r)
    BY <1>0, <1>1, <1>2, <1>8, DoneSound DEF RecoverWaiting, postVars
  <1> QED BY <1>3, <1>4, <1>5, <1>6, <1>7, <1>8 DEF Recovering

LEMMA TakeSound ==
  ASSUME DispatchInv, NEW r \in Runs, NEW e, NEW R, Take(r, e, R), Sound(R)
  PROVE  DispatchIsDurable' /\ StoreSound' /\ CopiesSound'
  <1> USE DEF DispatchInv, TypeOK
  <1>1. CopiesSound'
    BY PlainIsReady, PlainTypes DEF Take, CopiesSound, TasksOK, Awaiting
  <1> QED BY <1>1, NoCommitSound, PostsSound DEF Take, postVars

LEMMA EventsSound ==
  ASSUME DispatchInv, NEW r \in Runs, Events(r)
  PROVE  DispatchIsDurable' /\ StoreSound' /\ CopiesSound'
  <1> USE DEF DispatchInv, TypeOK
  <1>0. /\ "queue" \in Ctx /\ "request" \in Ctx
        /\ store[r] \in Record /\ Sound(store[r])
    BY DEF RecordsOK, StoreSound, Ctx
  <1>1. \A d, seq : Sound(Accept(store[r], d, seq))
    BY <1>0 DEF Accept, Sound, Record
  <1>2. CASE Request(r)
    <2>1. CopiesSound'
      BY <1>0, <1>2, IssueSound, NoRunSound, PlainIsReady, PlainTypes DEF Request
    <2> QED BY <1>2, <2>1, NoCommitSound, PostsSound DEF Request, postVars
  <1>3. CASE PageReady(r)
    BY <1>1, <1>3, TakeSound DEF PageReady, TakeActorEvent
  <1>4. CASE StepReported(r)
    BY <1>1, <1>4, TakeSound DEF StepReported, TakeActorEvent
  <1>5. CASE Cancel(r) \/ \E ok \in BOOLEAN : Confirm(r, ok)
    BY <1>0, <1>5, TakeSound DEF Cancel, Confirm
  <1>6. CASE Acknowledge(r)
    <2>1. Sound([store[r] EXCEPT !.terminal = "acked"])
      BY <1>0 DEF Sound, Record
    <2>2. CopiesSound'
      BY <1>0, <1>6, <2>1, IssueSound, PlainIsReady, PlainTypes DEF Acknowledge
    <2> QED BY <1>6, <2>2, NoCommitSound, PostsSound DEF Acknowledge, postVars
  <1> QED BY <1>2, <1>3, <1>4, <1>5, <1>6 DEF Events

LEMMA EnvironmentSound ==
  ASSUME DispatchInv, Environment
  PROVE  DispatchIsDurable' /\ StoreSound' /\ CopiesSound'
  <1> USE DEF DispatchInv, TypeOK
  <1>1. CASE Crash
    <2>1. StoreSound' /\ \A q \in Runs : durable[q] \subseteq durable'[q]
      <3>1. CASE NoCommit
        BY <3>1, NoCommitSound
      <3>2. CASE writes # <<>> /\ Commit(Head(writes)[1], Head(writes)[2], pc[Head(writes)])
        <4>1. Head(writes) \in Tasks
          BY <3>2, HeadTailProperties DEF TasksOK
        <4>2. Head(writes)[1] \in Runs /\ Head(writes)[2] \in Ctx
          BY <4>1 DEF Tasks
        <4> QED BY <3>2, <4>2, CommitSound
      <3> QED BY <1>1, <3>1, <3>2 DEF Crash
    <2>2. CopiesSound'
      BY <1>1, NoRunSound, PlainIsReady, PlainTypes DEF Crash, CopiesSound
    <2> QED BY <1>1, <2>1, <2>2, PostsSound DEF Crash, postVars
  <1>2. CASE WorkerStart
    <2>1. \A t \in Tasks : \/ rec'[t] = rec[t] /\ pc'[t] = pc[t]
                           \/ rec'[t] = store[t[1]] /\ pc'[t] \in {"idle", "queued"}
      BY <1>2 DEF WorkerStart
    <2>2. CopiesSound'
      <3> SUFFICES ASSUME NEW t \in Tasks
                   PROVE  Sound(rec'[t]) /\ Ready(pc'[t], rec'[t])
        BY DEF CopiesSound
      <3>1. t[1] \in Runs
        BY DEF Tasks
      <3>2. {"idle", "queued"} \subseteq Plain
        BY PlainTypes DEF Awaiting
      <3> QED BY <2>1, <3>1, <3>2, PlainIsReady DEF CopiesSound, StoreSound
    <2> QED BY <1>2, <2>2, NoCommitSound, PostsSound DEF WorkerStart, postVars
  <1>3. ASSUME NEW t \in Tabs, BindExecution(t)
        PROVE  DispatchIsDurable' /\ StoreSound' /\ CopiesSound'
    <2>1. CopiesSound'
      BY <1>3, PlainIsReady, PlainTypes DEF BindExecution, CopiesSound, TasksOK, Awaiting
    <2> QED BY <1>3, <2>1, NoCommitSound, PostsSound DEF BindExecution, postVars
  <1>4. CASE UNCHANGED <<store, durable, fate, taskVars, postVars>>
    BY <1>4 DEF taskVars, postVars, DispatchIsDurable, StoreSound, CopiesSound
  <1>5. ASSUME NEW t \in Tabs,
               NewDocument(t) \/ CloseTab(t) \/ \E d \in Docs : Unbind(t, d)
        PROVE  UNCHANGED <<store, durable, fate, taskVars, postVars>>
    BY <1>5 DEF NewDocument, CloseTab, Unbind
  <1>6. ASSUME NEW r \in Runs,
               \/ SourceDrop(r) \/ SourceExpire(r) \/ SourceBind(r) \/ SourceClose(r)
               \/ FireTimer(r)
        PROVE  UNCHANGED <<store, durable, fate, taskVars, postVars>>
    BY <1>6 DEF SourceDrop, SourceExpire, SourceBind, SourceClose, SetSource, FireTimer
  <1> QED BY <1>1, <1>2, <1>3, <1>4, <1>5, <1>6 DEF Environment

LEMMA DispatchInit == Init => DispatchInv
  <1> SUFFICES ASSUME Init PROVE DispatchInv
    OBVIOUS
  <1>1. DispatchIsDurable /\ StoreSound
    BY NoRunSound DEF Init, DispatchIsDurable, StoreSound, NoRun, NoCommand
  <1>2. CopiesSound
    BY NoRunSound, PlainIsReady, PlainTypes DEF Init, CopiesSound
  <1> QED BY <1>1, <1>2, TypeInit DEF DispatchInv

LEMMA DispatchStep == DispatchInv /\ [Next]_vars => DispatchInv'
  <1> SUFFICES ASSUME DispatchInv, [Next]_vars PROVE DispatchInv'
    OBVIOUS
  <1>1. TypeOK'
    BY TypeStep DEF DispatchInv
  <1>2. ASSUME NEW r \in Runs, NEW c \in Ctx, Working(r, c)
        PROVE  DispatchIsDurable' /\ StoreSound' /\ CopiesSound'
    BY <1>2, StartingSound, EndingSound, HandlingSound, TakeStopSound, RecoveringSound,
       ResumeSound, ObservingSound DEF Working
  <1>3. ASSUME UNCHANGED vars
        PROVE  DispatchIsDurable' /\ StoreSound' /\ CopiesSound'
    BY <1>3 DEF vars, taskVars, postVars, DispatchInv, DispatchIsDurable, StoreSound, CopiesSound
  <1>4. DispatchIsDurable' /\ StoreSound' /\ CopiesSound'
    BY <1>2, <1>3, EventsSound, EnvironmentSound DEF Next
  <1> QED BY <1>1, <1>4 DEF DispatchInv

\* A command is posted to an actor only after a record that carries it as
\* dispatched has reached the disk: over every crash, every recovery and every
\* stale copy, for any number of runs, tabs, documents and faults
\* (dispatchPreparedStep, resumeExecutionTab, recover).
THEOREM DurableDispatch == Spec => []DispatchIsDurable
  <1>1. DispatchInv => DispatchIsDurable
    BY DEF DispatchInv
  <1> QED BY <1>1, DispatchInit, DispatchStep, PTL DEF Spec

-------------------------------------------------------------------------------
(* What a step does to one task *)

(***************************************************************************)
(* A task <<r, c>> stands at label l with copy R; its run has S in storage *)
(* and its queue holds event e; n commands have been handed out.  A step   *)
(* that touches the task leads it to label l2 and copy R2 in one of the    *)
(* ways below, whatever the other tasks do.  Every invariant of this       *)
(* module is checked against these ways, once each.                        *)
(***************************************************************************)

\* The task ends, or recovery gives it up, or one that was idle starts.
Rests(c, l, R, l2, R2) ==
  \/ l2 \in {"idle", "given_up"} /\ R2 = NoRun
  \/ l = "idle" /\ l2 = c /\ c \in {"resume", "observe"} /\ R2 = R

Continues ==
  {<<"created", "resolve">>, <<"resolve", "fail">>, <<"opening", "list_tabs">>,
   <<"reopened", "list_tabs">>, <<"list_tabs", "pick_tab">>, <<"loaded", "event_saved">>,
   <<"event_saved", "fail">>, <<"page_saved", "fail">>, <<"attested", "fail">>,
   <<"advanced", "prepare_next">>, <<"reauthorize", "fail">>, <<"observe", "observed">>,
   <<"resume", "fail">>, <<"idle", "fail">>, <<"queued", "fail">>, <<"authorize", "fail">>,
   <<"repick_tab", "fail">>}

\* The task goes on with the copy it has.
Keeps(r, l, R, e, l2) ==
  \/ <<l, l2>> \in Continues
  \/ l = "queued" /\ l2 = "resolve" /\ R.status = "created"
  \/ l = "queued" /\ l2 = "authorize" /\ ~IsTerminal(R)
  \/ l = "authorize" /\ l2 = "repick_tab" /\ R.status = "opening_tab"
  \/ /\ l = "event_saved" /\ l2 = "reauthorize"
     /\ e.type = "confirm" /\ e.ok /\ R.status = "awaiting_confirmation"
  \/ /\ l \in {"page_saved", "attested"} /\ l2 = "prepare"
     /\ R.status = "waiting_for_page" /\ R.step \in Steps(r)
     /\ ~NeedsConfirmation(r, R, R.step)
     /\ l = "page_saved" => R.conf.state # "approved"

\* The copy gets a mark that no transition is needed for.
Marks(l, R, e, l2, R2) ==
  \/ l = "confirm_requested" /\ l2 = "last" /\ R2 = [R EXCEPT !.asked = TRUE]
  \/ /\ \/ l = "waiting" /\ l2 = "accepted"
        \/ l = "repicked" /\ l2 = "reaccepted"
     /\ R2 = [R EXCEPT !.accepted = TRUE]
  \/ /\ l = "event_saved" /\ l2 = "page_saved"
     /\ e.type = "page" /\ R2 = [R EXCEPT !.doc = e.doc, !.rev = TRUE]
  \/ /\ l = "page_saved" /\ l2 = "attested"
     /\ R.status = "waiting_for_page" /\ R.conf.state = "approved" /\ Attests(R, e)
     /\ R2 = [R EXCEPT !.conf.state = "attested"]

\* The run comes closer to its first page, or is over.
Moves(r, l, R, l2, R2) ==
  \/ l = "resolve" /\ l2 = "policy_checked" /\ R2 = Move(R, "policy_checked")
  \/ l = "policy_checked" /\ l2 = "opening" /\ R2 = Move(R, "opening_tab")
  \/ /\ l = "policy_checked" /\ l2 = "confirm_requested"
     /\ Plan[r].confirm = "before_run" /\ R2 = AskConfirmation(r, R)
  \/ /\ l = "authorize" /\ l2 = "opening"
     /\ R.status = "policy_checked" /\ R2 = Move(R, "opening_tab")
  \/ /\ \/ l = "pick_tab" /\ l2 = "waiting"
        \/ l = "repick_tab" /\ l2 = "repicked"
     /\ \E t \in Tabs :
          R2 = [Move(R, "waiting_for_page") EXCEPT !.tab = t, !.doc = 0, !.rev = TRUE]
  \/ /\ l = "reauthorize" /\ l2 = "reopened" /\ Plan[r].confirm = "before_run"
     /\ R2 = [Move(R, "opening_tab") EXCEPT !.conf.state = "attested"]
  \/ /\ l = "reauthorize" /\ l2 = "approved" /\ Plan[r].confirm # "before_run"
     /\ R2 = [Move(R, "waiting_for_page") EXCEPT !.conf.state = "approved"]
  \/ l = "finishing" /\ l2 = "terminal" /\ R2 = End(R, "completed")

\* What the queue was told about the pending command of R.
Reported(l, R, e) ==
  \/ /\ l = "event_saved" /\ e.type = "completed" /\ e.ok
     /\ R.status \in {"waiting_for_effect", "waiting_for_navigation", "extracting"}
     /\ WaitsForPending(R, e)
  \/ /\ l \in {"page_saved", "attested"} /\ ShowsEffect(R, e.doc, e)

NextStep(R, e) ==
  [R EXCEPT !.step = @ + 1, !.pending = NoCommand, !.rev = e.type # "page"]

\* A step's effect is there.
Completes(r, l, R, e, l2, R2) ==
  /\ Reported(l, R, e)
  /\ LET T == NextStep(R, e)
     IN  \/ IsLast(r, R.step) /\ l2 = "finishing" /\ R2 = T
         \/ /\ ~IsLast(r, R.step) /\ NeedsConfirmation(r, T, T.step)
            /\ l2 = "confirm_requested" /\ R2 = AskConfirmation(r, T)
         \/ /\ ~IsLast(r, R.step) /\ ~NeedsConfirmation(r, T, T.step)
            /\ l2 = "advanced" /\ R2 = Move(T, CommandStatus(r, T.step))

Commanded(R, n) == [R EXCEPT !.pending = [cmd |-> n + 1, doc |-> R.doc, sent |-> FALSE]]

Sent(r, R) == [R EXCEPT !.status = WaitingStatus(r, R.step), !.pending.sent = TRUE]

\* A step is about to be dispatched.
Dispatches(r, c, l, R, S, n, l2, R2) ==
  \/ /\ l \in {"page_saved", "attested"} /\ l2 = "confirm_requested"
     /\ R.status = "waiting_for_page" /\ R.step \in Steps(r)
     /\ NeedsConfirmation(r, R, R.step) /\ R2 = AskConfirmation(r, R)
  \/ /\ l \in {"prepare", "prepare_next"} /\ l2 = "prepared"
     /\ LET T == Commanded(R, n)
        IN  R2 = IF l = "prepare" THEN Move(T, CommandStatus(r, R.step)) ELSE T
  \/ c = "queue" /\ l = "prepared" /\ l2 = "dispatched" /\ R2 = Sent(r, R)
  \/ /\ c = "recover" /\ l = "authorize" /\ l2 = "dispatched"
     /\ R.status = "dispatching_step" /\ R2 = Sent(r, R)
  \/ /\ c = "resume" /\ l = "resume" /\ l2 = "dispatched" /\ Plan[r].safe
     /\ S.status = "extracting" /\ S.pending.cmd # 0 /\ R2 = Sent(r, S)

\* The task takes what is stored.
Loads(r, c, l, S, l2, R2) ==
  \/ /\ c = "request" /\ l = "idle" /\ l2 = "created"
     /\ S.status = "none" /\ R2 = CreatedRun
  \/ /\ c = "queue" /\ l = "idle" /\ l2 = "last"
     /\ S.terminal = "unacked" /\ R2 = [S EXCEPT !.terminal = "acked"]
  \/ /\ c = "observe" /\ l = "observed" /\ l2 = "last"
     /\ R2 = [S EXCEPT !.observed = TRUE]
  \/ /\ l = "fail" /\ l2 = "terminal" /\ IsActive(S)
     /\ \E s \in {"failed", "cancelled"} : R2 = End(S, s)

Acts(r, c, l, R, e, S, n, l2, R2) ==
  \/ Rests(c, l, R, l2, R2)
  \/ R2 = R /\ Keeps(r, l, R, e, l2)
  \/ Marks(l, R, e, l2, R2)
  \/ Moves(r, l, R, l2, R2)
  \/ Completes(r, l, R, e, l2, R2)
  \/ Dispatches(r, c, l, R, S, n, l2, R2)
  \/ Loads(r, c, l, S, l2, R2)

\* The queue of run r takes an event.
Hears(r) ==
  PageReady(r) \/ StepReported(r) \/ Cancel(r) \/ \E ok \in BOOLEAN : Confirm(r, ok)

\* What a step does to task t: nothing, one of the above, the queue takes an
\* event, or recover lists the runs.
TaskStep(t) ==
  \/ UNCHANGED <<pc[t], rec[t]>>
  \/ Acts(t[1], t[2], pc[t], rec[t], event[t[1]], store[t[1]], cmds[t[1]], pc'[t], rec'[t])
  \/ t[2] = "queue" /\ Hears(t[1])
  \/ /\ ~up /\ t[2] = "recover" /\ rec'[t] = store[t[1]]
     /\ pc'[t] = IF store[t[1]].status = "none" THEN "idle" ELSE "queued"

\* A task that leaves a save for its next await has made its copy durable; a
\* crash may leave the save at the head of the queue done.
StoreStep ==
  /\ NoCommit \/ \E t \in Tasks : Commit(t[1], t[2], pc[t]) /\ (pc[t] \in Saving \/ ~up')
  /\ \A t \in Tasks : pc[t] \in Saving /\ pc'[t] \notin {pc[t], "idle"} => store'[t[1]] = rec[t]

EventStep ==
  \A r \in Runs : event'[r] = event[r] \/ pc'[<<r, "queue">>] \in {"idle", "fail"} \/ Hears(r)

CommandStep ==
  \A r \in Runs :
    cmds'[r] = IF /\ pc[<<r, "queue">>] \in {"prepare", "prepare_next"}
                  /\ pc'[<<r, "queue">>] = "prepared"
               THEN cmds[r] + 1 ELSE cmds[r]

Posts(r, R) ==
  \/ UNCHANGED <<posted[r], repeated[r]>>
  \/ \E d \in Docs :
       posted'[r] = posted[r] \cup {[cmd |-> R.pending.cmd, step |-> R.step, doc |-> d]}

PostStep ==
  \A r \in Runs :
    \/ UNCHANGED <<posted[r], repeated[r]>>
    \/ \E c \in Ctx : /\ pc[<<r, c>>] = "dispatched" /\ pc'[<<r, c>>] = "idle"
                      /\ Posts(r, rec[<<r, c>>])
    \/ /\ Plan[r].safe /\ store[r].pending.cmd # 0 /\ Posts(r, store[r])
       /\ store[r].status \in {"waiting_for_effect", "extracting"}

\* Only events of the actor and of the user tell more.
HeardStep ==
  \/ UNCHANGED histVars
  \/ \E r \in Runs : Hears(r)

Shape == /\ \A t \in Tasks : TaskStep(t)
         /\ StoreStep /\ EventStep /\ CommandStep /\ PostStep /\ HeardStep

-------------------------------------------------------------------------------
(* Every step is one of those *)

\* Of all tasks only task c of run r gets to another await.
Alone(r, c) ==
  /\ \A t \in Tasks :
       t = <<r, c>> \/ pc'[t] \in {pc[t], "idle"} \/ pc[t] \in {"idle", "queued"}
  /\ EventStep

Taken == \A t \in Tasks : TaskStep(t)

LEMMA IssueShape ==
  ASSUME TypeOK, NEW queued, NEW r \in Runs, NEW c \in Ctx, NEW label, NEW R,
         Issue(queued, r, c, label, R),
         Acts(r, c, pc[<<r, c>>], rec[<<r, c>>], event[r], store[r], cmds[r], label, R)
  PROVE  Taken /\ Alone(r, c) /\ pc'[<<r, c>>] = label
  <1>1. ASSUME NEW t \in Tasks PROVE TaskStep(t)
    <2>1. CASE t = <<r, c>>
      <3>1. pc'[t] = label /\ rec'[t] = R /\ event' = event /\ t[1] = r /\ t[2] = c
        BY <2>1 DEF TypeOK, TasksOK, Issue
      <3> QED BY <2>1, <3>1 DEF TaskStep
    <2>2. CASE t # <<r, c>>
      BY <2>2 DEF TypeOK, TasksOK, Issue, TaskStep
    <2> QED BY <2>1, <2>2
  <1> QED BY <1>1 DEF TypeOK, TasksOK, Tasks, Issue, Alone, EventStep, Taken

LEMMA AwaitShape ==
  ASSUME TypeOK, NEW queued, NEW r \in Runs, NEW c \in Ctx, NEW label,
         Await(queued, r, c, label),
         Keeps(r, pc[<<r, c>>], rec[<<r, c>>], event[r], label)
  PROVE  Taken /\ Alone(r, c) /\ pc'[<<r, c>>] = label
  <1>1. ASSUME NEW t \in Tasks PROVE TaskStep(t)
    <2>1. CASE t = <<r, c>>
      <3>1. pc'[t] = label /\ rec'[t] = rec[t] /\ t[1] = r /\ t[2] = c
        BY <2>1 DEF TypeOK, TasksOK, Await
      <3> QED BY <2>1, <3>1 DEF TaskStep, Acts
    <2>2. CASE t # <<r, c>>
      BY <2>2 DEF TypeOK, TasksOK, Await, TaskStep
    <2> QED BY <2>1, <2>2
  <1> QED BY <1>1 DEF TypeOK, TasksOK, Tasks, Await, Alone, EventStep, Taken

LEMMA DoneStartingShape ==
  ASSUME TypeOK, NEW queued, NEW r \in Runs, NEW c \in Ctx,
         NEW spawned \in SUBSET (Runs \X {"resume", "observe"}),
         DoneStarting(queued, r, c, spawned)
  PROVE  Taken /\ Alone(r, c) /\ pc'[<<r, c>>] = "idle"
  <1>1. ASSUME NEW t \in Tasks PROVE TaskStep(t)
    <2>1. CASE t = <<r, c>>
      <3>1. pc'[t] = "idle" /\ rec'[t] = NoRun
        BY <2>1 DEF TypeOK, TasksOK, DoneStarting
      <3> QED BY <3>1 DEF TaskStep, Acts, Rests
    <2>2. CASE t # <<r, c>> /\ t \in spawned /\ pc[t] = "idle"
      <3>1. pc'[t] = t[2] /\ rec'[t] = rec[t] /\ t[2] \in {"resume", "observe"}
        BY <2>2 DEF TypeOK, TasksOK, DoneStarting
      <3> QED BY <2>2, <3>1 DEF TaskStep, Acts, Rests
    <2>3. CASE t # <<r, c>> /\ ~(t \in spawned /\ pc[t] = "idle")
      BY <2>3 DEF TypeOK, TasksOK, DoneStarting, TaskStep
    <2> QED BY <2>1, <2>2, <2>3
  <1>2. pc'[<<r, c>>] = "idle"
    BY DEF TypeOK, TasksOK, Tasks, DoneStarting
  <1>3. \A t \in Tasks : t = <<r, c>> \/ pc'[t] = pc[t] \/ pc[t] = "idle"
    BY DEF TypeOK, TasksOK, DoneStarting
  <1>4. EventStep
    BY <1>2 DEF TypeOK, TasksOK, Tasks, DoneStarting, EventStep
  <1> QED BY <1>1, <1>2, <1>3, <1>4 DEF Alone, Taken

LEMMA DoneShape ==
  ASSUME TypeOK, NEW queued, NEW r \in Runs, NEW c \in Ctx, Done(queued, r, c)
  PROVE  Taken /\ Alone(r, c) /\ pc'[<<r, c>>] = "idle"
  BY DoneStartingShape DEF Done

LEMMA ThrowShape ==
  ASSUME TypeOK, NEW queued, NEW r \in Runs, NEW c \in Ctx, Throw(queued, r, c)
  PROVE  Taken /\ Alone(r, c) /\ pc'[<<r, c>>] = "idle"
  <1>1. CASE c # "recover"
    BY <1>1, DoneShape DEF Throw
  <1>2. CASE c = "recover"
    <2>1. Taken
      BY <1>2 DEF Throw, TaskStep, Acts, Rests, Taken
    <2> QED BY <1>2, <2>1 DEF TypeOK, TasksOK, Tasks, Throw, Alone, EventStep
  <1> QED BY <1>1, <1>2

\* The save that commits is that of the task that goes on, or there is none.
LEMMA StoreShape ==
  ASSUME TypeOK, NEW r \in Runs, NEW c \in Ctx, Alone(r, c),
         \/ NoCommit /\ pc[<<r, c>>] \notin Saving
         \/ \E label \in Saving : Commit(r, c, label)
  PROVE  StoreStep
  <1>1. "idle" \notin Saving /\ "queued" \notin Saving
    BY DEF Saving
  <1>2. CASE NoCommit /\ pc[<<r, c>>] \notin Saving
    BY <1>1, <1>2 DEF StoreStep, Alone
  <1>3. ASSUME NEW label \in Saving, Commit(r, c, label) PROVE StoreStep
    <2>1. store'[r] = rec[<<r, c>>] /\ pc[<<r, c>>] = label /\ <<r, c>> \in Tasks
      BY <1>3 DEF Commit, TypeOK, RecordsOK, Tasks
    <2>2. Commit(<<r, c>>[1], <<r, c>>[2], pc[<<r, c>>])
      BY <1>3, <2>1
    <2> QED BY <1>1, <1>3, <2>1, <2>2 DEF StoreStep, Alone
  <1> QED BY <1>2, <1>3

LEMMA NoPrepareShape ==
  ASSUME NEW r \in Runs, NEW c \in Ctx, Alone(r, c), pc'[<<r, c>>] # "prepared", UNCHANGED cmds
  PROVE  CommandStep
  <1> SUFFICES ASSUME NEW q \in Runs, pc[<<q, "queue">>] \in {"prepare", "prepare_next"}
               PROVE  pc'[<<q, "queue">>] # "prepared"
    BY DEF CommandStep
  <1>1. <<q, "queue">> \in Tasks
    BY DEF Tasks, Ctx
  <1> QED BY <1>1 DEF Alone

\* A step that posts nothing, hears nothing and hands out no command.
LEMMA QuietShape ==
  ASSUME TypeOK, NEW r \in Runs, NEW c \in Ctx, Taken, Alone(r, c), pc'[<<r, c>>] # "prepared",
         \/ NoCommit /\ pc[<<r, c>>] \notin Saving
         \/ \E label \in Saving : Commit(r, c, label),
         UNCHANGED <<cmds, postVars, histVars>>
  PROVE  Shape
  <1>1. StoreStep /\ CommandStep
    BY StoreShape, NoPrepareShape
  <1>2. PostStep /\ HeardStep
    BY DEF PostStep, HeardStep, postVars
  <1> QED BY <1>1, <1>2 DEF Shape, Taken, Alone

LEMMA OccupyShape ==
  ASSUME TypeOK, NEW r \in Runs, NEW c \in Ctx, NEW label, NEW t \in Tabs,
         Occupy(r, c, label, t),
         \/ pc[<<r, c>>] = "pick_tab" /\ label = "waiting"
         \/ pc[<<r, c>>] = "repick_tab" /\ label = "repicked"
  PROVE  Taken /\ Alone(r, c) /\ pc'[<<r, c>>] # "prepared"
  <1> DEFINE S == [Move(rec[<<r, c>>], "waiting_for_page") EXCEPT !.tab = t, !.doc = 0, !.rev = TRUE]
  <1>1. Issue(writes, r, c, label, S)
    BY DEF Occupy
  <1>2. Moves(r, pc[<<r, c>>], rec[<<r, c>>], label, S)
    BY DEF Moves
  <1> HIDE DEF S
  <1> QED BY <1>1, <1>2, IssueShape DEF Acts

\* A save commits and the task goes on to another await, or to another save.
LEMMA SaveAwaitShape ==
  ASSUME TypeOK, NEW r \in Runs, NEW c \in Ctx, NEW label \in Saving, Commit(r, c, label),
         NEW l2, Await(Others, r, c, l2), <<label, l2>> \in Continues, l2 # "prepared",
         UNCHANGED <<cmds, postVars, histVars>>
  PROVE  Shape
  <1>1. Taken /\ Alone(r, c) /\ pc'[<<r, c>>] # "prepared"
    BY AwaitShape DEF Commit, Keeps
  <1> QED BY <1>1, QuietShape

LEMMA SaveIssueShape ==
  ASSUME TypeOK, NEW r \in Runs, NEW c \in Ctx, NEW label \in Saving, Commit(r, c, label),
         NEW l2, NEW R2, Issue(Others, r, c, l2, R2), l2 # "prepared",
         \/ Marks(label, rec[<<r, c>>], event[r], l2, R2)
         \/ Moves(r, label, rec[<<r, c>>], l2, R2),
         UNCHANGED <<cmds, postVars, histVars>>
  PROVE  Shape
  <1>1. Taken /\ Alone(r, c) /\ pc'[<<r, c>>] # "prepared"
    BY IssueShape DEF Commit, Acts
  <1> QED BY <1>1, QuietShape

LEMMA SaveDoneShape ==
  ASSUME TypeOK, NEW r \in Runs, NEW c \in Ctx, NEW label \in Saving, Commit(r, c, label),
         Done(Others, r, c), UNCHANGED <<cmds, postVars, histVars>>
  PROVE  Shape
  BY DoneShape, QuietShape

LEMMA StartingShape ==
  ASSUME TypeOK, NEW r \in Runs, NEW c \in Ctx, Starting(r, c)
  PROVE  Shape
  <1> DEFINE R == rec[<<r, c>>]
  <1>1. CASE RunCreated(r, c)
    BY <1>1, SaveAwaitShape DEF RunCreated, Saving, Continues
  <1>2. CASE Resolve(r, c)
    <2>1. /\ pc[<<r, c>>] = "resolve" /\ "resolve" \notin Saving
          /\ NoCommit /\ UNCHANGED <<cmds, postVars, histVars>>
      BY <1>2 DEF Resolve, Saving
    <2>2. /\ Keeps(r, "resolve", R, event[r], "fail")
          /\ Moves(r, "resolve", R, "policy_checked", Move(R, "policy_checked"))
      BY DEF Keeps, Continues, Moves
    <2>3. Taken /\ Alone(r, c) /\ pc'[<<r, c>>] # "prepared"
      BY <1>2, <2>1, <2>2, AwaitShape, IssueShape DEF Resolve, Acts
    <2> QED BY <2>1, <2>3, QuietShape
  <1>3. CASE PolicyChecked(r, c)
    <2>1. /\ Plan[r].confirm = "before_run" =>
               Moves(r, "policy_checked", R, "confirm_requested", AskConfirmation(r, R))
          /\ Moves(r, "policy_checked", R, "opening", Move(R, "opening_tab"))
      BY DEF Moves
    <2> QED BY <1>3, <2>1, SaveIssueShape DEF PolicyChecked, Saving
  <1>4. CASE ConfirmationRequested(r, c)
    BY <1>4, SaveIssueShape DEF ConfirmationRequested, Saving, Marks
  <1>5. CASE TabOpening(r, c)
    BY <1>5, SaveAwaitShape DEF TabOpening, Saving, Continues
  <1>6. CASE ListTabs(r, c)
    <2>1. pc'[<<r, c>>] = "pick_tab"
      BY <1>6 DEF ListTabs, TypeOK, TasksOK, Tasks
    <2>2. Alone(r, c)
      BY <1>6 DEF ListTabs, TypeOK, TasksOK, Alone, EventStep
    <2>3. Taken
      <3> SUFFICES ASSUME NEW t \in Tasks PROVE TaskStep(t)
        BY DEF Taken
      <3>1. CASE t = <<r, c>>
        BY <1>6, <2>1, <3>1 DEF ListTabs, TaskStep, Acts, Keeps, Continues
      <3>2. CASE t # <<r, c>>
        BY <1>6, <3>2 DEF ListTabs, TypeOK, TasksOK, TaskStep
      <3> QED BY <3>1, <3>2
    <2> QED BY <1>6, <2>1, <2>2, <2>3, QuietShape DEF ListTabs, Saving
  <1>7. CASE PickTab(r, c)
    <2>1. Taken /\ Alone(r, c) /\ pc'[<<r, c>>] # "prepared"
      <3>1. CASE Throw(writes, r, c)
        BY <3>1, ThrowShape
      <3>2. ASSUME NEW t \in Tabs, Occupy(r, c, "waiting", t)
            PROVE  Taken /\ Alone(r, c) /\ pc'[<<r, c>>] # "prepared"
        BY <1>7, <3>2, OccupyShape DEF PickTab
      <3> QED BY <1>7, <3>1, <3>2 DEF PickTab, ReuseTab, CreateTab
    <2> QED BY <1>7, <2>1, QuietShape DEF PickTab, Saving
  <1>8. CASE TabOccupied(r, c)
    <2> DEFINE S == [R EXCEPT !.accepted = TRUE]
    <2>1. \/ Commit(r, c, "waiting") /\ Issue(Others, r, c, "accepted", S)
          \/ Commit(r, c, "repicked") /\ Issue(Others, r, c, "reaccepted", S)
      BY <1>8 DEF TabOccupied
    <2>2. /\ Marks("waiting", R, event[r], "accepted", S)
          /\ Marks("repicked", R, event[r], "reaccepted", S)
      BY DEF Marks
    <2> HIDE DEF S
    <2>3. Taken /\ Alone(r, c) /\ pc'[<<r, c>>] # "prepared"
      BY <2>1, <2>2, IssueShape DEF Commit, Acts
    <2> QED BY <1>8, <2>1, <2>3, QuietShape DEF TabOccupied, Saving
  <1>9. CASE Accepted(r, c)
    <2> DEFINE next == IF c # "queue" /\ port[R.tab] # 0 THEN {<<r, "resume">>} ELSE {}
    <2>1. next \in SUBSET (Runs \X {"resume", "observe"})
      OBVIOUS
    <2>2. Taken /\ Alone(r, c) /\ pc'[<<r, c>>] = "idle"
      <3>1. CASE Commit(r, c, "accepted") /\ DoneStarting(Others, r, c, next)
        <4> HIDE DEF next
        <4> QED BY <2>1, <3>1, DoneStartingShape
      <3>2. CASE Done(Others, r, c)
        BY <3>2, DoneShape
      <3> QED BY <1>9, <3>1, <3>2 DEF Accepted
    <2> QED BY <1>9, <2>2, QuietShape DEF Accepted, Saving
  <1> QED BY <1>1, <1>2, <1>3, <1>4, <1>5, <1>6, <1>7, <1>8, <1>9 DEF Starting

LEMMA CompletePendingShape ==
  ASSUME TypeOK, NEW r \in Runs, NEW label \in Saving,
         LET R == rec[<<r, "queue">>] IN
         /\ Reported(label, R, event[r])
         /\ CompletePending(r, R),
         pc[<<r, "queue">>] = label
  PROVE  Taken /\ Alone(r, "queue") /\ pc'[<<r, "queue">>] # "prepared"
  <1> DEFINE R == rec[<<r, "queue">>]
             T == NextStep(R, event[r])
  <1>1. \E l2 \in {"finishing", "confirm_requested", "advanced"} : \E R2 :
          /\ Issue(Others, r, "queue", l2, R2)
          /\ Completes(r, label, R, event[r], l2, R2)
    BY DEF CompletePending, Completes, NextStep
  <1> QED BY <1>1, IssueShape DEF Acts, Ctx

LEMMA PageContinuesShape ==
  ASSUME TypeOK, NEW r \in Runs, NEW label \in {"page_saved", "attested"},
         pc[<<r, "queue">>] = label,
         PageContinues(r, rec[<<r, "queue">>], event[r]),
         label = "page_saved" =>
           ~(/\ rec[<<r, "queue">>].status = "waiting_for_page"
             /\ rec[<<r, "queue">>].conf.state = "approved")
  PROVE  Taken /\ Alone(r, "queue") /\ pc'[<<r, "queue">>] # "prepared"
  <1> DEFINE R == rec[<<r, "queue">>]
             e == event[r]
  <1>0. label \in Saving /\ "queue" \in Ctx
    BY DEF Saving, Ctx
  <1>1. CASE ShowsEffect(R, e.doc, e) /\ CompletePending(r, R)
    <2>1. Reported(label, R, e)
      BY <1>1 DEF Reported
    <2> QED BY <1>0, <1>1, <2>1, CompletePendingShape
  <1>2. CASE Done(Others, r, "queue") \/ Throw(Others, r, "queue")
    BY <1>0, <1>2, DoneShape, ThrowShape
  <1>3. CASE Await(Others, r, "queue", "fail")
    BY <1>0, <1>3, AwaitShape DEF Keeps, Continues
  <1>4. CASE /\ R.status = "waiting_for_page" /\ R.step \in Steps(r)
             /\ NeedsConfirmation(r, R, R.step)
             /\ Issue(Others, r, "queue", "confirm_requested", AskConfirmation(r, R))
    <2>1. Dispatches(r, "queue", label, R, store[r], cmds[r], "confirm_requested",
                     AskConfirmation(r, R))
      BY <1>4 DEF Dispatches
    <2> QED BY <1>0, <1>4, <2>1, IssueShape DEF Acts
  <1>5. CASE /\ R.status = "waiting_for_page" /\ R.step \in Steps(r)
             /\ ~NeedsConfirmation(r, R, R.step)
             /\ Await(Others, r, "queue", "prepare")
    <2>1. Keeps(r, label, R, e, "prepare")
      BY <1>5 DEF Keeps
    <2> QED BY <1>0, <1>5, <2>1, AwaitShape
  <1> QED BY <1>1, <1>2, <1>3, <1>4, <1>5 DEF PageContinues, PrepareNext

LEMMA EventSavedShape ==
  ASSUME TypeOK, NEW r \in Runs, EventSaved(r)
  PROVE  Shape
  <1> DEFINE R == rec[<<r, "queue">>]
             e == event[r]
  <1>0. pc[<<r, "queue">>] = "event_saved" /\ "event_saved" \in Saving /\ "queue" \in Ctx
    BY DEF EventSaved, Commit, Saving, Ctx
  <1>1. ASSUME Taken /\ Alone(r, "queue") /\ pc'[<<r, "queue">>] # "prepared"
        PROVE  Shape
    BY <1>0, <1>1, QuietShape DEF EventSaved
  <1>2. CASE Await(Others, r, "queue", "fail")
    BY <1>0, <1>1, <1>2, AwaitShape DEF Keeps, Continues
  <1>3. CASE Done(Others, r, "queue") \/ Throw(Others, r, "queue")
    BY <1>0, <1>1, <1>3, DoneShape, ThrowShape
  <1>4. CASE /\ e.type = "page"
             /\ Issue(Others, r, "queue", "page_saved", [R EXCEPT !.doc = e.doc, !.rev = TRUE])
    <2>1. Marks("event_saved", R, e, "page_saved", [R EXCEPT !.doc = e.doc, !.rev = TRUE])
      BY <1>4 DEF Marks
    <2> QED BY <1>0, <1>1, <1>4, <2>1, IssueShape DEF Acts
  <1>5. CASE /\ e.type = "completed" /\ CompletedEventSaved(r, R, e)
             /\ CompletePending(r, R)
             /\ R.status \in {"waiting_for_effect", "waiting_for_navigation", "extracting"}
             /\ WaitsForPending(R, e) /\ e.ok
    <2>1. Reported("event_saved", R, e)
      BY <1>5 DEF Reported
    <2> QED BY <1>0, <1>1, <1>5, <2>1, CompletePendingShape
  <1>6. CASE /\ e.type = "confirm" /\ e.ok /\ R.status = "awaiting_confirmation"
             /\ Await(Others, r, "queue", "reauthorize")
    <2>1. Keeps(r, "event_saved", R, e, "reauthorize")
      BY <1>6 DEF Keeps
    <2> QED BY <1>0, <1>1, <1>6, <2>1, AwaitShape
  <1>7. CASE e.type = "page" /\ PageEventSaved(r, R, e)
    BY <1>2, <1>3, <1>4, <1>7 DEF PageEventSaved
  <1>8. CASE e.type = "completed" /\ CompletedEventSaved(r, R, e)
    BY <1>2, <1>3, <1>5, <1>8 DEF CompletedEventSaved
  <1>9. CASE e.type = "failed" /\ FailedEventSaved(r, R, e)
    BY <1>2, <1>3, <1>9 DEF FailedEventSaved
  <1>10. CASE e.type = "confirm" /\ ConfirmEventSaved(r, R, e)
    BY <1>2, <1>3, <1>6, <1>10 DEF ConfirmEventSaved
  <1> QED BY <1>2, <1>7, <1>8, <1>9, <1>10 DEF EventSaved

LEMMA PageSavedShape ==
  ASSUME TypeOK, NEW r \in Runs, PageSaved(r) \/ Attested(r)
  PROVE  Shape
  <1> DEFINE R == rec[<<r, "queue">>]
             e == event[r]
  <1>0. "page_saved" \in Saving /\ "attested" \in Saving /\ "queue" \in Ctx
    BY DEF Saving, Ctx
  <1>1. CASE PageSaved(r)
    <2>1. pc[<<r, "queue">>] = "page_saved"
      BY <1>1 DEF PageSaved, Commit
    <2>2. Taken /\ Alone(r, "queue") /\ pc'[<<r, "queue">>] # "prepared"
      <3>1. CASE Await(Others, r, "queue", "fail")
        BY <1>0, <2>1, <3>1, AwaitShape DEF Keeps, Continues
      <3>2. CASE /\ R.status = "waiting_for_page" /\ R.conf.state = "approved" /\ Attests(R, e)
                 /\ Issue(Others, r, "queue", "attested", [R EXCEPT !.conf.state = "attested"])
        <4>1. Marks("page_saved", R, e, "attested", [R EXCEPT !.conf.state = "attested"])
          BY <3>2 DEF Marks
        <4> QED BY <1>0, <2>1, <3>2, <4>1, IssueShape DEF Acts
      <3>3. CASE /\ ~(R.status = "waiting_for_page" /\ R.conf.state = "approved")
                 /\ PageContinues(r, R, e)
        BY <2>1, <3>3, PageContinuesShape
      <3> QED BY <1>1, <3>1, <3>2, <3>3 DEF PageSaved
    <2> QED BY <1>0, <1>1, <2>2, QuietShape DEF PageSaved
  <1>2. CASE Attested(r)
    <2>1. pc[<<r, "queue">>] = "attested" /\ PageContinues(r, R, e)
      BY <1>2 DEF Attested, Commit
    <2>2. Taken /\ Alone(r, "queue") /\ pc'[<<r, "queue">>] # "prepared"
      BY <2>1, PageContinuesShape
    <2> QED BY <1>0, <1>2, <2>2, QuietShape DEF Attested
  <1> QED BY <1>1, <1>2

LEMMA PrepareShape ==
  ASSUME TypeOK, NEW r \in Runs, Prepare(r)
  PROVE  Shape
  <1> DEFINE R == rec[<<r, "queue">>]
             T == Commanded(R, cmds[r])
             l == pc[<<r, "queue">>]
             S == IF l = "prepare" THEN Move(T, CommandStatus(r, R.step)) ELSE T
  <1>0. "queue" \in Ctx /\ l \notin Saving /\ l \in {"prepare", "prepare_next"} /\ NoCommit
    BY DEF Prepare, Saving, Ctx
  <1>1. Issue(writes, r, "queue", "prepared", S)
    BY DEF Prepare, Commanded
  <1>2. Dispatches(r, "queue", l, R, store[r], cmds[r], "prepared", S)
    BY <1>0 DEF Dispatches
  <1> HIDE DEF S
  <1>3. Taken /\ Alone(r, "queue") /\ pc'[<<r, "queue">>] = "prepared"
    BY <1>0, <1>1, <1>2, IssueShape DEF Acts
  <1>4. StoreStep
    BY <1>0, <1>3, StoreShape
  <1>5. CommandStep
    <2> SUFFICES ASSUME NEW q \in Runs
                 PROVE  cmds'[q] = IF /\ pc[<<q, "queue">>] \in {"prepare", "prepare_next"}
                                      /\ pc'[<<q, "queue">>] = "prepared"
                                   THEN cmds[q] + 1 ELSE cmds[q]
      BY DEF CommandStep
    <2>1. <<q, "queue">> \in Tasks
      BY DEF Tasks, Ctx
    <2>2. cmds' = [cmds EXCEPT ![r] = @ + 1] /\ cmds \in [Runs -> Nat]
      BY DEF Prepare, TypeOK, WorkerOK
    <2> QED BY <1>0, <1>3, <2>1, <2>2 DEF Alone
  <1>6. PostStep /\ HeardStep
    BY DEF Prepare, PostStep, HeardStep, postVars
  <1> QED BY <1>3, <1>4, <1>5, <1>6 DEF Shape, Taken, Alone

\* A command that is posted goes to a document that is bound to a tab.
LEMMA PostShape ==
  ASSUME TypeOK, NEW r \in Runs, NEW R \in Record, PostCommand(r, R)
  PROVE  /\ Posts(r, R)
         /\ \A q \in Runs \ {r} : UNCHANGED <<posted[q], repeated[q]>>
  <1>1. CASE R.tab # NoTab /\ port[R.tab] # 0
    <2>1. port[R.tab] \in Docs
      BY <1>1 DEF TypeOK, PortsOK, Record
    <2> QED BY <1>1, <2>1 DEF PostCommand, Posts, TypeOK, HistoryOK
  <1>2. CASE ~(R.tab # NoTab /\ port[R.tab] # 0)
    BY <1>2 DEF PostCommand, Posts, postVars
  <1> QED BY <1>1, <1>2

LEMMA DispatchedStepShape ==
  ASSUME DispatchInv, NEW r \in Runs, NEW c \in Ctx, Prepared(r) \/ Dispatched(r, c)
  PROVE  Shape
  <1> USE DEF DispatchInv
  <1>1. CASE Prepared(r)
    <2> DEFINE R == rec[<<r, "queue">>]
    <2>1. pc[<<r, "queue">>] = "prepared" /\ "prepared" \in Saving /\ "queue" \in Ctx
      BY <1>1 DEF Prepared, Commit, Saving, Ctx
    <2>2. R.status \in {"dispatching_step", "extracting"} /\ ~R.pending.sent
      BY <2>1 DEF CopiesSound, Ready, Tasks
    <2>3. Issue(Others, r, "queue", "dispatched", Sent(r, R)) /\ UNCHANGED <<postVars, armed>>
      BY <1>1, <2>2 DEF Prepared, Dispatch, Sent
    <2>4. Dispatches(r, "queue", "prepared", R, store[r], cmds[r], "dispatched", Sent(r, R))
      BY DEF Dispatches
    <2>5. Taken /\ Alone(r, "queue") /\ pc'[<<r, "queue">>] # "prepared"
      BY <2>1, <2>3, <2>4, IssueShape DEF Acts
    <2> QED BY <1>1, <2>1, <2>3, <2>5, QuietShape DEF Prepared
  <1>2. CASE Dispatched(r, c)
    <2>0. pc[<<r, c>>] = "dispatched" /\ "dispatched" \in Saving
      BY <1>2 DEF Dispatched, Commit, Saving
    <2>1. Taken /\ Alone(r, c) /\ pc'[<<r, c>>] = "idle"
      BY <1>2, DoneShape DEF Dispatched
    <2>2. StoreStep /\ CommandStep
      BY <1>2, <2>0, <2>1, StoreShape, NoPrepareShape DEF Dispatched
    <2>3. PostStep
      BY <1>2, <2>0, <2>1, PostShape, CopyType DEF Dispatched, PostStep, TypeOK
    <2> QED BY <1>2, <2>1, <2>2, <2>3 DEF Dispatched, HeardStep, Shape, Taken, Alone
  <1> QED BY <1>1, <1>2

LEMMA TakeStopShape ==
  ASSUME TypeOK, NEW r \in Runs, NEW k \in Stops, TakeStop(r, k)
  PROVE  Shape
  <1>0. <<r, "queue">> \in Tasks /\ "queue" \in Ctx /\ pc[<<r, "queue">>] = "idle"
    BY DEF TakeStop, Tasks, Ctx
  <1>1. \/ UNCHANGED <<pc, rec, event>>
        \/ /\ pc' = [pc EXCEPT ![<<r, "queue">>] = "fail"] /\ UNCHANGED rec
           /\ event' = [event EXCEPT ![r] = [NoEvent EXCEPT !.type = "stop"]]
    BY DEF TakeStop
  <1>2. Alone(r, "queue") /\ pc'[<<r, "queue">>] # "prepared"
    BY <1>0, <1>1 DEF Alone, EventStep, TypeOK, TasksOK
  <1>3. Taken
    <2> SUFFICES ASSUME NEW t \in Tasks, pc'[t] # pc[t] PROVE TaskStep(t)
      BY <1>1 DEF Taken, TaskStep
    <2>1. t = <<r, "queue">> /\ pc[t] = "idle" /\ pc'[t] = "fail" /\ rec'[t] = rec[t]
      BY <1>0, <1>1 DEF TypeOK, TasksOK
    <2> QED BY <2>1 DEF TaskStep, Acts, Keeps, Continues
  <1>4. NoCommit /\ "idle" \notin Saving /\ UNCHANGED <<cmds, postVars, histVars>>
    BY DEF TakeStop, Saving
  <1> QED BY <1>0, <1>2, <1>3, <1>4, QuietShape

LEMMA HandlingShape ==
  ASSUME DispatchInv, NEW r \in Runs, Handling(r)
  PROVE  Shape
  <1> DEFINE R == rec[<<r, "queue">>]
  <1>0. TypeOK /\ "queue" \in Ctx
    BY DEF DispatchInv, Ctx
  <1>1. CASE EventLoaded(r)
    <2>1. Issue(writes, r, "queue", "event_saved", R) /\ pc[<<r, "queue">>] = "loaded"
      BY <1>1 DEF EventLoaded
    <2>2. Keeps(r, "loaded", R, event[r], "event_saved") /\ "loaded" \notin Saving
      BY DEF Keeps, Continues, Saving
    <2>3. Taken /\ Alone(r, "queue") /\ pc'[<<r, "queue">>] # "prepared"
      BY <1>0, <2>1, <2>2, IssueShape DEF Acts
    <2> QED BY <1>0, <1>1, <2>1, <2>2, <2>3, QuietShape DEF EventLoaded
  <1>2. CASE StepAdvanced(r)
    BY <1>0, <1>2, SaveAwaitShape DEF StepAdvanced, Saving, Continues
  <1>3. CASE LastStepSaved(r)
    <2>1. Moves(r, "finishing", R, "terminal", End(R, "completed"))
      BY DEF Moves
    <2> QED BY <1>0, <1>3, <2>1, SaveIssueShape DEF LastStepSaved, Saving
  <1>4. CASE Reauthorize(r)
    <2>0. "reauthorize" \notin Saving
      BY DEF Saving
    <2>1. CASE Await(writes, r, "queue", "fail")
      BY <1>0, <1>4, <2>0, <2>1, AwaitShape, QuietShape DEF Reauthorize, Keeps, Continues
    <2>2. ASSUME NEW l2 \in {"reopened", "approved"}, NEW S,
                 Issue(writes, r, "queue", l2, S), Moves(r, "reauthorize", R, l2, S)
          PROVE  Shape
      <3>1. pc[<<r, "queue">>] = "reauthorize" /\ NoCommit
            /\ UNCHANGED <<cmds, postVars, histVars>>
        BY <1>4 DEF Reauthorize
      <3>2. Taken /\ Alone(r, "queue") /\ pc'[<<r, "queue">>] # "prepared"
        BY <1>0, <2>2, <3>1, IssueShape DEF Acts
      <3> QED BY <1>0, <2>0, <3>1, <3>2, QuietShape
    <2>3. \/ Await(writes, r, "queue", "fail")
          \/ \E l2 \in {"reopened", "approved"} : \E S :
               Issue(writes, r, "queue", l2, S) /\ Moves(r, "reauthorize", R, l2, S)
      <3>1. /\ Plan[r].confirm = "before_run" =>
                 Moves(r, "reauthorize", R, "reopened",
                       [Move(R, "opening_tab") EXCEPT !.conf.state = "attested"])
            /\ Plan[r].confirm # "before_run" =>
                 Moves(r, "reauthorize", R, "approved",
                       [Move(R, "waiting_for_page") EXCEPT !.conf.state = "approved"])
        BY DEF Moves
      <3> QED BY <1>4, <3>1 DEF Reauthorize
    <2> QED BY <2>1, <2>2, <2>3
  <1>5. CASE Approved(r)
    BY <1>0, <1>5, SaveDoneShape DEF Approved, Saving
  <1> QED BY <1>0, <1>1, <1>2, <1>3, <1>4, <1>5, EventSavedShape, PageSavedShape, PrepareShape,
             DispatchedStepShape DEF Handling

LEMMA EndingShape ==
  ASSUME DispatchInv, NEW r \in Runs, NEW c \in Ctx, Ending(r, c)
  PROVE  Shape
  <1>0. TypeOK
    BY DEF DispatchInv
  <1>1. CASE Fail(r, c)
    <2>0. pc[<<r, c>>] = "fail" /\ "fail" \notin Saving
      BY <1>1 DEF Fail, Saving
    <2>1. \/ Done(writes, r, c)
          \/ /\ IsActive(store[r])
             /\ \E s \in {"failed", "cancelled"} :
                  Issue(writes, r, c, "terminal", End(store[r], s))
      BY <1>1 DEF Fail
    <2>2. ASSUME NEW s \in {"failed", "cancelled"}, IsActive(store[r]),
                 Issue(writes, r, c, "terminal", End(store[r], s))
          PROVE  Taken /\ Alone(r, c) /\ pc'[<<r, c>>] # "prepared"
      <3>1. Loads(r, c, "fail", store[r], "terminal", End(store[r], s))
        BY <2>2 DEF Loads
      <3> QED BY <1>0, <2>0, <2>2, <3>1, IssueShape DEF Acts
    <2>3. Taken /\ Alone(r, c) /\ pc'[<<r, c>>] # "prepared"
      BY <1>0, <2>1, <2>2, DoneShape
    <2> QED BY <1>0, <1>1, <2>0, <2>3, QuietShape DEF Fail
  <1>2. CASE TerminalSaved(r, c)
    <2>1. Taken /\ Alone(r, c) /\ pc'[<<r, c>>] # "prepared"
      BY <1>0, <1>2, DoneStartingShape DEF TerminalSaved
    <2> QED BY <1>0, <1>2, <2>1, QuietShape DEF TerminalSaved, Saving
  <1>3. CASE LastSaved(r, c)
    BY <1>0, <1>3, SaveDoneShape DEF LastSaved, Saving
  <1> QED BY <1>1, <1>2, <1>3, DispatchedStepShape DEF Ending

LEMMA ObservingShape ==
  ASSUME TypeOK, NEW r \in Runs, Observing(r)
  PROVE  Shape
  <1>0. "observe" \in Ctx /\ "observe" \notin Saving /\ "observed" \notin Saving
    BY DEF Ctx, Saving
  <1>1. CASE StoreObservation(r)
    BY <1>0, <1>1, AwaitShape, DoneShape, QuietShape DEF StoreObservation, Keeps, Continues
  <1>2. CASE ObservationStored(r)
    <2> DEFINE S == [store[r] EXCEPT !.observed = TRUE]
    <2>1. Loads(r, "observe", "observed", store[r], "last", S)
      BY DEF Loads
    <2>2. Done(writes, r, "observe") \/ Issue(writes, r, "observe", "last", S)
      BY <1>2 DEF ObservationStored
    <2> HIDE DEF S
    <2>3. Taken /\ Alone(r, "observe") /\ pc'[<<r, "observe">>] # "prepared"
      BY <1>0, <1>2, <2>1, <2>2, DoneShape, IssueShape DEF ObservationStored, Acts
    <2> QED BY <1>0, <1>2, <2>3, QuietShape DEF ObservationStored
  <1> QED BY <1>1, <1>2 DEF Observing

LEMMA ResumeShape ==
  ASSUME DispatchInv, NEW r \in Runs, Resume(r)
  PROVE  Shape
  <1> DEFINE R == store[r]
  <1>0. /\ TypeOK /\ "resume" \in Ctx /\ "resume" \notin Saving /\ R \in Record
        /\ pc[<<r, "resume">>] = "resume" /\ NoCommit /\ UNCHANGED <<cmds, histVars>>
    BY DEF DispatchInv, TypeOK, RecordsOK, Ctx, Saving, Resume
  <1>1. CASE /\ UNCHANGED postVars
             /\ Await(writes, r, "resume", "fail") \/ Done(writes, r, "resume")
    BY <1>0, <1>1, AwaitShape, DoneShape, QuietShape DEF Keeps, Continues
  <1>2. CASE /\ R.status \in {"waiting_for_effect", "extracting"} /\ R.pending.cmd # 0
             /\ Plan[r].safe /\ Dispatch(writes, r, "resume", R)
    <2>1. CASE R.status = "extracting" /\ ~R.pending.sent
      <3>1. Issue(writes, r, "resume", "dispatched", Sent(r, R)) /\ UNCHANGED <<postVars, armed>>
        BY <1>2, <2>1 DEF Dispatch, Sent
      <3>2. Dispatches(r, "resume", "resume", rec[<<r, "resume">>], R, cmds[r], "dispatched",
                       Sent(r, R))
        BY <1>2, <2>1 DEF Dispatches
      <3>3. Taken /\ Alone(r, "resume") /\ pc'[<<r, "resume">>] # "prepared"
        BY <1>0, <3>1, <3>2, IssueShape DEF Acts
      <3> QED BY <1>0, <3>1, <3>3, QuietShape
    <2>2. CASE ~(R.status = "extracting" /\ ~R.pending.sent)
      <3>1. PostCommand(r, R) /\ Done(writes, r, "resume")
        BY <1>2, <2>2 DEF Dispatch
      <3>2. Taken /\ Alone(r, "resume") /\ pc'[<<r, "resume">>] = "idle"
        BY <1>0, <3>1, DoneShape
      <3>3. StoreStep /\ CommandStep
        BY <1>0, <3>2, StoreShape, NoPrepareShape
      <3>4. PostStep
        BY <1>0, <1>2, <3>1, PostShape DEF PostStep
      <3> QED BY <1>0, <3>2, <3>3, <3>4 DEF HeardStep, Shape, Taken, Alone
    <2> QED BY <2>1, <2>2
  <1> QED BY <1>1, <1>2 DEF Resume

LEMMA RecoveringShape ==
  ASSUME DispatchInv, NEW r \in Runs, Recovering(r)
  PROVE  Shape
  <1> DEFINE R == rec[<<r, "recover">>]
             l == pc[<<r, "recover">>]
  <1>0. /\ TypeOK /\ "recover" \in Ctx /\ NoCommit
        /\ l \in {"queued", "authorize", "repick_tab"} /\ l \notin Saving
        /\ UNCHANGED <<cmds, histVars>>
    BY DEF DispatchInv, Ctx, Saving, Recovering, RecoverTerminal, RecoverActive, RecoverRefused,
           RecoverOpening, RepickTab, RecoverDispatch, RecoverWaiting, NextInRecovery
  <1>1. ASSUME UNCHANGED postVars, Taken, Alone(r, "recover"), pc'[<<r, "recover">>] # "prepared"
        PROVE  Shape
    BY <1>0, <1>1, QuietShape
  <1>2. CASE RecoverTerminal(r)
    <2> DEFINE next == IF store[r].observed THEN {} ELSE {<<r, "observe">>}
    <2>1. next \in SUBSET (Runs \X {"resume", "observe"})
      OBVIOUS
    <2>2. DoneStarting(writes, r, "recover", next) /\ UNCHANGED postVars
      BY <1>2 DEF RecoverTerminal
    <2> HIDE DEF next
    <2> QED BY <1>0, <1>1, <2>1, <2>2, DoneStartingShape
  <1>3. CASE RecoverActive(r)
    <2>1. \/ Await(writes, r, "recover", "fail")
          \/ R.status = "created" /\ Await(writes, r, "recover", "resolve")
          \/ ~IsTerminal(R) /\ Await(writes, r, "recover", "authorize")
      BY <1>3 DEF RecoverActive
    <2>2. l = "queued" /\ UNCHANGED postVars
      BY <1>3 DEF RecoverActive, NextInRecovery
    <2> QED BY <1>0, <1>1, <2>1, <2>2, AwaitShape DEF Keeps, Continues
  <1>4. CASE RecoverRefused(r)
    BY <1>0, <1>1, <1>4, AwaitShape DEF RecoverRefused, Keeps, Continues
  <1>5. CASE RecoverOpening(r)
    <2>1. Moves(r, "authorize", R, "opening", Move(R, "opening_tab")) \/ R.status # "policy_checked"
      BY DEF Moves
    <2>2. Keeps(r, "authorize", R, event[r], "repick_tab") \/ R.status # "opening_tab"
      BY DEF Keeps
    <2> QED BY <1>0, <1>1, <1>5, <2>1, <2>2, AwaitShape, IssueShape DEF RecoverOpening, Acts
  <1>6. CASE RepickTab(r)
    <2>1. l = "repick_tab" /\ UNCHANGED postVars
      BY <1>6 DEF RepickTab
    <2>2. CASE Throw(writes, r, "recover") \/ Await(writes, r, "recover", "fail")
      BY <1>0, <1>1, <2>1, <2>2, ThrowShape, AwaitShape DEF Keeps, Continues
    <2>3. ASSUME NEW t \in Tabs, Occupy(r, "recover", "repicked", t)
          PROVE  Shape
      BY <1>0, <1>1, <2>1, <2>3, OccupyShape
    <2> QED BY <1>6, <2>2, <2>3 DEF RepickTab, ReuseTab, CreateTab
  <1>7. CASE RecoverDispatch(r)
    <2>1. CASE Throw(writes, r, "recover") /\ UNCHANGED postVars
      BY <1>0, <1>1, <2>1, ThrowShape
    <2>2. CASE Dispatch(writes, r, "recover", R)
      <3>1. R.status = "dispatching_step" /\ l = "authorize"
        BY <1>7 DEF RecoverDispatch
      <3>2. Issue(writes, r, "recover", "dispatched", Sent(r, R)) /\ UNCHANGED <<postVars, armed>>
        BY <2>2, <3>1 DEF Dispatch, Sent
      <3>3. Dispatches(r, "recover", l, R, store[r], cmds[r], "dispatched", Sent(r, R))
        BY <3>1 DEF Dispatches
      <3> QED BY <1>0, <1>1, <3>2, <3>3, IssueShape DEF Acts
    <2> QED BY <1>7, <2>1, <2>2 DEF RecoverDispatch
  <1>8. CASE RecoverWaiting(r)
    BY <1>0, <1>1, <1>8, DoneShape DEF RecoverWaiting
  <1> QED BY <1>2, <1>3, <1>4, <1>5, <1>6, <1>7, <1>8 DEF Recovering

LEMMA TakeShape ==
  ASSUME TypeOK, NEW r \in Runs, NEW e, NEW R, Take(r, e, R), Hears(r)
  PROVE  Shape
  <1>0. /\ <<r, "queue">> \in Tasks /\ "queue" \in Ctx /\ "idle" \notin Saving
        /\ pc[<<r, "queue">>] = "idle" /\ NoCommit /\ UNCHANGED <<cmds, postVars>>
    BY DEF Take, Vacant, Tasks, Ctx, Saving
  <1>1. /\ pc' = [pc EXCEPT ![<<r, "queue">>] = "loaded"]
        /\ rec' = [rec EXCEPT ![<<r, "queue">>] = R]
        /\ event' = [event EXCEPT ![r] = e]
    BY DEF Take
  <1>2. Alone(r, "queue") /\ pc'[<<r, "queue">>] = "loaded"
    <2>1. \A q \in Runs : event'[q] = event[q] \/ Hears(q)
      BY <1>1 DEF TypeOK, TasksOK
    <2> QED BY <1>0, <1>1, <2>1 DEF Alone, EventStep, TypeOK, TasksOK
  <1>3. Taken
    <2> SUFFICES ASSUME NEW t \in Tasks PROVE TaskStep(t)
      BY DEF Taken
    <2>1. CASE t = <<r, "queue">>
      BY <2>1 DEF TaskStep
    <2>2. CASE t # <<r, "queue">>
      BY <1>1, <2>2 DEF TypeOK, TasksOK, TaskStep
    <2> QED BY <2>1, <2>2
  <1>4. StoreStep /\ CommandStep
    BY <1>0, <1>2, StoreShape, NoPrepareShape
  <1>5. PostStep
    BY <1>0 DEF PostStep, postVars
  <1>6. HeardStep
    BY DEF HeardStep
  <1> QED BY <1>2, <1>3, <1>4, <1>5, <1>6 DEF Shape, Taken, Alone

LEMMA EventsShape ==
  ASSUME TypeOK, NEW r \in Runs, Events(r)
  PROVE  Shape
  <1>0. "queue" \in Ctx /\ "request" \in Ctx /\ "idle" \notin Saving
    BY DEF Ctx, Saving
  <1>1. CASE Request(r)
    <2>1. Loads(r, "request", "idle", store[r], "created", CreatedRun)
      BY <1>1 DEF Request, Loads
    <2>2. Taken /\ Alone(r, "request") /\ pc'[<<r, "request">>] # "prepared"
      BY <1>0, <1>1, <2>1, IssueShape DEF Request, Acts
    <2> QED BY <1>0, <1>1, <2>2, QuietShape DEF Request
  <1>2. CASE Hears(r)
    <2>1. ASSUME NEW e, TakeActorEvent(r, e)
          PROVE  Shape
      BY <1>2, <2>1, TakeShape DEF TakeActorEvent
    <2>2. CASE PageReady(r) \/ StepReported(r)
      BY <2>1, <2>2 DEF PageReady, StepReported
    <2>3. CASE Cancel(r) \/ \E ok \in BOOLEAN : Confirm(r, ok)
      BY <1>2, <2>3, TakeShape DEF Cancel, Confirm
    <2> QED BY <1>2, <2>2, <2>3 DEF Hears
  <1>3. CASE Acknowledge(r)
    <2> DEFINE S == [store[r] EXCEPT !.terminal = "acked"]
    <2>1. Loads(r, "queue", "idle", store[r], "last", S)
      BY <1>3 DEF Acknowledge, Loads
    <2>2. Issue(writes, r, "queue", "last", S) /\ pc[<<r, "queue">>] = "idle"
      BY <1>3 DEF Acknowledge, Vacant
    <2> HIDE DEF S
    <2>3. Taken /\ Alone(r, "queue") /\ pc'[<<r, "queue">>] # "prepared"
      BY <1>0, <2>1, <2>2, IssueShape DEF Acts
    <2> QED BY <1>0, <1>3, <2>2, <2>3, QuietShape DEF Acknowledge
  <1> QED BY <1>1, <1>2, <1>3 DEF Events, Hears

\* Without a worker no task is at work.
Asleep == ~up => \A t \in Tasks : pc[t] = "idle"

LEMMA Awake ==
  ASSUME NEW r \in Runs, NEW c \in Ctx, Working(r, c)
  PROVE  (up \/ pc[<<r, c>>] # "idle") /\ UNCHANGED up
  <1>1. CASE Starting(r, c)
    BY <1>1 DEF Starting, RunCreated, Resolve, PolicyChecked, ConfirmationRequested, TabOpening,
       ListTabs, PickTab, TabOccupied, Accepted, Commit, workerVars
  <1>2. CASE Ending(r, c)
    BY <1>2 DEF Ending, Fail, TerminalSaved, Dispatched, LastSaved, Commit, workerVars
  <1>3. CASE c = "queue" /\ Handling(r)
    BY <1>3 DEF Handling, EventLoaded, EventSaved, PageSaved, Attested, Prepare, Prepared,
       StepAdvanced, LastStepSaved, Reauthorize, Approved, Commit, workerVars
  <1>4. CASE c = "recover" /\ Recovering(r)
    BY <1>4 DEF Recovering, RecoverTerminal, RecoverActive, RecoverRefused, RecoverOpening,
       RepickTab, RecoverDispatch, RecoverWaiting, NextInRecovery, workerVars
  <1>5. CASE c = "resume" /\ Resume(r)
    BY <1>5 DEF Resume, workerVars
  <1>6. CASE c = "observe" /\ Observing(r)
    BY <1>6 DEF Observing, StoreObservation, ObservationStored, Commit, workerVars
  <1>7. ASSUME NEW k \in Stops, TakeStop(r, k)
        PROVE  (up \/ pc[<<r, c>>] # "idle") /\ UNCHANGED up
    BY <1>7 DEF TakeStop, workerVars
  <1> QED BY <1>1, <1>2, <1>3, <1>4, <1>5, <1>6, <1>7 DEF Working

LEMMA AsleepStep == Asleep /\ Next => Asleep'
  <1> SUFFICES ASSUME Asleep, Next, ~up'
               PROVE  \A t \in Tasks : pc'[t] = "idle"
    BY DEF Asleep
  <1>1. CASE Crash
    BY <1>1 DEF Crash
  <1>2. ASSUME NEW r \in Runs, NEW c \in Ctx, Working(r, c)
        PROVE  FALSE
    <2>1. up' = up /\ (up \/ pc[<<r, c>>] # "idle")
      BY <1>2, Awake
    <2>2. ~up
      BY <2>1, Zenon
    <2>3. pc[<<r, c>>] = "idle"
      BY <2>2 DEF Asleep, Tasks
    <2> QED BY <2>1, <2>2, <2>3
  <1>3. ASSUME NEW r \in Runs, Events(r)
        PROVE  FALSE
    <2>1. \A e, R : Take(r, e, R) => up /\ UNCHANGED up
      BY DEF Take, Vacant, workerVars
    <2>2. \A e : TakeActorEvent(r, e) => up /\ UNCHANGED up
      BY <2>1 DEF TakeActorEvent
    <2>3. up /\ UNCHANGED up
      <3>1. CASE Request(r) \/ Acknowledge(r)
        BY <3>1 DEF Request, Acknowledge, Vacant, workerVars
      <3>2. CASE PageReady(r) \/ StepReported(r)
        BY <2>2, <3>2 DEF PageReady, StepReported
      <3>3. CASE Cancel(r) \/ \E ok \in BOOLEAN : Confirm(r, ok)
        BY <2>1, <3>3 DEF Cancel, Confirm
      <3> QED BY <1>3, <3>1, <3>2, <3>3 DEF Events
    <2> QED BY <2>3
  <1>4. ASSUME Environment, ~Crash
        PROVE  UNCHANGED <<pc, up>>
    <2>1. ~WorkerStart /\ \A t \in Tabs : ~BindExecution(t)
      BY DEF WorkerStart, BindExecution, workerVars
    <2>2. ASSUME NEW t \in Tabs,
                 NewDocument(t) \/ CloseTab(t) \/ \E d \in Docs : Unbind(t, d)
          PROVE  UNCHANGED <<pc, up>>
      BY <2>2 DEF NewDocument, CloseTab, Unbind, workerVars, taskVars
    <2>3. ASSUME NEW r \in Runs,
                 \/ SourceDrop(r) \/ SourceExpire(r) \/ SourceBind(r) \/ SourceClose(r)
                 \/ FireTimer(r)
          PROVE  UNCHANGED <<pc, up>>
      BY <2>3 DEF SourceDrop, SourceExpire, SourceBind, SourceClose, SetSource, FireTimer,
         workerVars, taskVars
    <2> QED BY <1>4, <2>1, <2>2, <2>3 DEF Environment
  <1> QED BY <1>1, <1>2, <1>3, <1>4 DEF Next, Asleep

\* A step that touches no task and no record.
LEMMA StillShape ==
  ASSUME UNCHANGED <<store, durable, fate, taskVars, cmds, postVars, histVars>>
  PROVE  Shape
  <1>1. Taken /\ StoreStep /\ EventStep /\ CommandStep
    BY DEF Taken, TaskStep, StoreStep, NoCommit, EventStep, CommandStep, taskVars
  <1>2. PostStep /\ HeardStep
    BY DEF PostStep, HeardStep, postVars
  <1> QED BY <1>1, <1>2 DEF Shape, Taken

LEMMA EnvironmentShape ==
  ASSUME TypeOK, Asleep, Environment
  PROVE  Shape
  <1>1. CASE Crash
    <2>1. \A t \in Tasks : pc'[t] = "idle" /\ rec'[t] = NoRun
      BY <1>1 DEF Crash
    <2>2. Taken
      BY <2>1 DEF Taken, TaskStep, Acts, Rests
    <2>3. StoreStep
      <3>1. CASE NoCommit
        BY <2>1, <3>1 DEF StoreStep
      <3>2. CASE writes # <<>> /\ Commit(Head(writes)[1], Head(writes)[2], pc[Head(writes)])
        <4>1. Head(writes) \in Tasks
          BY <3>2, HeadTailProperties DEF TypeOK, TasksOK
        <4>2. ~up'
          BY <1>1 DEF Crash
        <4> QED BY <2>1, <3>2, <4>1, <4>2 DEF StoreStep
      <3> QED BY <1>1, <3>1, <3>2 DEF Crash
    <2>4. EventStep /\ CommandStep
      BY <1>1, <2>1 DEF Crash, EventStep, CommandStep, Tasks, Ctx
    <2>5. PostStep /\ HeardStep
      BY <1>1 DEF Crash, PostStep, HeardStep, postVars
    <2> QED BY <2>2, <2>3, <2>4, <2>5 DEF Shape, Taken
  <1>2. CASE WorkerStart
    <2>1. \A t \in Tasks : t[2] # "recover" => UNCHANGED <<pc[t], rec[t]>>
      BY <1>2 DEF WorkerStart
    <2>2. \A t \in Tasks : t[2] = "recover" =>
            /\ rec'[t] = store[t[1]]
            /\ pc'[t] = IF store[t[1]].status = "none" THEN "idle" ELSE "queued"
      BY <1>2 DEF WorkerStart
    <2>3. Taken
      BY <1>2, <2>1, <2>2 DEF Taken, TaskStep, WorkerStart
    <2>4. StoreStep
      BY <1>2 DEF WorkerStart, StoreStep, Asleep, Saving
    <2>5. EventStep /\ CommandStep /\ PostStep /\ HeardStep
      BY <1>2 DEF WorkerStart, Asleep, EventStep, CommandStep, PostStep, HeardStep, postVars, Tasks, Ctx
    <2> QED BY <2>3, <2>4, <2>5 DEF Shape, Taken
  <1>3. ASSUME NEW t \in Tabs, BindExecution(t)
        PROVE  Shape
    <2>1. \A k \in Tasks : \/ UNCHANGED <<pc[k], rec[k]>>
                           \/ /\ k[2] = "resume" /\ pc[k] = "idle" /\ pc'[k] = "resume"
                              /\ UNCHANGED rec[k]
      BY <1>3 DEF BindExecution
    <2>2. Taken
      BY <2>1 DEF Taken, TaskStep, Acts, Rests
    <2>3. StoreStep
      BY <1>3, <2>1 DEF BindExecution, StoreStep, Saving
    <2>4. EventStep /\ CommandStep /\ PostStep /\ HeardStep
      BY <1>3, <2>1 DEF BindExecution, EventStep, CommandStep, PostStep, HeardStep, postVars, Tasks, Ctx
    <2> QED BY <2>2, <2>3, <2>4 DEF Shape, Taken
  <1>4. ASSUME NEW t \in Tabs,
               NewDocument(t) \/ CloseTab(t) \/ \E d \in Docs : Unbind(t, d)
        PROVE  Shape
    BY <1>4, StillShape DEF NewDocument, CloseTab, Unbind
  <1>5. ASSUME NEW r \in Runs,
               \/ SourceDrop(r) \/ SourceExpire(r) \/ SourceBind(r) \/ SourceClose(r)
               \/ FireTimer(r)
        PROVE  Shape
    BY <1>5, StillShape
    DEF SourceDrop, SourceExpire, SourceBind, SourceClose, SetSource, FireTimer
  <1> QED BY <1>1, <1>2, <1>3, <1>4, <1>5 DEF Environment

LEMMA ShapeStep == DispatchInv /\ Asleep /\ Next => Shape
  <1> SUFFICES ASSUME DispatchInv, Asleep, Next
               PROVE  Shape
    OBVIOUS
  <1>0. TypeOK
    BY DEF DispatchInv
  <1>1. CASE Environment
    BY <1>0, <1>1, EnvironmentShape
  <1>2. ASSUME NEW r \in Runs, Events(r)
        PROVE  Shape
    BY <1>0, <1>2, EventsShape
  <1>3. ASSUME NEW r \in Runs, NEW c \in Ctx, Working(r, c)
        PROVE  Shape
    BY <1>0, <1>3, StartingShape, EndingShape, HandlingShape, TakeStopShape, RecoveringShape,
       ResumeShape, ObservingShape DEF Working
  <1> QED BY <1>1, <1>2, <1>3 DEF Next

-------------------------------------------------------------------------------
(* What the operations on a record change *)

\* Two records agree on what the invariants below speak of.
Same(R, Q) ==
  /\ R.status = Q.status /\ R.step = Q.step /\ R.pending = Q.pending
  /\ R.conf = Q.conf /\ R.terminal = Q.terminal

LEMMA MoveFields ==
  ASSUME NEW R \in Record, NEW s
  PROVE  /\ Move(R, s).status = s /\ Move(R, s).step = R.step
         /\ Move(R, s).pending = R.pending /\ Move(R, s).conf = R.conf
         /\ Move(R, s).terminal = R.terminal
         /\ End(R, s).status = s /\ End(R, s).step = R.step
         /\ End(R, s).pending = R.pending /\ End(R, s).conf = R.conf
  BY DEF Move, End, Record

LEMMA AskFields ==
  ASSUME NEW R \in Record, NEW r \in Runs
  PROVE  /\ AskConfirmation(r, R).status = "awaiting_confirmation"
         /\ AskConfirmation(r, R).step = R.step
         /\ AskConfirmation(r, R).pending = R.pending
         /\ AskConfirmation(r, R).conf.state = "requested"
         /\ AskConfirmation(r, R).terminal = R.terminal
  BY DEF AskConfirmation, Move, Record

LEMMA NextStepFields ==
  ASSUME NEW R \in Record, NEW e
  PROVE  /\ NextStep(R, e).status = R.status /\ NextStep(R, e).step = R.step + 1
         /\ NextStep(R, e).pending = NoCommand
         /\ NextStep(R, e).conf = R.conf /\ NextStep(R, e).terminal = R.terminal
         /\ NextStep(R, e) \in Record
  <1>1. NoCommand \in Command
    BY DEF NoCommand, Command
  <1>2. R.step + 1 \in Nat /\ (e.type # "page") \in BOOLEAN
    BY DEF Record
  <1>3. \A n \in Nat, p \in Command, v \in BOOLEAN :
          [R EXCEPT !.step = n, !.pending = p, !.rev = v] \in Record
    BY DEF Record
  <1>4. /\ NextStep(R, e).status = R.status /\ NextStep(R, e).step = R.step + 1
        /\ NextStep(R, e).pending = NoCommand
        /\ NextStep(R, e).conf = R.conf /\ NextStep(R, e).terminal = R.terminal
    BY DEF NextStep, Record
  <1>5. NextStep(R, e) \in Record
    BY <1>1, <1>2, <1>3 DEF NextStep
  <1> QED BY <1>4, <1>5

LEMMA SentFields ==
  ASSUME NEW R \in Record, NEW r \in Runs
  PROVE  /\ Sent(r, R).status = WaitingStatus(r, R.step) /\ Sent(r, R).step = R.step
         /\ Sent(r, R).pending.cmd = R.pending.cmd /\ Sent(r, R).pending.sent
         /\ Sent(r, R).conf = R.conf /\ Sent(r, R).terminal = R.terminal
  BY DEF Sent, Record, Command

LEMMA CommandFields ==
  ASSUME NEW R \in Record, NEW n \in Nat
  PROVE  /\ Commanded(R, n).status = R.status /\ Commanded(R, n).step = R.step
         /\ Commanded(R, n).pending = [cmd |-> n + 1, doc |-> R.doc, sent |-> FALSE]
         /\ Commanded(R, n).pending.cmd = n + 1 /\ ~Commanded(R, n).pending.sent
         /\ Commanded(R, n).conf = R.conf /\ Commanded(R, n).terminal = R.terminal
         /\ Commanded(R, n) \in Record
  <1>1. [cmd |-> n + 1, doc |-> R.doc, sent |-> FALSE] \in Command
    BY DEF Record, Command
  <1> QED BY <1>1 DEF Commanded, Record

LEMMA AcceptFields ==
  ASSUME NEW R \in Record, NEW d, NEW seq
  PROVE  Same(Accept(R, d, seq), R)
  BY DEF Accept, Record, Same

LEMMA OccupyFields ==
  ASSUME NEW R \in Record, NEW t \in Tabs,
         NEW T, T = [Move(R, "waiting_for_page") EXCEPT !.tab = t, !.doc = 0, !.rev = TRUE]
  PROVE  /\ T.status = "waiting_for_page" /\ T.step = R.step
         /\ T.pending = R.pending /\ T.conf = R.conf /\ T.terminal = R.terminal
  BY DEF Move, Record

LEMMA ApproveFields ==
  ASSUME NEW R \in Record, NEW s, NEW k,
         NEW T, T = [Move(R, s) EXCEPT !.conf.state = k]
  PROVE  /\ T.status = s /\ T.step = R.step
         /\ T.pending = R.pending /\ T.conf.state = k /\ T.terminal = R.terminal
  BY DEF Move, Record, Confirmation

LEMMA MarkFields ==
  ASSUME NEW R \in Record, NEW l, NEW e, NEW l2, NEW R2, Marks(l, R, e, l2, R2)
  PROVE  /\ R2.status = R.status /\ R2.step = R.step
         /\ R2.pending = R.pending /\ R2.terminal = R.terminal
         /\ \/ R2.conf = R.conf /\ l2 \in {"last", "accepted", "reaccepted", "page_saved"}
            \/ /\ R.conf.state = "approved" /\ R2.conf.state = "attested" /\ l2 = "attested"
               /\ R.status = "waiting_for_page" /\ Attests(R, e) /\ l = "page_saved"
  <1>1. CASE l = "confirm_requested" /\ l2 = "last" /\ R2 = [R EXCEPT !.asked = TRUE]
    BY <1>1 DEF Record
  <1>2. CASE l2 \in {"accepted", "reaccepted"} /\ R2 = [R EXCEPT !.accepted = TRUE]
    BY <1>2 DEF Record
  <1>3. CASE l2 = "page_saved" /\ R2 = [R EXCEPT !.doc = e.doc, !.rev = TRUE]
    BY <1>3 DEF Record
  <1>4. CASE /\ l = "page_saved" /\ l2 = "attested"
             /\ R.status = "waiting_for_page" /\ R.conf.state = "approved" /\ Attests(R, e)
             /\ R2 = [R EXCEPT !.conf.state = "attested"]
    BY <1>4 DEF Record, Confirmation
  <1> QED BY <1>1, <1>2, <1>3, <1>4 DEF Marks

-------------------------------------------------------------------------------
(* Where a task may stand with which copy *)

QueueLabels ==
  {"loaded", "event_saved", "page_saved", "attested", "reauthorize", "reopened", "approved",
   "prepare", "prepare_next", "prepared", "advanced", "finishing"}

\* The status says what the step is: extracting is the status of an extraction only.
Fits(r, R) ==
  /\ R.status \in {"dispatching_step", "extracting"} /\ R.step \in Steps(r) =>
       R.status = CommandStatus(r, R.step)
  /\ R.status = "dispatching_step" \/ (R.status = "extracting" /\ R.pending.cmd # 0) =>
       R.step \in Steps(r)

StatusAt(l, s) ==
  /\ l \in {"created", "resolve"} => s = "created"
  /\ l = "policy_checked" => s = "policy_checked"
  /\ l \in {"opening", "reopened", "list_tabs", "pick_tab", "repick_tab"} => s = "opening_tab"
  /\ l \in {"waiting", "accepted", "repicked", "reaccepted", "approved", "attested", "prepare"}
       => s = "waiting_for_page"
  /\ l \in {"confirm_requested", "reauthorize"} => s = "awaiting_confirmation"
  /\ l \in {"advanced", "prepare_next", "prepared"} => s \in {"dispatching_step", "extracting"}
  /\ l \in {"dispatched", "finishing"} =>
       s \in {"waiting_for_effect", "waiting_for_navigation", "extracting"}
  /\ l = "terminal" => s \in Terminal

Placed(r, c, l, R) ==
  /\ Fits(r, R)
  /\ StatusAt(l, R.status)
  /\ l \in {"prepare", "advanced", "prepare_next", "prepared"} => R.step \in Steps(r)
  /\ l \in QueueLabels => c = "queue"
  /\ l = "dispatched" => c \in {"queue", "recover", "resume"}

PlacedInv ==
  \A r \in Runs :
    /\ Fits(r, store[r])
    /\ \A c \in Ctx : Placed(r, c, pc[<<r, c>>], rec[<<r, c>>])

LEMMA StepCount ==
  ASSUME NEW r \in Runs
  PROVE  /\ Len(Plan[r].ops) \in Nat /\ Len(Plan[r].ops) > 0
         /\ \A i \in Nat : i \in Steps(r) <=> i < Len(Plan[r].ops)
         /\ \A i \in Nat : IsLast(r, i) <=> i + 1 \notin Steps(r)
         /\ \A i \in Steps(r) : i \in Nat /\ (CommandStatus(r, i) = "extracting" => IsLast(r, i))
  <1>1. Plan[r].ops \in Seq(Ops) /\ Len(Plan[r].ops) > 0 /\ Len(Plan[r].ops) \in Nat
    BY PlanAssumption DEF PlanShape
  <1>2. \A i \in 1..Len(Plan[r].ops) : Plan[r].ops[i] = "extract" => i = Len(Plan[r].ops)
    BY PlanAssumption
  <1>3. \A i \in Nat : i \in Steps(r) <=> i < Len(Plan[r].ops)
    BY <1>1 DEF Steps
  <1>4. \A i \in Nat : IsLast(r, i) <=> i + 1 \notin Steps(r)
    BY <1>1, <1>3 DEF IsLast
  <1>5. ASSUME NEW i \in Steps(r), CommandStatus(r, i) = "extracting"
        PROVE  IsLast(r, i)
    <2>1. i \in Nat /\ i + 1 \in 1..Len(Plan[r].ops)
      BY <1>1 DEF Steps
    <2>2. Plan[r].ops[i + 1] = "extract"
      BY <1>5 DEF CommandStatus, OpOf
    <2> QED BY <1>1, <1>2, <2>1, <2>2 DEF IsLast
  <1>6. \A i \in Steps(r) : i \in Nat
    BY <1>1 DEF Steps
  <1> QED BY <1>1, <1>3, <1>4, <1>5, <1>6

LEMMA CommandStatuses ==
  ASSUME NEW r \in Runs, NEW i
  PROVE  /\ CommandStatus(r, i) \in {"dispatching_step", "extracting"}
         /\ WaitingStatus(r, i) \in {"waiting_for_effect", "waiting_for_navigation", "extracting"}
         /\ WaitingStatus(r, i) = "extracting" <=> CommandStatus(r, i) = "extracting"
  BY DEF CommandStatus, WaitingStatus

\* The step that was reported is one of the plan, and an extraction is the last.
LEMMA ReportedStep ==
  ASSUME NEW r \in Runs, NEW R \in Record, NEW l, NEW e, Reported(l, R, e), Fits(r, R)
  PROVE  /\ R.pending.cmd # 0
         /\ R.status \in {"waiting_for_effect", "waiting_for_navigation", "extracting"}
         /\ ~IsLast(r, R.step) => R.status # "extracting" /\ R.step + 1 \in Steps(r)
  <1>1. /\ R.pending.cmd # 0
        /\ R.status \in {"waiting_for_effect", "waiting_for_navigation", "extracting"}
    BY DEF Reported, WaitsForPending, ShowsEffect
  <1>2. R.step \in Nat
    BY DEF Record
  <1>3. R.status = "extracting" => IsLast(r, R.step)
    BY <1>1, <1>2, StepCount DEF Fits
  <1>4. ~IsLast(r, R.step) => R.step + 1 \in Steps(r)
    BY <1>2, StepCount
  <1> QED BY <1>1, <1>3, <1>4

LEMMA RestsPlaced ==
  ASSUME NEW r \in Runs, NEW c \in Ctx, NEW l \in Labels, NEW R \in Record, NEW l2, NEW R2,
         Rests(c, l, R, l2, R2), Placed(r, c, l, R)
  PROVE  Placed(r, c, l2, R2)
  <1>1. NoRun.status = "none"
    BY DEF NoRun
  <1> QED BY <1>1 DEF Rests, Placed, Fits, StatusAt, QueueLabels

LEMMA KeepsPlaced ==
  ASSUME NEW r \in Runs, NEW c \in Ctx, NEW l \in Labels, NEW R \in Record, NEW e, NEW l2,
         Keeps(r, l, R, e, l2), Placed(r, c, l, R)
  PROVE  Placed(r, c, l2, R)
  BY DEF Keeps, Continues, Placed, StatusAt, QueueLabels

LEMMA MarksPlaced ==
  ASSUME NEW r \in Runs, NEW c \in Ctx, NEW l \in Labels, NEW R \in Record, NEW e, NEW l2,
         NEW R2, Marks(l, R, e, l2, R2), Placed(r, c, l, R)
  PROVE  Placed(r, c, l2, R2)
  <1>1. /\ R2.status = R.status /\ R2.step = R.step /\ R2.pending = R.pending
        /\ l2 = "attested" => R.status = "waiting_for_page"
    BY MarkFields
  <1>2. Fits(r, R2)
    BY <1>1 DEF Placed, Fits
  <1>3. \/ l = "confirm_requested" /\ l2 = "last"
        \/ l = "waiting" /\ l2 = "accepted"
        \/ l = "repicked" /\ l2 = "reaccepted"
        \/ l = "event_saved" /\ l2 = "page_saved"
        \/ l = "page_saved" /\ l2 = "attested"
    BY DEF Marks
  <1> QED BY <1>1, <1>2, <1>3 DEF Placed, StatusAt, QueueLabels

LEMMA MovesFields ==
  ASSUME NEW r \in Runs, NEW l, NEW R \in Record, NEW l2, NEW R2, Moves(r, l, R, l2, R2)
  PROVE  /\ R2.step = R.step /\ R2.pending = R.pending
         /\ l2 # "terminal" => R2.terminal = R.terminal
         /\ \/ /\ R2.conf = R.conf
               /\ \/ l = "resolve" /\ l2 = "policy_checked" /\ R2.status = "policy_checked"
                  \/ l \in {"policy_checked", "authorize"} /\ l2 = "opening"
                     /\ R2.status = "opening_tab" /\ (l = "authorize" => R.status = "policy_checked")
                  \/ l \in {"pick_tab", "repick_tab"} /\ l2 \in {"waiting", "repicked"}
                     /\ R2.status = "waiting_for_page"
                  \/ l = "finishing" /\ l2 = "terminal" /\ R2.status = "completed"
            \/ /\ Plan[r].confirm = "before_run"
               /\ \/ l = "policy_checked" /\ l2 = "confirm_requested"
                     /\ R2.status = "awaiting_confirmation"
                  \/ l = "reauthorize" /\ l2 = "reopened" /\ R2.status = "opening_tab"
            \/ /\ l = "reauthorize" /\ l2 = "approved"
               /\ R2.status = "waiting_for_page" /\ R2.conf.state = "approved"
  <1>1. CASE l2 \in {"policy_checked", "opening"}
    <2>1. PICK s \in {"policy_checked", "opening_tab"} : R2 = Move(R, s)
      BY <1>1 DEF Moves
    <2>2. /\ R2.status = s /\ R2.step = R.step /\ R2.pending = R.pending
          /\ R2.conf = R.conf /\ R2.terminal = R.terminal
      BY <2>1, MoveFields
    <2>3. \/ l = "resolve" /\ l2 = "policy_checked" /\ R2 = Move(R, "policy_checked")
          \/ l \in {"policy_checked", "authorize"} /\ l2 = "opening"
             /\ R2 = Move(R, "opening_tab") /\ (l = "authorize" => R.status = "policy_checked")
      BY <1>1 DEF Moves
    <2>4. /\ R2 = Move(R, "policy_checked") => R2.status = "policy_checked"
          /\ R2 = Move(R, "opening_tab") => R2.status = "opening_tab"
      BY MoveFields
    <2> QED BY <1>1, <2>2, <2>3, <2>4
  <1>2. CASE l2 = "confirm_requested"
    <2>1. R2 = AskConfirmation(r, R)
      BY <1>2 DEF Moves
    <2> QED BY <1>2, <2>1, AskFields DEF Moves
  <1>3. CASE l2 \in {"waiting", "repicked"}
    <2>1. \E t \in Tabs :
            R2 = [Move(R, "waiting_for_page") EXCEPT !.tab = t, !.doc = 0, !.rev = TRUE]
      BY <1>3 DEF Moves
    <2>2. /\ R2.status = "waiting_for_page" /\ R2.step = R.step
          /\ R2.pending = R.pending /\ R2.conf = R.conf /\ R2.terminal = R.terminal
      BY <2>1, OccupyFields
    <2>3. l \in {"pick_tab", "repick_tab"}
      BY <1>3 DEF Moves
    <2> QED BY <1>3, <2>2, <2>3
  <1>4. CASE l2 = "reopened"
    <2>1. /\ R2 = [Move(R, "opening_tab") EXCEPT !.conf.state = "attested"]
          /\ l = "reauthorize" /\ Plan[r].confirm = "before_run"
      BY <1>4 DEF Moves
    <2>2. /\ R2.status = "opening_tab" /\ R2.step = R.step
          /\ R2.pending = R.pending /\ R2.terminal = R.terminal
      BY <2>1 DEF Move, Record, Confirmation
    <2> QED BY <1>4, <2>1, <2>2
  <1>5. CASE l2 = "approved"
    <2>1. /\ R2 = [Move(R, "waiting_for_page") EXCEPT !.conf.state = "approved"]
          /\ l = "reauthorize"
      BY <1>5 DEF Moves
    <2>2. /\ R2.status = "waiting_for_page" /\ R2.step = R.step /\ R2.conf.state = "approved"
          /\ R2.pending = R.pending /\ R2.terminal = R.terminal
      BY <2>1 DEF Move, Record, Confirmation
    <2> QED BY <1>5, <2>1, <2>2
  <1>6. CASE l2 = "terminal"
    <2>1. R2 = End(R, "completed") /\ l = "finishing"
      BY <1>6 DEF Moves
    <2> QED BY <1>6, <2>1, MoveFields
  <1>7. l2 \in {"waiting", "repicked", "reopened", "approved", "confirm_requested",
               "policy_checked", "opening", "terminal"}
    BY DEF Moves
  <1> QED BY <1>1, <1>2, <1>3, <1>4, <1>5, <1>6, <1>7

LEMMA MovesPlaced ==
  ASSUME NEW r \in Runs, NEW c \in Ctx, NEW l \in Labels, NEW R \in Record, NEW l2, NEW R2,
         Moves(r, l, R, l2, R2), Placed(r, c, l, R)
  PROVE  Placed(r, c, l2, R2)
  BY MovesFields DEF Placed, Fits, StatusAt, QueueLabels, Terminal

LEMMA CompletesPlaced ==
  ASSUME NEW r \in Runs, NEW c \in Ctx, NEW l \in Labels, NEW R \in Record, NEW e, NEW l2,
         NEW R2, Completes(r, l, R, e, l2, R2), Placed(r, c, l, R)
  PROVE  Placed(r, c, l2, R2)
  <1> DEFINE T == NextStep(R, e)
  <1>1. Reported(l, R, e) /\ Fits(r, R)
    BY DEF Completes, Placed
  <1>2. /\ R.pending.cmd # 0
        /\ R.status \in {"waiting_for_effect", "waiting_for_navigation", "extracting"}
        /\ ~IsLast(r, R.step) => R.step + 1 \in Steps(r)
    BY <1>1, ReportedStep
  <1>3. l \in QueueLabels /\ c = "queue"
    BY <1>1 DEF Reported, Placed, QueueLabels
  <1>4. T \in Record /\ T.step = R.step + 1 /\ T.status = R.status /\ T.pending.cmd = 0
    BY NextStepFields DEF NoCommand
  <1> HIDE DEF T
  <1>5. CASE IsLast(r, R.step) /\ l2 = "finishing" /\ R2 = T
    <2>1. R.step + 1 \notin Steps(r)
      <3>1. R.step \in Nat
        BY DEF Record
      <3> QED BY <1>5, <3>1, StepCount
    <2> QED BY <1>2, <1>3, <1>4, <1>5, <2>1 DEF Placed, Fits, StatusAt, QueueLabels
  <1>6. CASE l2 = "confirm_requested" /\ R2 = AskConfirmation(r, T)
    <2>1. R2.status = "awaiting_confirmation"
      BY <1>4, <1>6, AskFields
    <2> QED BY <1>3, <1>6, <2>1 DEF Placed, Fits, StatusAt, QueueLabels
  <1>7. CASE ~IsLast(r, R.step) /\ l2 = "advanced" /\ R2 = Move(T, CommandStatus(r, T.step))
    <2>1. R2.status = CommandStatus(r, R2.step) /\ R2.step \in Steps(r)
      BY <1>2, <1>4, <1>7, MoveFields
    <2> QED BY <1>3, <1>7, <2>1, CommandStatuses DEF Placed, Fits, StatusAt, QueueLabels
  <1> QED BY <1>5, <1>6, <1>7 DEF Completes, T

LEMMA DispatchesPlaced ==
  ASSUME NEW r \in Runs, NEW c \in Ctx, NEW l \in Labels, NEW R \in Record, NEW S \in Record,
         NEW n \in Nat, NEW l2, NEW R2, Dispatches(r, c, l, R, S, n, l2, R2),
         Placed(r, c, l, R), Fits(r, S)
  PROVE  Placed(r, c, l2, R2)
  <1>1. CASE /\ l \in {"page_saved", "attested"} /\ l2 = "confirm_requested"
             /\ R2 = AskConfirmation(r, R)
    BY <1>1, AskFields DEF Placed, Fits, StatusAt, QueueLabels
  <1>2. CASE /\ l \in {"prepare", "prepare_next"} /\ l2 = "prepared"
             /\ LET T == Commanded(R, n)
                IN  R2 = IF l = "prepare" THEN Move(T, CommandStatus(r, R.step)) ELSE T
    <2> DEFINE T == Commanded(R, n)
    <2>1. T \in Record /\ T.status = R.status /\ T.step = R.step
      BY CommandFields
    <2>2. R2 = IF l = "prepare" THEN Move(T, CommandStatus(r, R.step)) ELSE T
      BY <1>2
    <2> HIDE DEF T
    <2>3. R.step \in Steps(r) /\ c = "queue"
      BY <1>2 DEF Placed, QueueLabels
    <2>4. l = "prepare_next" => R.status = CommandStatus(r, R.step)
      BY <2>3 DEF Placed, Fits, StatusAt
    <2>5. R2.step = R.step /\ R2.status = CommandStatus(r, R.step)
      BY <1>2, <2>1, <2>2, <2>4, MoveFields
    <2> QED BY <1>2, <2>3, <2>5, CommandStatuses DEF Placed, Fits, StatusAt, QueueLabels
  <1>3. ASSUME NEW Q \in Record, Fits(r, Q), Q.status \in {"dispatching_step", "extracting"},
               Q.step \in Steps(r), c \in {"queue", "recover", "resume"}, l2 = "dispatched",
               R2 = Sent(r, Q)
        PROVE  Placed(r, c, l2, R2)
    <2>1. R2.status = WaitingStatus(r, Q.step) /\ R2.step = Q.step
      BY <1>3, SentFields
    <2>2. R2.status = "extracting" => CommandStatus(r, Q.step) = "extracting"
      BY <2>1, CommandStatuses
    <2> QED BY <1>3, <2>1, <2>2, CommandStatuses DEF Placed, Fits, StatusAt, QueueLabels
  <1>4. CASE c = "queue" /\ l = "prepared" /\ l2 = "dispatched" /\ R2 = Sent(r, R)
    BY <1>3, <1>4 DEF Placed, StatusAt
  <1>5. CASE /\ c = "recover" /\ l = "authorize" /\ l2 = "dispatched"
             /\ R.status = "dispatching_step" /\ R2 = Sent(r, R)
    BY <1>3, <1>5 DEF Placed, Fits
  <1>6. CASE /\ c = "resume" /\ l = "resume" /\ l2 = "dispatched"
             /\ S.status = "extracting" /\ S.pending.cmd # 0 /\ R2 = Sent(r, S)
    BY <1>3, <1>6 DEF Fits
  <1> QED BY <1>1, <1>2, <1>4, <1>5, <1>6 DEF Dispatches

LEMMA LoadsPlaced ==
  ASSUME NEW r \in Runs, NEW c \in Ctx, NEW l \in Labels, NEW S \in Record, NEW l2,
         NEW R2, Loads(r, c, l, S, l2, R2), Fits(r, S)
  PROVE  Placed(r, c, l2, R2)
  <1>1. CASE l2 = "created" /\ R2 = CreatedRun
    BY <1>1 DEF CreatedRun, NoRun, Placed, Fits, StatusAt, QueueLabels
  <1>2. CASE /\ l2 = "last"
             /\ R2.status = S.status /\ R2.step = S.step /\ R2.pending = S.pending
    BY <1>2 DEF Placed, Fits, StatusAt, QueueLabels
  <1>3. CASE l2 = "terminal" /\ \E s \in {"failed", "cancelled"} : R2 = End(S, s)
    <2>1. R2.status \in {"failed", "cancelled"}
      BY <1>3, MoveFields
    <2> QED BY <1>3, <2>1 DEF Placed, Fits, StatusAt, QueueLabels, Terminal
  <1>4. \A x \in {[S EXCEPT !.terminal = "acked"], [S EXCEPT !.observed = TRUE]} :
          x.status = S.status /\ x.step = S.step /\ x.pending = S.pending
    BY DEF Record
  <1> QED BY <1>1, <1>2, <1>3, <1>4 DEF Loads

LEMMA ActsPlaced ==
  ASSUME NEW r \in Runs, NEW c \in Ctx, NEW l \in Labels, NEW R \in Record, NEW e,
         NEW S \in Record, NEW n \in Nat, NEW l2, NEW R2,
         Acts(r, c, l, R, e, S, n, l2, R2), Placed(r, c, l, R), Fits(r, S)
  PROVE  Placed(r, c, l2, R2)
  BY RestsPlaced, KeepsPlaced, MarksPlaced, MovesPlaced, CompletesPlaced, DispatchesPlaced,
     LoadsPlaced DEF Acts

LEMMA PlacedInit == Init => PlacedInv
  <1>1. NoRun.status = "none"
    BY DEF NoRun
  <1>2. ASSUME NEW r \in Runs, NEW c \in Ctx
        PROVE  Placed(r, c, "idle", NoRun) /\ Fits(r, NoRun)
    BY <1>1 DEF Placed, Fits, StatusAt, QueueLabels
  <1>3. ASSUME Init, NEW r \in Runs, NEW c \in Ctx
        PROVE  store[r] = NoRun /\ pc[<<r, c>>] = "idle" /\ rec[<<r, c>>] = NoRun
    BY <1>3 DEF Init, Tasks
  <1>4. "queue" \in Ctx
    BY DEF Ctx
  <1> QED BY <1>2, <1>3, <1>4 DEF PlacedInv

\* A stored record is one that was stored, or the copy of a task.
LEMMA StoredCopy ==
  ASSUME Shape, TypeOK, NEW r \in Runs
  PROVE  store'[r] = store[r] \/ \E c \in Ctx : store'[r] = rec[<<r, c>>]
  <1>1. CASE NoCommit
    BY <1>1 DEF NoCommit
  <1>2. ASSUME NEW t \in Tasks, Commit(t[1], t[2], pc[t])
        PROVE  store'[r] = store[r] \/ \E c \in Ctx : store'[r] = rec[<<r, c>>]
    <2>1. t[1] \in Runs /\ t[2] \in Ctx
      BY DEF Tasks
    <2>2. store' = [store EXCEPT ![t[1]] = rec[<<t[1], t[2]>>]]
      BY <1>2 DEF Commit
    <2> QED BY <2>1, <2>2 DEF TypeOK, RecordsOK
  <1> QED BY <1>1, <1>2 DEF Shape, StoreStep

LEMMA HearsCopy ==
  ASSUME TypeOK, NEW r \in Runs, Hears(r)
  PROVE  /\ Same(rec'[<<r, "queue">>], store[r]) /\ pc'[<<r, "queue">>] = "loaded"
         /\ pc[<<r, "queue">>] = "idle" /\ up
  <1>1. store[r] \in Record /\ <<r, "queue">> \in Tasks
    BY DEF TypeOK, RecordsOK, Tasks, Ctx
  <1>2. PICK e, R : Take(r, e, R) /\ (R = store[r] \/ R = Accept(store[r], e.doc, e.seq))
    <2>1. CASE Cancel(r) \/ \E ok \in BOOLEAN : Confirm(r, ok)
      BY <2>1 DEF Cancel, Confirm
    <2>2. CASE \E e : TakeActorEvent(r, e)
      BY <2>2 DEF TakeActorEvent
    <2>3. CASE PageReady(r) \/ StepReported(r)
      <3>1. \E e : TakeActorEvent(r, e)
        BY <2>3 DEF PageReady, StepReported
      <3> QED BY <2>2, <3>1
    <2> QED BY <2>1, <2>3 DEF Hears
  <1>3. Same(R, store[r])
    BY <1>1, <1>2, AcceptFields DEF Same
  <1> QED BY <1>1, <1>2, <1>3 DEF Take, Vacant, TypeOK, TasksOK

LEMMA PlacedStep == TypeOK /\ PlacedInv /\ Shape => PlacedInv'
  <1> SUFFICES ASSUME TypeOK, PlacedInv, Shape, NEW r \in Runs
               PROVE  /\ Fits(r, store'[r])
                      /\ \A c \in Ctx : Placed(r, c, pc'[<<r, c>>], rec'[<<r, c>>])
    BY DEF PlacedInv
  <1>1. Fits(r, store'[r])
    BY StoredCopy DEF PlacedInv, Placed
  <1>2. ASSUME NEW c \in Ctx
        PROVE  Placed(r, c, pc'[<<r, c>>], rec'[<<r, c>>])
    <2> DEFINE t == <<r, c>>
    <2>1. /\ t \in Tasks /\ t[1] = r /\ t[2] = c /\ pc[t] \in Labels /\ rec[t] \in Record
          /\ store[r] \in Record /\ cmds[r] \in Nat
      BY DEF Tasks, TypeOK, TasksOK, RecordsOK, WorkerOK
    <2>2. Placed(r, c, pc[t], rec[t]) /\ Fits(r, store[r]) /\ TaskStep(t)
      BY <2>1 DEF PlacedInv, Shape
    <2>3. CASE UNCHANGED <<pc[t], rec[t]>>
      BY <2>2, <2>3
    <2>4. CASE Acts(r, c, pc[t], rec[t], event[r], store[r], cmds[r], pc'[t], rec'[t])
      BY <2>1, <2>2, <2>4, ActsPlaced
    <2>5. CASE rec'[t] = store[r] /\ pc'[t] \in {"idle", "queued"}
      BY <2>2, <2>5 DEF Placed, StatusAt, QueueLabels
    <2>6. CASE c = "queue" /\ Hears(r)
      <3>1. Same(rec'[t], store[r]) /\ pc'[t] = "loaded"
        BY <2>6, HearsCopy
      <3> QED BY <2>2, <2>6, <3>1 DEF Placed, Fits, Same, StatusAt, QueueLabels
    <2> QED BY <2>1, <2>2, <2>3, <2>4, <2>5, <2>6 DEF TaskStep
  <1> QED BY <1>1, <1>2

-------------------------------------------------------------------------------
(* Transitions *)

LEMMA LegalMoves ==
  ASSUME NEW R \in Record
  PROVE  /\ IsActive(R) => CanMove(R, "failed") /\ CanMove(R, "cancelled")
         /\ R.status = "created" => CanMove(R, "policy_checked")
         /\ R.status = "policy_checked" =>
              CanMove(R, "awaiting_confirmation") /\ CanMove(R, "opening_tab")
         /\ R.status = "opening_tab" => CanMove(R, "waiting_for_page")
         /\ R.status = "waiting_for_page" =>
              /\ CanMove(R, "awaiting_confirmation")
              /\ CanMove(R, "dispatching_step") /\ CanMove(R, "extracting")
         /\ R.status = "awaiting_confirmation" =>
              CanMove(R, "opening_tab") /\ CanMove(R, "waiting_for_page")
         /\ R.status = "dispatching_step" =>
              CanMove(R, "waiting_for_effect") /\ CanMove(R, "waiting_for_navigation")
         /\ R.status \in {"waiting_for_effect", "waiting_for_navigation"} =>
              /\ CanMove(R, "awaiting_confirmation")
              /\ CanMove(R, "dispatching_step") /\ CanMove(R, "extracting")
         /\ R.status \in {"waiting_for_effect", "waiting_for_navigation", "extracting"} =>
              CanMove(R, "completed")
  <1>1. R.status \in Statuses \cup {"none"}
    BY DEF Record
  <1> QED BY <1>1 DEF CanMove, LegalTransitions, IsActive, Stopping, Statuses, Terminal

LegalChange(R, S, s) ==
  s \notin {R.status, "none", "created"} => s = S.status \/ CanMove(S, s) \/ CanMove(R, s)

LEMMA MovesLegal ==
  ASSUME NEW r \in Runs, NEW c \in Ctx, NEW l, NEW R \in Record, NEW l2, NEW R2,
         Moves(r, l, R, l2, R2), Placed(r, c, l, R)
  PROVE  R2.status = R.status \/ CanMove(R, R2.status)
  <1>1. /\ l \in {"pick_tab", "repick_tab"} => R.status = "opening_tab"
        /\ l = "reauthorize" => R.status = "awaiting_confirmation"
        /\ l = "finishing" =>
             R.status \in {"waiting_for_effect", "waiting_for_navigation", "extracting"}
        /\ l = "resolve" => R.status = "created"
        /\ l = "policy_checked" => R.status = "policy_checked"
    BY DEF Placed, StatusAt
  <1> QED BY <1>1, MovesFields, LegalMoves

LEMMA CompletesLegal ==
  ASSUME NEW r \in Runs, NEW l, NEW R \in Record, NEW e, NEW l2, NEW R2,
         Completes(r, l, R, e, l2, R2), Fits(r, R)
  PROVE  R2.status = R.status \/ CanMove(R, R2.status)
  <1> DEFINE T == NextStep(R, e)
  <1>1. T \in Record /\ T.status = R.status
    BY NextStepFields
  <1>2. /\ R.status \in {"waiting_for_effect", "waiting_for_navigation", "extracting"}
        /\ ~IsLast(r, R.step) => R.status # "extracting"
    BY ReportedStep DEF Completes
  <1> HIDE DEF T
  <1>3. CASE R2 = T
    BY <1>1, <1>3
  <1>4. CASE ~IsLast(r, R.step) /\ R2 = AskConfirmation(r, T)
    BY <1>1, <1>2, <1>4, AskFields, LegalMoves
  <1>5. CASE ~IsLast(r, R.step) /\ R2 = Move(T, CommandStatus(r, T.step))
    <2>1. R2.status \in {"dispatching_step", "extracting"}
      BY <1>1, <1>5, MoveFields, CommandStatuses
    <2> QED BY <1>2, <1>5, <2>1, LegalMoves
  <1> QED BY <1>3, <1>4, <1>5 DEF Completes, T

LEMMA DispatchesLegal ==
  ASSUME NEW r \in Runs, NEW c \in Ctx, NEW l, NEW R \in Record, NEW S \in Record,
         NEW n \in Nat, NEW l2, NEW R2, Dispatches(r, c, l, R, S, n, l2, R2),
         Placed(r, c, l, R), Fits(r, S)
  PROVE  R2.status \in {R.status, S.status} \/ CanMove(R, R2.status)
  <1>1. CASE R.status = "waiting_for_page" /\ R2 = AskConfirmation(r, R)
    BY <1>1, AskFields, LegalMoves
  <1>2. CASE l = "prepare" /\ R2 = Move(Commanded(R, n), CommandStatus(r, R.step))
    <2>1. R2.status \in {"dispatching_step", "extracting"}
      <3>1. Commanded(R, n) \in Record
        BY CommandFields
      <3> QED BY <1>2, <3>1, MoveFields, CommandStatuses
    <2> QED BY <1>2, <2>1, LegalMoves DEF Placed, StatusAt
  <1>3. CASE R2 = Commanded(R, n)
    BY <1>3, CommandFields
  <1>4. ASSUME NEW Q \in Record, Fits(r, Q), Q.status \in {"dispatching_step", "extracting"},
               Q.step \in Steps(r), R2 = Sent(r, Q)
        PROVE  R2.status = Q.status \/ CanMove(Q, R2.status)
    <2>1. R2.status = WaitingStatus(r, Q.step) /\ Q.status = CommandStatus(r, Q.step)
      BY <1>4, SentFields DEF Fits
    <2> QED BY <1>4, <2>1, CommandStatuses, LegalMoves
  <1>5. CASE l = "prepared" /\ R2 = Sent(r, R)
    BY <1>4, <1>5 DEF Placed, StatusAt
  <1>6. CASE R.status = "dispatching_step" /\ R2 = Sent(r, R)
    BY <1>4, <1>6 DEF Placed, Fits
  <1>7. CASE S.status = "extracting" /\ S.pending.cmd # 0 /\ R2 = Sent(r, S)
    <2>1. S.step \in Steps(r) /\ CommandStatus(r, S.step) = "extracting"
      BY <1>7 DEF Fits
    <2>2. R2.status = "extracting"
      BY <1>7, <2>1, SentFields, CommandStatuses
    <2> QED BY <1>7, <2>2
  <1> QED BY <1>1, <1>2, <1>3, <1>5, <1>6, <1>7 DEF Dispatches

LEMMA LoadsLegal ==
  ASSUME NEW r \in Runs, NEW c \in Ctx, NEW l, NEW R, NEW S \in Record, NEW l2, NEW R2,
         Loads(r, c, l, S, l2, R2)
  PROVE  R2.status \in {"created", S.status} \/ CanMove(S, R2.status)
  <1>1. CASE R2 = CreatedRun
    BY <1>1 DEF CreatedRun, NoRun
  <1>2. CASE R2 = [S EXCEPT !.terminal = "acked"] \/ R2 = [S EXCEPT !.observed = TRUE]
    BY <1>2 DEF Record
  <1>3. CASE IsActive(S) /\ \E s \in {"failed", "cancelled"} : R2 = End(S, s)
    BY <1>3, MoveFields, LegalMoves
  <1> QED BY <1>1, <1>2, <1>3 DEF Loads

LEMMA ActsLegal ==
  ASSUME NEW r \in Runs, NEW c \in Ctx, NEW l, NEW R \in Record, NEW e, NEW S \in Record,
         NEW n \in Nat, NEW l2, NEW R2, Acts(r, c, l, R, e, S, n, l2, R2),
         Placed(r, c, l, R), Fits(r, S)
  PROVE  LegalChange(R, S, R2.status)
  <1>1. CASE Rests(c, l, R, l2, R2)
    BY <1>1 DEF Rests, LegalChange, NoRun
  <1>2. CASE R2 = R
    BY <1>2 DEF LegalChange
  <1>3. CASE Marks(l, R, e, l2, R2)
    BY <1>3, MarkFields DEF LegalChange
  <1>4. CASE Moves(r, l, R, l2, R2)
    BY <1>4, MovesLegal DEF LegalChange
  <1>5. CASE Completes(r, l, R, e, l2, R2)
    BY <1>5, CompletesLegal DEF LegalChange, Placed
  <1>6. CASE Dispatches(r, c, l, R, S, n, l2, R2)
    BY <1>6, DispatchesLegal DEF LegalChange
  <1>7. CASE Loads(r, c, l, S, l2, R2)
    BY <1>7, LoadsLegal DEF LegalChange
  <1> QED BY <1>1, <1>2, <1>3, <1>4, <1>5, <1>6, <1>7 DEF Acts

LegalStep == \A t \in Tasks : LegalChange(rec[t], store[t[1]], rec'[t].status)

LEMMA ShapeLegal ==
  ASSUME TypeOK, PlacedInv, Shape
  PROVE  LegalStep
  <1> SUFFICES ASSUME NEW t \in Tasks
               PROVE  LegalChange(rec[t], store[t[1]], rec'[t].status)
    BY DEF LegalStep
  <1>1. /\ t[1] \in Runs /\ t[2] \in Ctx /\ t = <<t[1], t[2]>> /\ rec[t] \in Record
        /\ store[t[1]] \in Record /\ cmds[t[1]] \in Nat
    BY DEF Tasks, TypeOK, TasksOK, RecordsOK, WorkerOK
  <1>2. Placed(t[1], t[2], pc[t], rec[t]) /\ Fits(t[1], store[t[1]]) /\ TaskStep(t)
    BY <1>1 DEF PlacedInv, Shape
  <1>3. CASE UNCHANGED rec[t]
    BY <1>3 DEF LegalChange
  <1>4. CASE rec'[t] = store[t[1]]
    BY <1>4 DEF LegalChange
  <1>5. CASE Acts(t[1], t[2], pc[t], rec[t], event[t[1]], store[t[1]], cmds[t[1]],
                  pc'[t], rec'[t])
    BY <1>1, <1>2, <1>5, ActsLegal
  <1>6. CASE t[2] = "queue" /\ Hears(t[1])
    BY <1>1, <1>6, HearsCopy DEF LegalChange, Same
  <1> QED BY <1>2, <1>3, <1>4, <1>5, <1>6 DEF TaskStep
-------------------------------------------------------------------------------
(* The confirmation before a step *)

Commanding == {"dispatching_step", "extracting", "waiting_for_effect", "waiting_for_navigation"}

\* A record beyond the confirmed step is one of an attested run; what the record
\* says of the confirmation is so.
ConfOK(r, R, g) ==
  Plan[r].confirm = "before_step" =>
    /\ R.step > Plan[r].at => g = "attested"
    /\ R.step = Plan[r].at /\ R.status \in Commanding => g = "attested"
    /\ R.conf.state # "none" \/ R.status = "awaiting_confirmation" => R.step >= Plan[r].at
    /\ R.conf.state = "approved" => g # "closed"
    /\ R.conf.state = "attested" => g = "attested"

\* What a task that stands at l has seen.
ConfAt(r, l, R, e, g) ==
  Plan[r].confirm = "before_step" =>
    /\ /\ l \in {"loaded", "event_saved", "page_saved"} /\ e.type = "page" /\ e.ok
       /\ e.doc = R.conf.doc /\ R.conf.state = "approved"
       => g = "attested"
    /\ l = "page_saved" => e.type = "page"
    /\ l \in {"loaded", "event_saved"} /\ e.type = "confirm" /\ e.ok => g # "closed"
    /\ l = "reauthorize" => g # "closed"
    /\ l = "attested" => R.conf.state = "attested"
    /\ l = "prepare" /\ R.step >= Plan[r].at => g = "attested"

ConfInv ==
  \A r \in Runs :
    /\ ConfOK(r, store[r], gate[r])
    /\ \A c \in Ctx :
         /\ ConfOK(r, rec[<<r, c>>], gate[r])
         /\ ConfAt(r, pc[<<r, c>>], rec[<<r, c>>], event[r], gate[r])

LEMMA PlanStep ==
  ASSUME NEW r \in Runs
  PROVE  /\ Plan[r].at \in Nat
         /\ Plan[r].confirm = "before_step" => Plan[r].at \in Steps(r)
  <1>1. Plan[r].at \in Nat
    BY PlanAssumption DEF PlanShape
  <1> QED BY <1>1, PlanAssumption, StepCount

LEMMA FreshConf ==
  ASSUME NEW r \in Runs, NEW R, R.step = 0, R.conf.state = "none",
         R.status \in {"none", "created"}, NEW g
  PROVE  ConfOK(r, R, g)
  BY PlanStep DEF ConfOK, Commanding

\* A record that differs neither in its step nor in its confirmation, with a status
\* that tells no more.
LEMMA SameConf ==
  ASSUME NEW r \in Runs, NEW R, NEW R2, NEW g, ConfOK(r, R, g),
         R2.step = R.step, R2.conf = R.conf, R2.status # "awaiting_confirmation",
         R2.status \in Commanding => R.status \in Commanding
  PROVE  ConfOK(r, R2, g)
  BY DEF ConfOK

LEMMA RestsConf ==
  ASSUME NEW r \in Runs, NEW c \in Ctx, NEW l, NEW R \in Record, NEW e, NEW l2, NEW R2, NEW g,
         Rests(c, l, R, l2, R2), ConfOK(r, R, g)
  PROVE  ConfOK(r, R2, g) /\ ConfAt(r, l2, R2, e, g)
  <1>1. CASE l2 \in {"idle", "given_up"} /\ R2 = NoRun
    <2>1. ConfOK(r, NoRun, g)
      BY FreshConf DEF NoRun, NoConfirmation
    <2> QED BY <1>1, <2>1 DEF ConfAt
  <1>2. CASE l2 \in {"resume", "observe"} /\ R2 = R
    BY <1>2 DEF ConfAt
  <1> QED BY <1>1, <1>2 DEF Rests

LEMMA KeepsConf ==
  ASSUME NEW r \in Runs, NEW l, NEW R \in Record, NEW e, NEW l2, NEW g,
         Keeps(r, l, R, e, l2), ConfOK(r, R, g), ConfAt(r, l, R, e, g)
  PROVE  ConfAt(r, l2, R, e, g)
  <1>1. CASE l2 = "prepare"
    <2>1. /\ l \in {"page_saved", "attested"} /\ ~NeedsConfirmation(r, R, R.step)
          /\ l = "page_saved" => R.conf.state # "approved"
      BY <1>1 DEF Keeps, Continues
    <2>2. ASSUME Plan[r].confirm = "before_step", R.step >= Plan[r].at
          PROVE  g = "attested"
      <3>1. R.step \in Nat /\ Plan[r].at \in Nat
        BY PlanStep DEF Record
      <3>2. CASE R.step > Plan[r].at
        BY <2>2, <3>2 DEF ConfOK
      <3>3. CASE R.step = Plan[r].at
        BY <2>1, <2>2, <3>3 DEF ConfOK, ConfAt, NeedsConfirmation, IsApproved
      <3> QED BY <2>2, <3>1, <3>2, <3>3
    <2> QED BY <1>1, <2>2 DEF ConfAt
  <1>2. CASE l2 # "prepare"
    BY <1>2 DEF Keeps, Continues, ConfAt
  <1> QED BY <1>1, <1>2

LEMMA MarksConf ==
  ASSUME NEW r \in Runs, NEW l, NEW R \in Record, NEW e, NEW l2, NEW R2, NEW g,
         Marks(l, R, e, l2, R2), ConfOK(r, R, g), ConfAt(r, l, R, e, g)
  PROVE  ConfOK(r, R2, g) /\ ConfAt(r, l2, R2, e, g)
  <1>1. /\ R2.status = R.status /\ R2.step = R.step
        /\ l2 \in {"last", "accepted", "reaccepted", "page_saved", "attested"}
    BY MarkFields
  <1>2. CASE l2 # "attested"
    <2>1. R2.conf = R.conf
      BY <1>2, MarkFields
    <2>2. ConfOK(r, R2, g)
      BY <1>1, <2>1 DEF ConfOK
    <2>3. l2 = "page_saved" => l = "event_saved" /\ e.type = "page"
      BY DEF Marks
    <2> QED BY <1>1, <1>2, <2>1, <2>2, <2>3 DEF ConfAt
  <1>3. CASE l2 = "attested"
    <2>1. /\ R.conf.state = "approved" /\ R2.conf.state = "attested" /\ l = "page_saved"
          /\ R.status = "waiting_for_page" /\ Attests(R, e)
      BY <1>3, MarkFields
    <2>2. Plan[r].confirm = "before_step" => g = "attested"
      BY <2>1 DEF ConfAt, Attests
    <2> QED BY <1>1, <1>3, <2>1, <2>2 DEF ConfOK, ConfAt
  <1> QED BY <1>2, <1>3

LEMMA MovesConf ==
  ASSUME NEW r \in Runs, NEW c \in Ctx, NEW l, NEW R \in Record, NEW e, NEW l2, NEW R2, NEW g,
         Moves(r, l, R, l2, R2), Placed(r, c, l, R), ConfOK(r, R, g), ConfAt(r, l, R, e, g)
  PROVE  ConfOK(r, R2, g) /\ ConfAt(r, l2, R2, e, g)
  <1>0. l2 \in {"waiting", "repicked", "reopened", "approved", "confirm_requested",
               "policy_checked", "opening", "terminal"}
    BY DEF Moves
  <1>1. ConfAt(r, l2, R2, e, g)
    BY <1>0 DEF ConfAt
  <1>2. CASE R2.conf = R.conf /\ R2.status \in {"policy_checked", "opening_tab",
                                               "waiting_for_page", "completed"}
    BY <1>1, <1>2, MovesFields, SameConf DEF Commanding
  <1>3. CASE Plan[r].confirm = "before_run"
    BY <1>1, <1>3 DEF ConfOK
  <1>4. CASE /\ l = "reauthorize" /\ R2.status = "waiting_for_page"
             /\ R2.conf.state = "approved"
    <2>1. R.status = "awaiting_confirmation" /\ R2.step = R.step
      BY <1>4, MovesFields DEF Placed, StatusAt
    <2> QED BY <1>1, <1>4, <2>1 DEF ConfOK, ConfAt, Commanding
  <1> QED BY <1>2, <1>3, <1>4, MovesFields

LEMMA CompletesConf ==
  ASSUME NEW r \in Runs, NEW l, NEW R \in Record, NEW e, NEW l2, NEW R2, NEW g,
         Completes(r, l, R, e, l2, R2), Fits(r, R), ConfOK(r, R, g)
  PROVE  ConfOK(r, R2, g) /\ ConfAt(r, l2, R2, e, g)
  <1> DEFINE T == NextStep(R, e)
  <1>1. /\ T \in Record /\ T.status = R.status /\ T.step = R.step + 1 /\ T.conf = R.conf
        /\ R.step \in Nat /\ Plan[r].at \in Nat
    BY NextStepFields, PlanStep DEF Record
  <1>2. R.status \in Commanding
    BY ReportedStep DEF Completes, Commanding
  <1> HIDE DEF T
  <1>3. Plan[r].confirm = "before_step" /\ T.step > Plan[r].at => g = "attested"
    BY <1>1, <1>2 DEF ConfOK
  <1>4. CASE IsLast(r, R.step) /\ l2 = "finishing" /\ R2 = T
    <2>1. Plan[r].confirm = "before_step" => T.step # Plan[r].at
      BY <1>1, <1>4, PlanStep, StepCount
    <2>2. R2.status # "awaiting_confirmation"
      BY <1>1, <1>2, <1>4 DEF Commanding
    <2>3. Plan[r].confirm = "before_step" /\ R2.conf.state # "none" => R2.step >= Plan[r].at
      BY <1>1, <1>4 DEF ConfOK
    <2> QED BY <1>1, <1>3, <1>4, <2>1, <2>2, <2>3 DEF ConfOK, ConfAt
  <1>5. CASE NeedsConfirmation(r, T, T.step) /\ l2 = "confirm_requested"
             /\ R2 = AskConfirmation(r, T)
    <2>1. /\ R2.status = "awaiting_confirmation" /\ R2.step = T.step
          /\ R2.conf.state = "requested" /\ T.step = Plan[r].at
      BY <1>1, <1>5, AskFields DEF NeedsConfirmation
    <2> QED BY <1>1, <1>5, <2>1 DEF ConfOK, ConfAt, Commanding
  <1>6. CASE ~NeedsConfirmation(r, T, T.step) /\ l2 = "advanced"
             /\ R2 = Move(T, CommandStatus(r, T.step))
    <2>1. /\ R2.status \in {"dispatching_step", "extracting"} /\ R2.step = T.step
          /\ R2.conf = R.conf
      BY <1>1, <1>6, MoveFields, CommandStatuses
    <2>2. Plan[r].confirm = "before_step" => T.step # Plan[r].at
      <3> SUFFICES ASSUME Plan[r].confirm = "before_step", T.step = Plan[r].at
                   PROVE  FALSE
        OBVIOUS
      <3>1. R.conf.state \in {"approved", "attested"}
        BY <1>1, <1>6 DEF NeedsConfirmation, IsApproved
      <3>2. R.step >= Plan[r].at
        BY <3>1 DEF ConfOK
      <3> QED BY <1>1, <3>2
    <2>3. Plan[r].confirm = "before_step" /\ R2.conf.state # "none" => R2.step >= Plan[r].at
      BY <1>1, <2>1 DEF ConfOK
    <2> QED BY <1>1, <1>3, <1>6, <2>1, <2>2, <2>3 DEF ConfOK, ConfAt
  <1> QED BY <1>4, <1>5, <1>6 DEF Completes, T

LEMMA DispatchesConf ==
  ASSUME NEW r \in Runs, NEW c \in Ctx, NEW l, NEW R \in Record, NEW e, NEW S \in Record,
         NEW n \in Nat, NEW l2, NEW R2, NEW g, Dispatches(r, c, l, R, S, n, l2, R2),
         Placed(r, c, l, R), ConfOK(r, R, g), ConfOK(r, S, g), ConfAt(r, l, R, e, g)
  PROVE  ConfOK(r, R2, g) /\ ConfAt(r, l2, R2, e, g)
  <1>0. R.step \in Nat /\ Plan[r].at \in Nat
    BY PlanStep DEF Record
  <1>1. CASE /\ l2 = "confirm_requested" /\ NeedsConfirmation(r, R, R.step)
             /\ R2 = AskConfirmation(r, R)
    <2>1. /\ R2.status = "awaiting_confirmation" /\ R2.step = R.step
          /\ R2.conf.state = "requested" /\ R.step = Plan[r].at
      BY <1>1, AskFields DEF NeedsConfirmation
    <2> QED BY <1>0, <1>1, <2>1 DEF ConfOK, ConfAt, Commanding
  <1>2. CASE /\ l = "prepare" /\ l2 = "prepared"
             /\ R2 = Move(Commanded(R, n), CommandStatus(r, R.step))
    <2>1. Commanded(R, n) \in Record
      BY CommandFields
    <2>2. R2.status = CommandStatus(r, R.step) /\ R2.step = R.step /\ R2.conf = R.conf
      <3>1. /\ R2.status = CommandStatus(r, R.step) /\ R2.step = Commanded(R, n).step
            /\ R2.conf = Commanded(R, n).conf
        BY <1>2, <2>1, MoveFields
      <3> QED BY <3>1, CommandFields
    <2>3. Plan[r].confirm = "before_step" /\ R.step >= Plan[r].at => g = "attested"
      BY <1>2 DEF ConfAt
    <2> QED BY <1>0, <1>2, <2>2, <2>3, CommandStatuses DEF ConfOK, ConfAt
  <1>3. CASE l2 = "prepared" /\ R2 = Commanded(R, n)
    BY <1>3, CommandFields DEF ConfOK, ConfAt
  <1>4. ASSUME NEW Q \in Record, ConfOK(r, Q, g), Q.status \in {"dispatching_step", "extracting"},
               R2 = Sent(r, Q), l2 = "dispatched"
        PROVE  ConfOK(r, R2, g) /\ ConfAt(r, l2, R2, e, g)
    <2>1. /\ R2.status \in {"waiting_for_effect", "waiting_for_navigation", "extracting"}
          /\ R2.step = Q.step /\ R2.conf = Q.conf
      BY <1>4, SentFields, CommandStatuses
    <2> QED BY <1>4, <2>1, SameConf DEF ConfAt, Commanding
  <1>5. CASE l = "prepared" /\ l2 = "dispatched" /\ R2 = Sent(r, R)
    BY <1>4, <1>5 DEF Placed, StatusAt
  <1>6. CASE l2 = "dispatched" /\ R.status = "dispatching_step" /\ R2 = Sent(r, R)
    BY <1>4, <1>6
  <1>7. CASE l2 = "dispatched" /\ S.status = "extracting" /\ R2 = Sent(r, S)
    BY <1>4, <1>7
  <1> QED BY <1>1, <1>2, <1>3, <1>5, <1>6, <1>7 DEF Dispatches

LEMMA LoadsConf ==
  ASSUME NEW r \in Runs, NEW c \in Ctx, NEW l, NEW e, NEW S \in Record, NEW l2, NEW R2, NEW g,
         Loads(r, c, l, S, l2, R2), ConfOK(r, S, g)
  PROVE  ConfOK(r, R2, g) /\ ConfAt(r, l2, R2, e, g)
  <1>0. ConfAt(r, l2, R2, e, g)
    BY DEF Loads, ConfAt
  <1>1. CASE R2 = CreatedRun
    <2>1. CreatedRun.step = 0 /\ CreatedRun.conf.state = "none" /\ CreatedRun.status = "created"
      BY DEF CreatedRun, NoRun, NoConfirmation
    <2> QED BY <1>0, <1>1, <2>1, FreshConf
  <1>2. CASE R2 = [S EXCEPT !.terminal = "acked"] \/ R2 = [S EXCEPT !.observed = TRUE]
    <2>1. R2.step = S.step /\ R2.conf = S.conf /\ R2.status = S.status
      BY <1>2 DEF Record
    <2> QED BY <1>0, <2>1 DEF ConfOK
  <1>3. CASE \E s \in {"failed", "cancelled"} : R2 = End(S, s)
    <2>1. R2.step = S.step /\ R2.conf = S.conf /\ R2.status \in {"failed", "cancelled"}
      BY <1>3, MoveFields
    <2> QED BY <1>0, <2>1, SameConf DEF Commanding
  <1> QED BY <1>1, <1>2, <1>3 DEF Loads

LEMMA ActsConf ==
  ASSUME NEW r \in Runs, NEW c \in Ctx, NEW l, NEW R \in Record, NEW e, NEW S \in Record,
         NEW n \in Nat, NEW l2, NEW R2, NEW g, Acts(r, c, l, R, e, S, n, l2, R2),
         Placed(r, c, l, R), ConfOK(r, R, g), ConfOK(r, S, g), ConfAt(r, l, R, e, g)
  PROVE  ConfOK(r, R2, g) /\ ConfAt(r, l2, R2, e, g)
  BY RestsConf, KeepsConf, MarksConf, MovesConf, CompletesConf, DispatchesConf, LoadsConf
  DEF Acts, Placed

\* A gate opens and stays open, and what an actor showed is not forgotten.
Later(g, h) == (g # "closed" => h # "closed") /\ (g = "attested" => h = "attested")

LEMMA HistoryGrows ==
  ASSUME TypeOK, Shape, NEW r \in Runs
  PROVE  Later(gate[r], gate'[r]) /\ evidence[r] \subseteq evidence'[r]
  <1>1. CASE UNCHANGED histVars
    BY <1>1 DEF histVars, Later
  <1>2. ASSUME NEW q \in Runs, Hears(q)
        PROVE  Later(gate[r], gate'[r]) /\ evidence[r] \subseteq evidence'[r]
    <2>1. gate \in [Runs -> {"closed", "approved", "attested"}]
          /\ evidence \in [Runs -> SUBSET Nat]
      BY DEF TypeOK, HistoryOK
    <2>2. CASE PageReady(q)
      <3>1. \E b : gate' = [gate EXCEPT ![q] = IF @ = "approved" /\ b THEN "attested" ELSE @]
        BY <2>2 DEF PageReady
      <3>2. \E b : evidence' = [evidence EXCEPT ![q] = IF b THEN @ \cup {store[q].step} ELSE @]
        BY <2>2 DEF PageReady
      <3> QED BY <2>1, <3>1, <3>2 DEF Later
    <2>3. CASE StepReported(q)
      <3>1. UNCHANGED gate
        BY <2>3 DEF StepReported
      <3>2. \E b, n : evidence' = [evidence EXCEPT ![q] = IF b THEN @ \cup {n} ELSE @]
        BY <2>3 DEF StepReported
      <3> QED BY <2>1, <3>1, <3>2 DEF Later
    <2>4. CASE Cancel(q)
      BY <2>4 DEF Cancel, histVars, Later
    <2>5. CASE \E ok \in BOOLEAN : Confirm(q, ok)
      <3>1. UNCHANGED evidence
        BY <2>5 DEF Confirm
      <3>2. \E b : gate' = [gate EXCEPT ![q] = IF b /\ @ = "closed" THEN "approved" ELSE @]
        BY <2>5 DEF Confirm
      <3> QED BY <2>1, <3>1, <3>2 DEF Later
    <2> QED BY <1>2, <2>2, <2>3, <2>4, <2>5 DEF Hears
  <1> QED BY <1>1, <1>2 DEF Shape, HeardStep

LEMMA LaterConf ==
  ASSUME NEW r \in Runs, NEW l, NEW R, NEW e, NEW g, NEW h, Later(g, h)
  PROVE  /\ ConfOK(r, R, g) => ConfOK(r, R, h)
         /\ ConfAt(r, l, R, e, g) => ConfAt(r, l, R, e, h)
  BY DEF Later, ConfOK, ConfAt

LEMMA HearsConf ==
  ASSUME TypeOK, NEW r \in Runs, Hears(r), ConfOK(r, store[r], gate[r])
  PROVE  ConfAt(r, "loaded", rec'[<<r, "queue">>], event'[r], gate'[r])
  <1> DEFINE R == rec'[<<r, "queue">>]
             e == event'[r]
  <1>1. R.conf = store[r].conf
    BY HearsCopy DEF Same
  <1>2. gate[r] \in {"closed", "approved", "attested"} /\ gate \in [Runs -> {"closed", "approved", "attested"}]
        /\ event \in [Runs -> Event]
    BY DEF TypeOK, HistoryOK, TasksOK
  <1>3. CASE PageReady(r)
    <2>1. PICK d \in Docs, o \in PageOutcomes :
            /\ event'[r].type = "page" /\ event'[r].ok = o.ok /\ event'[r].doc = d
            /\ gate'[r] = IF gate[r] = "approved" /\ o.ok /\ d = store[r].conf.doc
                          THEN "attested" ELSE gate[r]
      BY <1>2, <1>3 DEF PageReady, TakeActorEvent, Take, NoEvent
    <2>2. CASE Plan[r].confirm = "before_step" /\ R.conf.state = "approved"
      BY <1>1, <1>2, <2>1, <2>2 DEF ConfAt, ConfOK
    <2> QED BY <2>1, <2>2 DEF ConfAt
  <1>4. CASE StepReported(r)
    <2>1. e.type \in {"completed", "failed"}
      BY <1>2, <1>4 DEF StepReported, TakeActorEvent, Take, NoEvent
    <2> QED BY <2>1 DEF ConfAt
  <1>5. CASE Cancel(r)
    <2>1. e.type = "cancel"
      BY <1>2, <1>5 DEF Cancel, Take, NoEvent
    <2> QED BY <2>1 DEF ConfAt
  <1>6. ASSUME NEW ok \in BOOLEAN, Confirm(r, ok)
        PROVE  ConfAt(r, "loaded", R, e, gate'[r])
    <2>1. e.type = "confirm" /\ e.ok = ok
      BY <1>2, <1>6 DEF Confirm, Take, NoEvent
    <2>2. ok => gate'[r] # "closed"
      BY <1>2, <1>6 DEF Confirm
    <2> QED BY <2>1, <2>2 DEF ConfAt
  <1> QED BY <1>3, <1>4, <1>5, <1>6 DEF Hears

LEMMA ConfInit == Init => ConfInv /\ ConfirmedBeforeStep
  <1>1. ASSUME NEW r \in Runs, NEW e, NEW g
        PROVE  ConfOK(r, NoRun, g) /\ ConfAt(r, "idle", NoRun, e, g)
    BY FreshConf DEF ConfAt, NoRun, NoConfirmation
  <1>2. ASSUME Init, NEW r \in Runs, NEW c \in Ctx
        PROVE  store[r] = NoRun /\ pc[<<r, c>>] = "idle" /\ rec[<<r, c>>] = NoRun
    BY <1>2 DEF Init, Tasks
  <1>3. "queue" \in Ctx
    BY DEF Ctx
  <1>4. Init => ConfInv
    BY <1>1, <1>2, <1>3 DEF ConfInv
  <1>5. Init => ConfirmedBeforeStep
    BY DEF ConfirmedBeforeStep, Init
  <1> QED BY <1>4, <1>5

LEMMA ConfStep == TypeOK /\ PlacedInv /\ ConfInv /\ Shape => ConfInv'
  <1> SUFFICES ASSUME TypeOK, PlacedInv, ConfInv, Shape, NEW r \in Runs
               PROVE  /\ ConfOK(r, store'[r], gate'[r])
                      /\ \A c \in Ctx :
                           /\ ConfOK(r, rec'[<<r, c>>], gate'[r])
                           /\ ConfAt(r, pc'[<<r, c>>], rec'[<<r, c>>], event'[r], gate'[r])
    BY DEF ConfInv
  <1>0. Later(gate[r], gate'[r])
    BY HistoryGrows
  <1>1. ConfOK(r, store'[r], gate'[r])
    BY <1>0, StoredCopy, LaterConf DEF ConfInv
  <1>2. ASSUME NEW c \in Ctx
        PROVE  /\ ConfOK(r, rec'[<<r, c>>], gate'[r])
               /\ ConfAt(r, pc'[<<r, c>>], rec'[<<r, c>>], event'[r], gate'[r])
    <2> DEFINE t == <<r, c>>
               e == event[r]
    <2>1. /\ t \in Tasks /\ t[1] = r /\ t[2] = c /\ rec[t] \in Record
          /\ store[r] \in Record /\ cmds[r] \in Nat
      BY DEF Tasks, TypeOK, TasksOK, RecordsOK, WorkerOK
    <2>2. /\ Placed(r, c, pc[t], rec[t]) /\ ConfOK(r, store[r], gate[r])
          /\ ConfOK(r, rec[t], gate[r]) /\ ConfAt(r, pc[t], rec[t], e, gate[r])
          /\ TaskStep(t)
      BY <2>1 DEF PlacedInv, ConfInv, Shape
    <2>3. CASE c = "queue" /\ Hears(r)
      <3>1. pc'[t] = "loaded" /\ rec'[t].status = store[r].status
            /\ rec'[t].step = store[r].step /\ rec'[t].conf = store[r].conf
        BY <2>3, HearsCopy DEF Same
      <3>2. ConfOK(r, rec'[t], gate[r])
        BY <2>2, <3>1 DEF ConfOK
      <3>3. ConfAt(r, "loaded", rec'[t], event'[r], gate'[r])
        BY <2>2, <2>3, HearsConf
      <3> QED BY <1>0, <3>1, <3>2, <3>3, LaterConf
    <2>4. CASE ~(c = "queue" /\ Hears(r))
      <3>1. ConfOK(r, rec'[t], gate[r]) /\ ConfAt(r, pc'[t], rec'[t], e, gate[r])
        <4>1. CASE UNCHANGED <<pc[t], rec[t]>>
          BY <2>2, <4>1
        <4>2. CASE Acts(r, c, pc[t], rec[t], e, store[r], cmds[r], pc'[t], rec'[t])
          BY <2>1, <2>2, <4>2, ActsConf
        <4>3. CASE rec'[t] = store[r] /\ pc'[t] \in {"idle", "queued"}
          BY <2>2, <4>3 DEF ConfAt
        <4> QED BY <2>1, <2>2, <2>4, <4>1, <4>2, <4>3 DEF TaskStep
      <3>2. Placed(r, c, pc'[t], rec'[t])
        BY PlacedStep DEF PlacedInv
      <3>3. ConfAt(r, pc'[t], rec'[t], event'[r], gate[r])
        <4>1. CASE c # "queue"
          BY <3>2, <4>1 DEF Placed, QueueLabels, ConfAt
        <4>2. CASE pc'[t] \in {"idle", "fail"}
          BY <4>2 DEF ConfAt
        <4>3. CASE event'[r] = e
          BY <3>1, <4>3
        <4> QED BY <2>4, <4>1, <4>2, <4>3 DEF Shape, EventStep
      <3> QED BY <1>0, <3>1, <3>3, LaterConf
    <2> QED BY <2>3, <2>4
  <1> QED BY <1>1, <1>2

\* What is posted belongs to a copy that was saved as dispatched, or to the
\* stored command of a safe action.
LEMMA PostedCopy ==
  ASSUME TypeOK, PlacedInv, Shape, NEW r \in Runs, NEW p \in posted'[r], p \notin posted[r]
  PROVE  \/ \E c \in Ctx :
              /\ pc[<<r, c>>] = "dispatched" /\ pc'[<<r, c>>] = "idle"
              /\ p.step = rec[<<r, c>>].step /\ p.cmd = rec[<<r, c>>].pending.cmd
              /\ rec[<<r, c>>].status \in Commanding
         \/ /\ Plan[r].safe /\ store[r].pending.cmd # 0 /\ store[r].status \in Commanding
            /\ p.step = store[r].step /\ p.cmd = store[r].pending.cmd
  <1>1. \A R : Posts(r, R) => p.step = R.step /\ p.cmd = R.pending.cmd
    BY DEF Posts
  <1>2. \A c \in Ctx : pc[<<r, c>>] = "dispatched" => rec[<<r, c>>].status \in Commanding
    BY DEF PlacedInv, Placed, StatusAt, Commanding
  <1> QED BY <1>1, <1>2 DEF Shape, PostStep, Commanding

LEMMA ConfirmedStep ==
  TypeOK /\ PlacedInv /\ ConfInv /\ ConfirmedBeforeStep /\ Shape => ConfirmedBeforeStep'
  <1> SUFFICES ASSUME TypeOK, PlacedInv, ConfInv, ConfirmedBeforeStep, Shape, NEW r \in Runs,
                      NEW p \in posted'[r], Plan[r].confirm = "before_step", p.step >= Plan[r].at
               PROVE  gate'[r] = "attested"
    BY DEF ConfirmedBeforeStep
  <1>1. gate[r] = "attested"
    <2>1. CASE p \in posted[r]
      BY <2>1 DEF ConfirmedBeforeStep
    <2>2. ASSUME NEW R, ConfOK(r, R, gate[r]), R.step = p.step, R.status \in Commanding,
                 R.step \in Nat
          PROVE  gate[r] = "attested"
      BY <2>2, PlanStep DEF ConfOK
    <2>3. store[r].step \in Nat /\ \A c \in Ctx : rec[<<r, c>>].step \in Nat
      BY DEF TypeOK, RecordsOK, TasksOK, Tasks, Record
    <2>4. CASE p \notin posted[r]
      <3>1. ASSUME NEW c \in Ctx, p.step = rec[<<r, c>>].step, rec[<<r, c>>].status \in Commanding
            PROVE  gate[r] = "attested"
        <4>1. ConfOK(r, rec[<<r, c>>], gate[r])
          BY DEF ConfInv
        <4> QED BY <2>2, <2>3, <3>1, <4>1
      <3>2. CASE p.step = store[r].step /\ store[r].status \in Commanding
        <4>1. ConfOK(r, store[r], gate[r])
          BY DEF ConfInv
        <4> QED BY <2>2, <2>3, <3>2, <4>1
      <3> QED BY <2>4, <3>1, <3>2, PostedCopy
    <2> QED BY <2>1, <2>4
  <1> QED BY <1>1, HistoryGrows DEF Later

-------------------------------------------------------------------------------
(* Commands and their steps *)

Copies(r) == {store[r]} \cup {rec[<<r, c>>] : c \in Ctx}

\* The commands of run r that were given to a step, with that step.
Orders(r) ==
  {<<p.cmd, p.step>> : p \in {p \in posted[r] : p.cmd # 0}}
  \cup {<<R.pending.cmd, R.step>> : R \in {R \in Copies(r) : R.pending.cmd # 0}}

\* A command is handed out once, for one step.
OrdersInv ==
  \A r \in Runs : \A a, b \in Orders(r) : a[1] <= cmds[r] /\ (a[1] = b[1] => a[2] = b[2])

\* A copy names the command it named before, that of the stored record, a new one or none.
LEMMA ActsOrder ==
  ASSUME NEW r \in Runs, NEW c \in Ctx, NEW l, NEW R \in Record, NEW e, NEW S \in Record,
         NEW n \in Nat, NEW l2, NEW R2, Acts(r, c, l, R, e, S, n, l2, R2), Placed(r, c, l, R)
  PROVE  \/ R2.pending.cmd = 0
         \/ R2.pending.cmd = R.pending.cmd /\ R2.step = R.step
         \/ R2.pending.cmd = S.pending.cmd /\ R2.step = S.step
         \/ /\ c = "queue" /\ l \in {"prepare", "prepare_next"} /\ l2 = "prepared"
            /\ R2.pending.cmd = n + 1 /\ R2.step = R.step
  <1>1. CASE Rests(c, l, R, l2, R2)
    BY <1>1 DEF Rests, NoRun, NoCommand
  <1>2. CASE R2 = R
    BY <1>2
  <1>3. CASE Marks(l, R, e, l2, R2)
    BY <1>3, MarkFields
  <1>4. CASE Moves(r, l, R, l2, R2)
    BY <1>4, MovesFields
  <1>5. CASE Completes(r, l, R, e, l2, R2)
    <2> DEFINE T == NextStep(R, e)
    <2>1. T \in Record /\ T.pending = NoCommand
      BY NextStepFields
    <2>2. \/ R2 = T \/ R2 = AskConfirmation(r, T)
          \/ R2 = Move(T, CommandStatus(r, T.step))
      BY <1>5 DEF Completes
    <2> HIDE DEF T
    <2>3. R2.pending = NoCommand
      BY <2>1, <2>2, AskFields, MoveFields
    <2> QED BY <2>3 DEF NoCommand
  <1>6. CASE Dispatches(r, c, l, R, S, n, l2, R2)
    <2>1. CASE R2 = AskConfirmation(r, R)
      BY <2>1, AskFields
    <2>2. CASE /\ l \in {"prepare", "prepare_next"} /\ l2 = "prepared"
               /\ \/ R2 = Commanded(R, n)
                  \/ R2 = Move(Commanded(R, n), CommandStatus(r, R.step))
      <3>1. /\ Commanded(R, n) \in Record /\ Commanded(R, n).pending.cmd = n + 1
            /\ Commanded(R, n).step = R.step
        BY CommandFields
      <3>2. R2.pending = Commanded(R, n).pending /\ R2.step = Commanded(R, n).step
        BY <2>2, <3>1, MoveFields
      <3> QED BY <2>2, <3>1, <3>2 DEF Placed, QueueLabels
    <2>3. CASE R2 = Sent(r, R) \/ R2 = Sent(r, S)
      BY <2>3, SentFields
    <2> QED BY <1>6, <2>1, <2>2, <2>3 DEF Dispatches
  <1>7. CASE Loads(r, c, l, S, l2, R2)
    <2>1. CASE R2 = CreatedRun
      BY <2>1 DEF CreatedRun, NoRun, NoCommand
    <2>2. CASE R2 = [S EXCEPT !.terminal = "acked"] \/ R2 = [S EXCEPT !.observed = TRUE]
      BY <2>2 DEF Record
    <2>3. CASE \E s \in {"failed", "cancelled"} : R2 = End(S, s)
      BY <2>3, MoveFields
    <2> QED BY <1>7, <2>1, <2>2, <2>3 DEF Loads
  <1> QED BY <1>1, <1>2, <1>3, <1>4, <1>5, <1>6, <1>7 DEF Acts

LEMMA OrderIn ==
  ASSUME NEW r \in Runs, NEW R \in Copies(r), R.pending.cmd # 0
  PROVE  <<R.pending.cmd, R.step>> \in Orders(r)
  BY DEF Orders

LEMMA OrdersInit == Init => OrdersInv
  <1>1. ASSUME Init, NEW r \in Runs
        PROVE  Orders(r) = {}
    <2>1. posted[r] = {} /\ Copies(r) = {NoRun} /\ NoRun.pending.cmd = 0
      BY <1>1 DEF Init, Copies, Tasks, NoRun, NoCommand, Ctx
    <2> QED BY <2>1 DEF Orders
  <1> QED BY <1>1 DEF OrdersInv

LEMMA NewOrders ==
  ASSUME TypeOK, PlacedInv, Shape, NEW r \in Runs, NEW a \in Orders(r)'
  PROVE  \/ a \in Orders(r)
         \/ /\ pc[<<r, "queue">>] \in {"prepare", "prepare_next"}
            /\ pc'[<<r, "queue">>] = "prepared" /\ rec'[<<r, "queue">>].pending.cmd = cmds[r] + 1
            /\ a = <<cmds[r] + 1, rec'[<<r, "queue">>].step>>
  <1>1. ASSUME NEW p \in posted'[r], p.cmd # 0, a = <<p.cmd, p.step>>
        PROVE  a \in Orders(r)
    <2>1. CASE p \in posted[r]
      BY <1>1, <2>1 DEF Orders
    <2>2. ASSUME NEW R \in Copies(r), p.step = R.step, p.cmd = R.pending.cmd
          PROVE  a \in Orders(r)
      BY <1>1, <2>2, OrderIn
    <2>3. store[r] \in Copies(r) /\ \A c \in Ctx : rec[<<r, c>>] \in Copies(r)
      BY DEF Copies
    <2>4. CASE p \notin posted[r]
      <3>1. ASSUME NEW c \in Ctx, p.step = rec[<<r, c>>].step, p.cmd = rec[<<r, c>>].pending.cmd
            PROVE  a \in Orders(r)
        BY <2>2, <2>3, <3>1
      <3>2. CASE p.step = store[r].step /\ p.cmd = store[r].pending.cmd
        BY <2>2, <2>3, <3>2
      <3>3. \/ \E c \in Ctx : /\ p.step = rec[<<r, c>>].step
                              /\ p.cmd = rec[<<r, c>>].pending.cmd
            \/ p.step = store[r].step /\ p.cmd = store[r].pending.cmd
        BY <2>4, PostedCopy
      <3> QED BY <3>1, <3>2, <3>3
    <2> QED BY <2>1, <2>4
  <1>2. CASE store'[r].pending.cmd # 0 /\ a = <<store'[r].pending.cmd, store'[r].step>>
    <2>1. store'[r] \in Copies(r)
      BY StoredCopy DEF Copies
    <2> QED BY <1>2, <2>1, OrderIn
  <1>3. ASSUME NEW c \in Ctx, rec'[<<r, c>>].pending.cmd # 0,
               a = <<rec'[<<r, c>>].pending.cmd, rec'[<<r, c>>].step>>
        PROVE  \/ a \in Orders(r)
               \/ /\ pc[<<r, "queue">>] \in {"prepare", "prepare_next"}
                  /\ pc'[<<r, "queue">>] = "prepared"
                  /\ rec'[<<r, "queue">>].pending.cmd = cmds[r] + 1
                  /\ a = <<cmds[r] + 1, rec'[<<r, "queue">>].step>>
    <2> DEFINE t == <<r, c>>
               R2 == rec'[t]
    <2>1. /\ t \in Tasks /\ t[1] = r /\ t[2] = c /\ rec[t] \in Record
          /\ store[r] \in Record /\ cmds[r] \in Nat /\ TaskStep(t)
          /\ Placed(r, c, pc[t], rec[t])
      BY DEF Tasks, TypeOK, TasksOK, RecordsOK, WorkerOK, PlacedInv, Shape
    <2>2. rec[t] \in Copies(r) /\ store[r] \in Copies(r)
      BY DEF Copies
    <2>3. CASE R2.pending.cmd = rec[t].pending.cmd /\ R2.step = rec[t].step
      BY <1>3, <2>2, <2>3, OrderIn
    <2>4. CASE R2.pending.cmd = store[r].pending.cmd /\ R2.step = store[r].step
      BY <1>3, <2>2, <2>4, OrderIn
    <2>5. CASE c = "queue" /\ Hears(r)
      BY <2>4, <2>5, HearsCopy DEF Same
    <2>6. CASE Acts(r, c, pc[t], rec[t], event[r], store[r], cmds[r], pc'[t], rec'[t])
      BY <1>3, <2>1, <2>3, <2>4, <2>6, ActsOrder
    <2> QED BY <2>1, <2>3, <2>4, <2>5, <2>6 DEF TaskStep
  <1> QED BY <1>1, <1>2, <1>3 DEF Orders, Copies

LEMMA OrdersStep ==
  TypeOK /\ PlacedInv /\ OrdersInv /\ Shape => OrdersInv'
  <1> SUFFICES ASSUME TypeOK, PlacedInv, OrdersInv, Shape, NEW r \in Runs,
                      NEW a \in Orders(r)', NEW b \in Orders(r)'
               PROVE  a[1] <= cmds'[r] /\ (a[1] = b[1] => a[2] = b[2])
    BY DEF OrdersInv
  <1>1. cmds[r] \in Nat
    BY DEF TypeOK, WorkerOK
  <1>2. \A x, y \in Orders(r) : x[1] <= cmds[r] /\ (x[1] = y[1] => x[2] = y[2])
    BY DEF OrdersInv
  <1>3. \A x \in Orders(r) : x[1] \in Nat
    <2>1. \A p \in posted[r] : p.cmd \in Nat
      BY DEF TypeOK, HistoryOK, Posting
    <2>2. \A R \in Copies(r) : R \in Record
      BY DEF Copies, TypeOK, RecordsOK, TasksOK, Tasks
    <2>3. \A R \in Record : R.pending.cmd \in Nat
      BY DEF Record, Command
    <2> QED BY <2>1, <2>2, <2>3 DEF Orders
  <1> DEFINE prepares == /\ pc[<<r, "queue">>] \in {"prepare", "prepare_next"}
                         /\ pc'[<<r, "queue">>] = "prepared"
             new == <<cmds[r] + 1, rec'[<<r, "queue">>].step>>
  <1>4. cmds'[r] = IF prepares THEN cmds[r] + 1 ELSE cmds[r]
    BY DEF Shape, CommandStep
  <1>5. \A x \in Orders(r)' : x \in Orders(r) \/ (prepares /\ x = new)
    BY NewOrders
  <1> QED BY <1>1, <1>2, <1>3, <1>4, <1>5

-------------------------------------------------------------------------------
(* The evidence of a step *)

EvOK(r, R, V) ==
  /\ 0..(R.step - 1) \subseteq V
  /\ R.status = "completed" => Steps(r) \subseteq V

\* What the queue has heard at l: Q is what was posted, V what was shown.
EvAt(r, l, R, e, V, Q) ==
  /\ l \in {"loaded", "event_saved"} /\ e.type = "completed" /\ e.ok =>
       \E p \in Q : p.cmd = e.cmd /\ p.step \in V
  /\ l \in {"loaded", "event_saved", "page_saved"} /\ e.type = "page"
     /\ ShowsEffect(R, e.doc, e) => R.step \in V
  /\ l = "page_saved" => e.type = "page"
  /\ l = "finishing" => R.step \notin Steps(r)

EvInv ==
  \A r \in Runs :
    /\ EvOK(r, store[r], evidence[r])
    /\ \A c \in Ctx :
         /\ EvOK(r, rec[<<r, c>>], evidence[r])
         /\ EvAt(r, pc[<<r, c>>], rec[<<r, c>>], event[r], evidence[r], posted[r])

LEMMA SameEv ==
  ASSUME NEW r \in Runs, NEW R, NEW R2, NEW V, EvOK(r, R, V), R2.step = R.step,
         R2.status = "completed" => R.status = "completed"
  PROVE  EvOK(r, R2, V)
  BY DEF EvOK

LEMMA FreshEv ==
  ASSUME NEW r \in Runs, NEW R, NEW V, R.step = 0, R.status # "completed"
  PROVE  EvOK(r, R, V)
  BY DEF EvOK

\* The step a report completes has been shown.
LEMMA ReportedShown ==
  ASSUME NEW r \in Runs, NEW c \in Ctx, NEW l, NEW R \in Record, NEW e, NEW V, NEW Q,
         Reported(l, R, e), Placed(r, c, l, R), EvAt(r, l, R, e, V, Q),
         \A p \in Q : p.cmd = R.pending.cmd => p.step = R.step
  PROVE  R.step \in V
  <1>1. CASE l = "event_saved" /\ e.type = "completed" /\ e.ok /\ WaitsForPending(R, e)
    BY <1>1 DEF EvAt, WaitsForPending
  <1>2. CASE l = "page_saved" /\ ShowsEffect(R, e.doc, e)
    BY <1>2 DEF EvAt
  <1>3. CASE l = "attested" /\ ShowsEffect(R, e.doc, e)
    BY <1>3 DEF Placed, StatusAt, ShowsEffect
  <1> QED BY <1>1, <1>2, <1>3 DEF Reported

LEMMA CompletesEv ==
  ASSUME NEW r \in Runs, NEW l, NEW R \in Record, NEW e, NEW l2, NEW R2, NEW V, NEW Q,
         Completes(r, l, R, e, l2, R2), EvOK(r, R, V), R.step \in V
  PROVE  EvOK(r, R2, V) /\ EvAt(r, l2, R2, e, V, Q)
  <1> DEFINE T == NextStep(R, e)
  <1>1. T \in Record /\ T.status = R.status /\ T.step = R.step + 1 /\ R.step \in Nat
    BY NextStepFields DEF Record
  <1>2. R.status # "completed"
    BY DEF Completes, Reported, ShowsEffect
  <1> HIDE DEF T
  <1>3. EvOK(r, T, V)
    BY <1>1, <1>2 DEF EvOK
  <1>4. CASE IsLast(r, R.step) /\ l2 = "finishing" /\ R2 = T
    <2>1. T.step \notin Steps(r)
      BY <1>1, <1>4, StepCount
    <2> QED BY <1>3, <1>4, <2>1 DEF EvAt
  <1>5. CASE l2 = "confirm_requested" /\ R2 = AskConfirmation(r, T)
    <2>1. R2.step = T.step /\ R2.status = "awaiting_confirmation"
      BY <1>1, <1>5, AskFields
    <2> QED BY <1>3, <1>5, <2>1, SameEv DEF EvAt
  <1>6. CASE l2 = "advanced" /\ R2 = Move(T, CommandStatus(r, T.step))
    <2>1. R2.step = T.step /\ R2.status \in {"dispatching_step", "extracting"}
      BY <1>1, <1>6, MoveFields, CommandStatuses
    <2> QED BY <1>3, <1>6, <2>1, SameEv DEF EvAt
  <1> QED BY <1>4, <1>5, <1>6 DEF Completes, T

\* The page of an event is noted in the copy, not in what the event shows.
LEMMA MarksEv ==
  ASSUME NEW r \in Runs, NEW l, NEW R \in Record, NEW e, NEW l2, NEW R2, NEW V, NEW Q,
         Marks(l, R, e, l2, R2), EvOK(r, R, V), EvAt(r, l, R, e, V, Q)
  PROVE  EvOK(r, R2, V) /\ EvAt(r, l2, R2, e, V, Q)
  <1>1. /\ R2.status = R.status /\ R2.step = R.step /\ R2.pending = R.pending
        /\ l2 \in {"last", "accepted", "reaccepted", "page_saved", "attested"}
    BY MarkFields
  <1>2. EvOK(r, R2, V)
    BY <1>1, SameEv
  <1>3. l2 = "page_saved" => l = "event_saved" /\ e.type = "page"
    BY DEF Marks
  <1>4. ShowsEffect(R2, e.doc, e) => ShowsEffect(R, e.doc, e)
    BY <1>1 DEF ShowsEffect
  <1> QED BY <1>1, <1>2, <1>3, <1>4 DEF EvAt

LEMMA MovesEv ==
  ASSUME NEW r \in Runs, NEW l, NEW R \in Record, NEW e, NEW l2, NEW R2, NEW V, NEW Q,
         Moves(r, l, R, l2, R2), EvOK(r, R, V), EvAt(r, l, R, e, V, Q)
  PROVE  EvOK(r, R2, V) /\ EvAt(r, l2, R2, e, V, Q)
  <1>1. EvAt(r, l2, R2, e, V, Q)
    BY MovesFields DEF EvAt
  <1>2. CASE R2.status # "completed"
    BY <1>1, <1>2, MovesFields, SameEv
  <1>3. CASE R2.status = "completed"
    <2>1. l = "finishing" /\ R2.step = R.step /\ R.step \in Nat
      BY <1>3, MovesFields DEF Record
    <2>2. R.step \notin Steps(r)
      BY <2>1 DEF EvAt
    <2>3. Steps(r) \subseteq 0..(R.step - 1)
      <3> SUFFICES ASSUME NEW i \in Steps(r)
                   PROVE  i \in 0..(R.step - 1)
        OBVIOUS
      <3>1. i \in Nat /\ i < Len(Plan[r].ops) /\ Len(Plan[r].ops) \in Nat
        BY StepCount
      <3>2. ~(R.step < Len(Plan[r].ops))
        BY <2>1, <2>2, StepCount
      <3> QED BY <2>1, <3>1, <3>2
    <2> QED BY <1>1, <2>1, <2>3 DEF EvOK
  <1> QED BY <1>2, <1>3

LEMMA DispatchesEv ==
  ASSUME NEW r \in Runs, NEW c \in Ctx, NEW l, NEW R \in Record, NEW e, NEW S \in Record,
         NEW n \in Nat, NEW l2, NEW R2, NEW V, NEW Q, Dispatches(r, c, l, R, S, n, l2, R2),
         EvOK(r, R, V), EvOK(r, S, V)
  PROVE  EvOK(r, R2, V) /\ EvAt(r, l2, R2, e, V, Q)
  <1>0. EvAt(r, l2, R2, e, V, Q)
    BY DEF Dispatches, EvAt
  <1>1. CASE R2 = AskConfirmation(r, R)
    <2>1. R2.step = R.step /\ R2.status = "awaiting_confirmation"
      BY <1>1, AskFields
    <2> QED BY <1>0, <2>1, SameEv
  <1>2. CASE \/ R2 = Commanded(R, n)
             \/ R2 = Move(Commanded(R, n), CommandStatus(r, R.step))
    <2>1. /\ Commanded(R, n) \in Record /\ Commanded(R, n).step = R.step
          /\ Commanded(R, n).status = R.status
      BY CommandFields
    <2>2. R2.step = R.step /\ R2.status \in {R.status, CommandStatus(r, R.step)}
      BY <1>2, <2>1, MoveFields
    <2>3. CommandStatus(r, R.step) # "completed"
      BY CommandStatuses
    <2> QED BY <1>0, <2>2, <2>3, SameEv
  <1>3. ASSUME NEW X \in Record, EvOK(r, X, V), R2 = Sent(r, X)
        PROVE  EvOK(r, R2, V)
    <2>1. R2.step = X.step /\ R2.status # "completed"
      BY <1>3, SentFields, CommandStatuses
    <2> QED BY <1>3, <2>1, SameEv
  <1> QED BY <1>0, <1>1, <1>2, <1>3 DEF Dispatches

LEMMA LoadsEv ==
  ASSUME NEW r \in Runs, NEW c \in Ctx, NEW l, NEW e, NEW S \in Record, NEW l2, NEW R2, NEW V,
         NEW Q, Loads(r, c, l, S, l2, R2), EvOK(r, S, V)
  PROVE  EvOK(r, R2, V) /\ EvAt(r, l2, R2, e, V, Q)
  <1>0. EvAt(r, l2, R2, e, V, Q)
    BY DEF Loads, EvAt
  <1>1. CASE R2 = CreatedRun
    <2>1. CreatedRun.step = 0 /\ CreatedRun.status = "created"
      BY DEF CreatedRun, NoRun
    <2> QED BY <1>0, <1>1, <2>1, FreshEv
  <1>2. CASE R2 = [S EXCEPT !.terminal = "acked"] \/ R2 = [S EXCEPT !.observed = TRUE]
    <2>1. R2.step = S.step /\ R2.status = S.status
      BY <1>2 DEF Record
    <2> QED BY <1>0, <2>1, SameEv
  <1>3. CASE \E s \in {"failed", "cancelled"} : R2 = End(S, s)
    <2>1. R2.step = S.step /\ R2.status \in {"failed", "cancelled"}
      BY <1>3, MoveFields
    <2> QED BY <1>0, <2>1, SameEv
  <1> QED BY <1>1, <1>2, <1>3 DEF Loads

LEMMA KeepsEv ==
  ASSUME NEW r \in Runs, NEW l, NEW R \in Record, NEW e, NEW l2, NEW V, NEW Q,
         Keeps(r, l, R, e, l2), EvAt(r, l, R, e, V, Q)
  PROVE  EvAt(r, l2, R, e, V, Q)
  BY DEF Keeps, Continues, EvAt

LEMMA RestsEv ==
  ASSUME NEW r \in Runs, NEW c \in Ctx, NEW l, NEW R, NEW e, NEW l2, NEW R2, NEW V, NEW Q,
         Rests(c, l, R, l2, R2), EvOK(r, R, V)
  PROVE  EvOK(r, R2, V) /\ EvAt(r, l2, R2, e, V, Q)
  <1>1. NoRun.step = 0 /\ NoRun.status = "none"
    BY DEF NoRun
  <1>2. EvOK(r, NoRun, V)
    BY <1>1, FreshEv
  <1> QED BY <1>2 DEF Rests, EvAt

LEMMA ActsEv ==
  ASSUME NEW r \in Runs, NEW c \in Ctx, NEW l, NEW R \in Record, NEW e, NEW S \in Record,
         NEW n \in Nat, NEW l2, NEW R2, NEW V, NEW Q, Acts(r, c, l, R, e, S, n, l2, R2),
         Placed(r, c, l, R), EvOK(r, R, V), EvOK(r, S, V), EvAt(r, l, R, e, V, Q),
         R.pending.cmd # 0 => \A p \in Q : p.cmd = R.pending.cmd => p.step = R.step
  PROVE  EvOK(r, R2, V) /\ EvAt(r, l2, R2, e, V, Q)
  <1>1. CASE Completes(r, l, R, e, l2, R2)
    <2>1. R.pending.cmd # 0
      BY <1>1, ReportedStep DEF Completes, Placed
    <2>2. R.step \in V
      BY <1>1, <2>1, ReportedShown DEF Completes
    <2> QED BY <1>1, <2>2, CompletesEv
  <1> QED BY <1>1, RestsEv, KeepsEv, MarksEv, MovesEv, DispatchesEv, LoadsEv DEF Acts

LEMMA LaterEv ==
  ASSUME NEW r \in Runs, NEW l, NEW R, NEW e, NEW V, NEW W, NEW Q, NEW P, V \subseteq W, Q \subseteq P
  PROVE  /\ EvOK(r, R, V) => EvOK(r, R, W)
         /\ EvAt(r, l, R, e, V, Q) => EvAt(r, l, R, e, W, P)
  BY DEF EvOK, EvAt

LEMMA PostedGrows ==
  ASSUME Shape, NEW r \in Runs
  PROVE  posted[r] \subseteq posted'[r]
  BY DEF Shape, PostStep, Posts

LEMMA HearsEv ==
  ASSUME TypeOK, NEW r \in Runs, Hears(r)
  PROVE  EvAt(r, "loaded", rec'[<<r, "queue">>], event'[r], evidence'[r], posted[r])
  <1> DEFINE R == rec'[<<r, "queue">>]
             e == event'[r]
  <1>1. /\ R.status = store[r].status /\ R.pending = store[r].pending
        /\ R.step = store[r].step
    BY HearsCopy DEF Same
  <1>2. event \in [Runs -> Event] /\ evidence \in [Runs -> SUBSET Nat]
    BY DEF TypeOK, HistoryOK, TasksOK
  <1>3. CASE PageReady(r)
    <2>1. PICK d \in Docs, o \in PageOutcomes :
            /\ e.type = "page" /\ e.ok = o.ok /\ e.moved = o.moved /\ e.doc = d
            /\ ShowsEffect(store[r], d, o) => store[r].step \in evidence'[r]
      BY <1>2, <1>3 DEF PageReady, TakeActorEvent, Take, NoEvent
    <2>2. ShowsEffect(R, e.doc, e) => ShowsEffect(store[r], d, o)
      BY <1>1, <2>1 DEF ShowsEffect
    <2> QED BY <1>1, <2>1, <2>2 DEF EvAt
  <1>4. CASE StepReported(r)
    <2>1. PICK p \in posted[r], type \in {"completed", "failed"} :
            /\ e.type = type /\ e.cmd = p.cmd
            /\ e.ok => p.step \in evidence'[r]
      BY <1>2, <1>4 DEF StepReported, TakeActorEvent, Take, NoEvent
    <2> QED BY <2>1 DEF EvAt
  <1>5. CASE Cancel(r)
    <2>1. e.type = "cancel"
      BY <1>2, <1>5 DEF Cancel, Take, NoEvent
    <2> QED BY <2>1 DEF EvAt
  <1>6. CASE \E ok \in BOOLEAN : Confirm(r, ok)
    <2>1. e.type = "confirm"
      BY <1>2, <1>6 DEF Confirm, Take, NoEvent
    <2> QED BY <2>1 DEF EvAt
  <1> QED BY <1>3, <1>4, <1>5, <1>6 DEF Hears

LEMMA EvInit == Init => EvInv /\ SuccessNeedsEvidence
  <1>1. ASSUME NEW r \in Runs, NEW e, NEW V, NEW Q
        PROVE  EvOK(r, NoRun, V) /\ EvAt(r, "idle", NoRun, e, V, Q)
    BY FreshEv DEF EvAt, NoRun
  <1>2. ASSUME Init, NEW r \in Runs, NEW c \in Ctx
        PROVE  store[r] = NoRun /\ pc[<<r, c>>] = "idle" /\ rec[<<r, c>>] = NoRun
    BY <1>2 DEF Init, Tasks
  <1>3. "queue" \in Ctx /\ NoRun.status = "none"
    BY DEF Ctx, NoRun
  <1>4. Init => EvInv
    BY <1>1, <1>2, <1>3 DEF EvInv
  <1>5. Init => SuccessNeedsEvidence
    BY <1>2, <1>3 DEF SuccessNeedsEvidence, Init
  <1> QED BY <1>4, <1>5

LEMMA EvStep == TypeOK /\ PlacedInv /\ OrdersInv /\ EvInv /\ Shape => EvInv'
  <1> SUFFICES ASSUME TypeOK, PlacedInv, OrdersInv, EvInv, Shape, NEW r \in Runs
               PROVE  /\ EvOK(r, store'[r], evidence'[r])
                      /\ \A c \in Ctx :
                           /\ EvOK(r, rec'[<<r, c>>], evidence'[r])
                           /\ EvAt(r, pc'[<<r, c>>], rec'[<<r, c>>], event'[r], evidence'[r],
                                   posted'[r])
    BY DEF EvInv
  <1>0. evidence[r] \subseteq evidence'[r] /\ posted[r] \subseteq posted'[r]
    BY HistoryGrows, PostedGrows
  <1>1. EvOK(r, store'[r], evidence'[r])
    BY <1>0, StoredCopy, LaterEv DEF EvInv
  <1>2. ASSUME NEW c \in Ctx
        PROVE  /\ EvOK(r, rec'[<<r, c>>], evidence'[r])
               /\ EvAt(r, pc'[<<r, c>>], rec'[<<r, c>>], event'[r], evidence'[r], posted'[r])
    <2> DEFINE t == <<r, c>>
               e == event[r]
    <2>1. /\ t \in Tasks /\ t[1] = r /\ t[2] = c /\ rec[t] \in Record
          /\ store[r] \in Record /\ cmds[r] \in Nat
      BY DEF Tasks, TypeOK, TasksOK, RecordsOK, WorkerOK
    <2>2. /\ Placed(r, c, pc[t], rec[t]) /\ EvOK(r, store[r], evidence[r])
          /\ EvOK(r, rec[t], evidence[r]) /\ EvAt(r, pc[t], rec[t], e, evidence[r], posted[r])
          /\ TaskStep(t)
      BY <2>1 DEF PlacedInv, EvInv, Shape
    <2>3. CASE c = "queue" /\ Hears(r)
      <3>1. pc'[t] = "loaded" /\ rec'[t].status = store[r].status
            /\ rec'[t].step = store[r].step
        BY <2>3, HearsCopy DEF Same
      <3>2. EvOK(r, rec'[t], evidence[r])
        BY <2>2, <3>1, SameEv
      <3>3. EvAt(r, "loaded", rec'[t], event'[r], evidence'[r], posted[r])
        BY <2>3, HearsEv
      <3> QED BY <1>0, <3>1, <3>2, <3>3, LaterEv
    <2>4. CASE ~(c = "queue" /\ Hears(r))
      <3>0. rec[t].pending.cmd # 0 =>
              \A p \in posted[r] : p.cmd = rec[t].pending.cmd => p.step = rec[t].step
        <4> SUFFICES ASSUME rec[t].pending.cmd # 0, NEW p \in posted[r],
                            p.cmd = rec[t].pending.cmd
                     PROVE  p.step = rec[t].step
          OBVIOUS
        <4>1. <<p.cmd, p.step>> \in Orders(r)
          BY DEF Orders
        <4>2. <<rec[t].pending.cmd, rec[t].step>> \in Orders(r)
          <5>1. rec[t] \in Copies(r)
            BY DEF Copies
          <5> QED BY <5>1, OrderIn
        <4> QED BY <4>1, <4>2 DEF OrdersInv
      <3>1. EvOK(r, rec'[t], evidence[r]) /\ EvAt(r, pc'[t], rec'[t], e, evidence[r], posted[r])
        <4>1. CASE UNCHANGED <<pc[t], rec[t]>>
          BY <2>2, <4>1
        <4>2. CASE Acts(r, c, pc[t], rec[t], e, store[r], cmds[r], pc'[t], rec'[t])
          BY <2>1, <2>2, <3>0, <4>2, ActsEv
        <4>3. CASE rec'[t] = store[r] /\ pc'[t] \in {"idle", "queued"}
          BY <2>2, <4>3 DEF EvAt
        <4> QED BY <2>1, <2>2, <2>4, <4>1, <4>2, <4>3 DEF TaskStep
      <3>2. Placed(r, c, pc'[t], rec'[t])
        BY PlacedStep DEF PlacedInv
      <3>3. EvAt(r, pc'[t], rec'[t], event'[r], evidence[r], posted[r])
        <4>1. CASE c # "queue"
          BY <3>2, <4>1 DEF Placed, QueueLabels, EvAt
        <4>2. CASE pc'[t] \in {"idle", "fail"}
          BY <4>2 DEF EvAt
        <4>3. CASE event'[r] = e
          BY <3>1, <4>3
        <4> QED BY <2>4, <4>1, <4>2, <4>3 DEF Shape, EventStep
      <3> QED BY <1>0, <3>1, <3>3, LaterEv
    <2> QED BY <2>3, <2>4
  <1> QED BY <1>1, <1>2

LEMMA EvidenceStep ==
  TypeOK /\ PlacedInv /\ OrdersInv /\ EvInv /\ SuccessNeedsEvidence /\ Shape
    => SuccessNeedsEvidence'
  <1> SUFFICES ASSUME TypeOK, PlacedInv, OrdersInv, EvInv, SuccessNeedsEvidence, Shape,
                      NEW r \in Runs
               PROVE  /\ \A p \in posted'[r] : 0..(p.step - 1) \subseteq evidence'[r]
                      /\ store'[r].status = "completed" => Steps(r) \subseteq evidence'[r]
    BY DEF SuccessNeedsEvidence
  <1>1. ASSUME NEW p \in posted'[r]
        PROVE  0..(p.step - 1) \subseteq evidence[r]
    <2>1. CASE p \in posted[r]
      BY <2>1 DEF SuccessNeedsEvidence
    <2>2. CASE p \notin posted[r]
      <3>1. \E R \in Copies(r) : p.step = R.step
        <4>1. \/ \E c \in Ctx : p.step = rec[<<r, c>>].step
              \/ p.step = store[r].step
          BY <2>2, PostedCopy
        <4> QED BY <4>1 DEF Copies
      <3>2. \A R \in Copies(r) : EvOK(r, R, evidence[r])
        BY DEF Copies, EvInv
      <3> QED BY <3>1, <3>2 DEF EvOK
    <2> QED BY <2>1, <2>2
  <1>2. store'[r].status = "completed" => Steps(r) \subseteq evidence'[r]
    BY EvStep DEF EvInv, EvOK
  <1> QED BY <1>1, <1>2, HistoryGrows

-------------------------------------------------------------------------------
(* The invariant and what follows *)

RunInv ==
  /\ DispatchInv /\ Asleep /\ PlacedInv
  /\ ConfInv /\ ConfirmedBeforeStep
  /\ OrdersInv /\ EvInv /\ SuccessNeedsEvidence

LEMMA RunInit == Init => RunInv
  <1>1. Init => Asleep
    BY DEF Init, Asleep
  <1> QED BY <1>1, DispatchInit, PlacedInit, ConfInit, OrdersInit, EvInit DEF RunInv

LEMMA RunStep == RunInv /\ [Next]_vars => RunInv'
  <1> SUFFICES ASSUME RunInv, [Next]_vars PROVE RunInv'
    OBVIOUS
  <1>0. TypeOK /\ DispatchInv'
    BY DispatchStep DEF RunInv, DispatchInv
  <1>1. CASE Next
    <2>1. Shape
      BY <1>1, ShapeStep DEF RunInv
    <2>2. Asleep'
      BY <1>1, AsleepStep DEF RunInv
    <2>3. PlacedInv' /\ ConfInv' /\ ConfirmedBeforeStep'
      BY <1>0, <2>1, PlacedStep, ConfStep, ConfirmedStep DEF RunInv
    <2>4. OrdersInv' /\ EvInv' /\ SuccessNeedsEvidence'
      BY <1>0, <2>1, OrdersStep, EvStep, EvidenceStep DEF RunInv
    <2> QED BY <1>0, <2>2, <2>3, <2>4 DEF RunInv
  <1>2. CASE UNCHANGED vars
    <2>0. /\ store' = store /\ pc' = pc /\ rec' = rec /\ event' = event /\ up' = up
          /\ cmds' = cmds /\ posted' = posted /\ evidence' = evidence /\ gate' = gate
      BY <1>2, Zenon DEF vars, taskVars, workerVars, histVars, postVars
    <2>1. Asleep'
      BY <2>0, Zenon DEF Asleep, RunInv
    <2>2. PlacedInv' /\ ConfInv' /\ ConfirmedBeforeStep'
      BY <2>0 DEF PlacedInv, ConfInv, ConfirmedBeforeStep, RunInv
    <2>3. OrdersInv'
      <3>1. \A r \in Runs : Orders(r)' = Orders(r)
        BY <2>0, Zenon DEF Orders, Copies
      <3> QED BY <2>0, <3>1 DEF OrdersInv, RunInv
    <2>4. EvInv' /\ SuccessNeedsEvidence'
      BY <2>0 DEF EvInv, SuccessNeedsEvidence, RunInv
    <2> QED BY <1>0, <2>1, <2>2, <2>3, <2>4 DEF RunInv
  <1> QED BY <1>1, <1>2

\* A step that the plan gates behind a confirmation is posted only once the
\* user has confirmed and a page has attested the binding, in every
\* interleaving of the queue with recovery, resumption and crashes
\* (dispatchStep, acceptConfirmation, handlePageReady).
THEOREM StepConfirmed == Spec => []ConfirmedBeforeStep
  <1>1. RunInv => ConfirmedBeforeStep
    BY DEF RunInv
  <1> QED BY <1>1, RunInit, RunStep, PTL DEF Spec

\* A step is posted only after evidence of every earlier one, and a run is
\* stored as completed only with evidence of all its steps, whatever copies of
\* its record are saved over each other (completePendingStep, finishRun).
THEOREM EvidencedSuccess == Spec => []SuccessNeedsEvidence
  <1>1. RunInv => SuccessNeedsEvidence
    BY DEF RunInv
  <1> QED BY <1>1, RunInit, RunStep, PTL DEF Spec

\* No task gives its copy a status that the transition table of run-state.js
\* forbids from both the stored and the copied one (transitionRun).
THEOREM LegalMovesOnly == Spec => MovesAreLegal
  <1> DEFINE Legal == \A t \in Tasks :
                        LET old == rec[t].status
                            new == rec'[t].status
                        IN  new \notin {old, "none", "created"} =>
                              \/ new = store[t[1]].status
                              \/ CanMove(store[t[1]], new)
                              \/ CanMove(rec[t], new)
  <1>1. RunInv /\ [Next]_vars => [Legal]_vars
    <2> SUFFICES ASSUME RunInv, Next PROVE Legal
      OBVIOUS
    <2>1. TypeOK /\ Shape /\ PlacedInv
      BY ShapeStep DEF RunInv, DispatchInv
    <2> QED BY <2>1, ShapeLegal DEF LegalStep, LegalChange
  <1> QED BY <1>1, RunInit, RunStep, PTL DEF Spec, MovesAreLegal

===============================================================================
