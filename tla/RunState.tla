------------------------------- MODULE RunState -------------------------------
(***************************************************************************)
(* The durable run record of extension/coordinator/run-state.js: its       *)
(* statuses, the transitions that are legal, and the operations on one     *)
(* record (transitionRun, updateRun, createRunRecord, acceptEvent).  The   *)
(* module has no variables: RunCoordinator decides which record is current *)
(* and when one is written to storage.                                     *)
(***************************************************************************)
EXTENDS Naturals, Sequences

CONSTANTS
  Runs,     \* run identifiers: one for each request a source document makes
  Tabs,     \* browser tabs the coordinator may own
  NoTab,    \* "execution.tabId: null"
  MaxDocs,  \* documents that may load in one tab (bounds navigation)
  Plan      \* the action each run is pinned to

Docs == 1..MaxDocs

(***************************************************************************)
(* A step is reduced to what dispatch distinguishes: "extract" waits in    *)
(* extracting, "navigate" is a click with a url check (expectsNavigation), *)
(* and "effect" is every other operation.                                  *)
(***************************************************************************)
Ops == {"effect", "navigate", "extract"}

PlanShape ==
  [ops     : Seq(Ops),
   confirm : {"never", "before_run", "before_step"},
   at      : Nat,           \* index of confirmationStepId, from 0
   safe    : BOOLEAN,       \* safety.idempotency = "safe"
   closes  : BOOLEAN]       \* runtime.closeExecutionTab

(***************************************************************************)
(* What the action-list validator guarantees of every published action:    *)
(* at least one step, extract only as the last one, and a confirmation     *)
(* step that exists.                                                       *)
(***************************************************************************)
ASSUME PlanAssumption ==
  /\ Plan \in [Runs -> PlanShape]
  /\ \A r \in Runs :
       /\ Len(Plan[r].ops) > 0
       /\ \A i \in 1..Len(Plan[r].ops) :
            Plan[r].ops[i] = "extract" => i = Len(Plan[r].ops)
       /\ Plan[r].confirm = "before_step" => Plan[r].at < Len(Plan[r].ops)

ASSUME DomainAssumption ==
  /\ NoTab \notin Tabs
  /\ MaxDocs \in Nat

Steps(r) == 0..(Len(Plan[r].ops) - 1)
OpOf(r, i) == Plan[r].ops[i + 1]
IsLast(r, i) == i + 1 >= Len(Plan[r].ops)

-------------------------------------------------------------------------------
(* Statuses and legal transitions *)

Terminal == {"completed", "failed", "cancelled"}

Statuses ==
  {"created", "policy_checked", "opening_tab", "waiting_for_page",
   "dispatching_step", "waiting_for_effect", "waiting_for_navigation",
   "awaiting_confirmation", "extracting"} \cup Terminal

Stopping == {"cancelled", "failed"}

LegalTransitions ==
  [s \in Statuses |->
     CASE s = "created"          -> {"policy_checked"} \cup Stopping
       [] s = "policy_checked"   -> {"awaiting_confirmation", "opening_tab"} \cup Stopping
       [] s = "opening_tab"      -> {"waiting_for_page"} \cup Stopping
       [] s = "waiting_for_page" -> {"awaiting_confirmation", "dispatching_step",
                                     "extracting"} \cup Stopping
       [] s = "dispatching_step" -> {"waiting_for_effect",
                                     "waiting_for_navigation"} \cup Stopping
       [] s \in {"waiting_for_effect", "waiting_for_navigation"} ->
            {"awaiting_confirmation", "dispatching_step", "extracting",
             "completed"} \cup Stopping
       [] s = "awaiting_confirmation" -> {"opening_tab", "waiting_for_page",
                                          "dispatching_step", "extracting"} \cup Stopping
       [] s = "extracting"       -> {"completed"} \cup Stopping
       [] s \in Terminal         -> {}]

-------------------------------------------------------------------------------
(* The record *)

Command == [cmd : Nat, doc : Docs \cup {0}, sent : BOOLEAN]
NoCommand == [cmd |-> 0, doc |-> 0, sent |-> FALSE]     \* pendingCommand: null

Confirmation ==
  [state : {"none", "requested", "approved", "attested"},
   doc   : Docs \cup {0},       \* binding.documentId
   seq   : Nat,                 \* binding.actorSequence
   rev   : BOOLEAN]             \* binding.pageRevision is a number
NoConfirmation == [state |-> "none", doc |-> 0, seq |-> 0, rev |-> FALSE]

Record ==
  [status   : Statuses \cup {"none"},
   step     : Nat,
   pending  : Command,
   conf     : Confirmation,
   tab      : Tabs \cup {NoTab},
   doc      : Docs \cup {0},        \* execution.documentId and its navigation
   rev      : BOOLEAN,              \* execution.pageRevision is a number
   last     : [Docs -> Nat],        \* lastAcceptedSequenceBySender, per document
   accepted : BOOLEAN,              \* acceptedEnvelope has been made durable
   asked    : BOOLEAN,              \* confirmation.envelope has been made durable
   terminal : {"none", "unacked", "acked"},
   observed : BOOLEAN]              \* observationStored

NoRun ==
  [status |-> "none", step |-> 0, pending |-> NoCommand, conf |-> NoConfirmation,
   tab |-> NoTab, doc |-> 0, rev |-> FALSE, last |-> [d \in Docs |-> 0], accepted |-> FALSE,
   asked |-> FALSE, terminal |-> "none", observed |-> FALSE]

CreatedRun == [NoRun EXCEPT !.status = "created"]

IsTerminal(R) == R.status \in Terminal
IsActive(R) == R.status \notin Terminal \cup {"none"}
IsApproved(R) == R.conf.state \in {"approved", "attested"}

\* transitionRun: a self-transition or an undeclared one throws.
CanMove(R, s) == R.status \in Statuses /\ s # R.status /\ s \in LegalTransitions[R.status]
Move(R, s) == [R EXCEPT !.status = s]

\* acceptEvent: a terminal record takes no event (updateRun throws), and a
\* sequence number that does not advance its sender's is a duplicate or is
\* out of order; neither changes the record.
CanAccept(R, d, seq) == ~IsTerminal(R) /\ (d # 0 => seq > R.last[d])
Accept(R, d, seq) == IF d = 0 THEN R ELSE [R EXCEPT !.last[d] = seq]

===============================================================================
