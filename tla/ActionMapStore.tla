---------------------------- MODULE ActionMapStore ----------------------------
(***************************************************************************)
(* server/internal/store/action_map_logic.go and action_map_sql.go: the    *)
(* action map of one site scope and the decision on one patch.  A scope is *)
(* a row of action_map_scopes with its revisions and receipts, and a patch *)
(* is decided in one transaction that holds the row (FOR UPDATE), so the   *)
(* operators here are functions of the row.                                *)
(*                                                                         *)
(* A map is its number of revisions: what a patch writes is not kept, only *)
(* where it came from and what it was computed from.                       *)
(***************************************************************************)
EXTENDS Naturals, Sequences, FiniteSets

CONSTANTS
  Scopes,      \* site scopes
  Patches,     \* patches the parser may answer with
  NoChange,    \* its answer that nothing changes
  Runs, NoRun, \* runs observed on a published list
  NoLayer,     \* the layer of a revision that comes from a run
  MaxSeq,      \* layers of one scope and session (bounds the model)
  MaxSessions  \* browser sessions (bounds the model)

(* A completed layer.  Layers of two sessions differ in what they show. *)
Layer ==
  [scope    : Scopes,
   session  : 1..MaxSessions,
   seq      : 1..MaxSeq,
   observed : BOOLEAN,  \* carries the observation that led to it
   policy   : Nat]      \* revision of the policy it was captured under

ASSUME StoreAssumption ==
  /\ NoChange \notin Patches
  /\ NoRun \notin Runs
  /\ NoLayer \notin Layer
  /\ MaxSeq \in Nat /\ MaxSessions \in Nat \ {0}

(* The parse request a patch answers: attempt of a delivery and map base. *)
Request ==
  [layer : Layer,
   base  : Nat,         \* mapBase.revision; a digest belongs to one revision
   prev  : Nat,         \* mapBase.previousLayerSequence
   gen   : {0, 1}]      \* generation of the request id; 1 is a retryOf

Input == [request : Request, answer : Patches \cup {NoChange}]
Statuses == {"applied", "no_change", "conflict", "rejected"}
Receipt == [input : Input, status : Statuses, revision : Nat]
Revision == [layer : Layer \cup {NoLayer}, run : Runs \cup {NoRun}, base : Nat, ready : BOOLEAN]
Scope == [last : Nat, revisions : Seq(Revision), receipts : SUBSET Receipt]

EmptyScope == [last |-> 0, revisions |-> <<>>, receipts |-> {}]

HeadRevision(m) == Len(m.revisions)
Accepted == {"applied", "no_change"}

(* The receipts stored under the input's idempotency key, which leaves prev,
   gen and the answer out. *)
Receipts(m, in) ==
  {r \in m.receipts : /\ r.input.request.layer = in.request.layer
                      /\ r.input.request.base = in.request.base}

(* validateAmbientRequestShape and validateObservation: the conditions on the
   sequence numbers, which AssembleParseRequest checks as well. *)
RequestValid(q) ==
  /\ q.layer.observed <=> q.layer.seq > 1
  /\ q.base = 0 <=> q.prev = 0

ConflictsNoBase(m, in) == in.request.prev # m.last \/ in.request.layer.seq <= m.last
ConflictsNoSequence(m, in) == in.request.base # HeadRevision(m)

Conflicts(m, in) ==
  \/ in.request.base # HeadRevision(m)
  \/ in.request.prev # m.last
  \/ in.request.layer.seq <= m.last

DecideStaleDuplicate(m, in, contentOk) ==
  CASE ~RequestValid(in.request) \/ ~contentOk -> "rejected"
    [] RequestValid(in.request) /\ contentOk /\ in.request.layer.seq <= m.last -> "duplicate"
    [] OTHER -> CASE Conflicts(m, in) -> "conflict"
                  [] OTHER -> IF in.answer = NoChange THEN "no_change" ELSE "applied"

(* The status of a patch that has no receipt; contentOk is every check of
   evidence, semantics and privacy on the patch and on the resulting map. *)
Decide(m, in, contentOk) ==
  CASE ~RequestValid(in.request) \/ ~contentOk -> "rejected"
    [] OTHER -> CASE Conflicts(m, in) -> "conflict"
                  [] OTHER -> IF in.answer = NoChange THEN "no_change" ELSE "applied"

ResultRevision(m, status) == IF status = "applied" THEN HeadRevision(m) + 1 ELSE HeadRevision(m)

RecordNoAdvance(m, in, status, ready) ==
  [last      |-> IF status = "applied" THEN in.request.layer.seq ELSE m.last,
   revisions |-> IF status = "applied"
                 THEN Append(m.revisions,
                        [layer |-> in.request.layer, run |-> NoRun,
                         base |-> in.request.base, ready |-> ready])
                 ELSE m.revisions,
   receipts  |-> m.receipts \cup
                   {[input |-> in, status |-> status, revision |-> ResultRevision(m, status)]}]

(* The row after a decision.  A scope whose first input is refused is rolled
   back, receipt included; a scope exists once it has accepted a layer. *)
Record(m, in, status, ready) ==
  [last      |-> IF status \in Accepted THEN in.request.layer.seq ELSE m.last,
   revisions |-> IF status = "applied"
                 THEN Append(m.revisions,
                        [layer |-> in.request.layer, run |-> NoRun,
                         base |-> in.request.base, ready |-> ready])
                 ELSE m.revisions,
   receipts  |-> IF m.last > 0 \/ status \in Accepted
                 THEN m.receipts \cup
                        {[input |-> in, status |-> status, revision |-> ResultRevision(m, status)]}
                 ELSE m.receipts]

(* The status told to one who sends an input again (duplicateReceipt), or
   another input under its key (reusedKeyReceipt). *)
Repeated(r, in) ==
  IF r.input # in THEN "rejected"
  ELSE IF r.status \in Accepted THEN "duplicate"
  ELSE r.status

(* ApplyRunObservationFeedback: a revision from a run; the last layer stays. *)
LearnFrom(m, run, ready) ==
  [m EXCEPT !.revisions =
     Append(@, [layer |-> NoLayer, run |-> run, base |-> HeadRevision(m), ready |-> ready])]
===============================================================================
