------------------------------- MODULE LayerLog -------------------------------
(***************************************************************************)
(* What ambient learning promises of the action map of each site scope     *)
(* (documentation/contracts/ambient-learning.md, section 9): an            *)
(* append-only log of revisions.  A revision comes from one completed      *)
(* layer or from one observed run, was computed from the revision before   *)
(* it, and a layer is accepted once and after every accepted layer of a    *)
(* lower sequence number.                                                  *)
(***************************************************************************)
EXTENDS Naturals, Sequences

CONSTANTS
  Scopes,   \* site scopes
  Numbers,  \* layer sequence numbers
  Runs,     \* observed runs
  NoRun     \* the run of a revision that comes from a layer

VARIABLES
  log,       \* the revisions of each scope: [layer, run, base]
  frontier,  \* the sequence number of the last accepted layer
  learned    \* the runs that have given a revision

vars == <<log, frontier, learned>>

Revision(layer, run, base) == [layer |-> layer, run |-> run, base |-> base]

Init ==
  /\ log = [s \in Scopes |-> <<>>]
  /\ frontier = [s \in Scopes |-> 0]
  /\ learned = {}

(* A layer changes the map: one revision more, computed from the last one. *)
Accept(s, n) ==
  /\ n > frontier[s]
  /\ log' = [log EXCEPT ![s] = Append(@, Revision(n, NoRun, Len(@)))]
  /\ frontier' = [frontier EXCEPT ![s] = n]
  /\ UNCHANGED learned

(* A layer is parsed and changes nothing. *)
Pass(s, n) ==
  /\ n > frontier[s]
  /\ frontier' = [frontier EXCEPT ![s] = n]
  /\ UNCHANGED <<log, learned>>

(* The outcome of a run changes the map, once for each run. *)
Learn(s, r) ==
  /\ r \notin learned
  /\ learned' = learned \cup {r}
  /\ log' = [log EXCEPT ![s] = Append(@, Revision(0, r, Len(@)))]
  /\ UNCHANGED frontier

Next ==
  \E s \in Scopes :
    \/ \E n \in Numbers : Accept(s, n) \/ Pass(s, n)
    \/ \E r \in Runs : Learn(s, r)

Spec == Init /\ [][Next]_vars
===============================================================================
