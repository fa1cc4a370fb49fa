--------------------------- MODULE MCRunCoordinator ---------------------------
(* Small instances of RunCoordinator: the actions the runs are pinned to. *)
EXTENDS RunCoordinator

CONSTANTS s1, n1, c1, u1, e1, c2, b1, p2   \* runs
CONSTANTS t1                           \* a tab

Action(ops, confirm, at, safe, closes) ==
  [ops |-> ops, confirm |-> confirm, at |-> at, safe |-> safe, closes |-> closes]

MCPlan ==
  [r \in Runs |->
     CASE r = s1 -> Action(<<"navigate", "extract">>, "never", 0, TRUE, TRUE)
       [] r = n1 -> Action(<<"effect", "effect">>, "before_step", 1, FALSE, FALSE)
       [] r = c1 -> Action(<<"navigate", "effect">>, "before_step", 1, FALSE, TRUE)
       [] r = u1 -> Action(<<"effect">>, "never", 0, FALSE, TRUE)
       [] r = e1 -> Action(<<"extract">>, "never", 0, TRUE, FALSE)
       [] r = c2 -> Action(<<"effect">>, "before_step", 0, FALSE, FALSE)
       [] r = b1 -> Action(<<"effect">>, "before_run", 0, FALSE, TRUE)
       [] r = p2 -> Action(<<"effect", "effect">>, "never", 0, FALSE, FALSE)]

\* A run whose terminal record was overwritten (see TerminalImmutable) is not followed.
NotReopened == \A r \in Runs : fate[r] # "reopened"

(* Two runs that meet in a recovery: u1 first.  As long as there is one, every
   interleaving and every fault is followed.  Once both are requested, one of them
   works at a time until the worker is suspended; no tab has a document; and the
   timers and sources that a recovery leaves alone wait until it is over. *)
Requested(r) == store[r].status # "none" \/ pc[<<r, "request">>] # "idle"
Works(r) == \E c \in Ctx : pc[<<r, c>>] # "idle"
InRecovery == \E r \in Runs : pc[<<r, "recover">>] \notin {"idle", "given_up"}

SuspendedTogether ==
  /\ IF faults = 0 THEN Cardinality({r \in Runs : Works(r)}) <= 1
     ELSE \A r \in Runs : pc[<<r, "request">>] = "idle"
  /\ \A r \in Runs :
       /\ source[r] \in {"on", "off"} /\ store[r].terminal # "acked"
       /\ event[r].type \in {"none", "stop"}
       /\ faults = 0 \/ InRecovery => inbox[r] = {}
       /\ InRecovery => source[r] = "off"
  /\ \A t \in Tabs : docs[t] = 0
  /\ (\E t \in Tabs : tabs[t] = "closed") => \E r \in Runs : IsTerminal(store[r])

Recoveries ==
  /\ NotReopened
  /\ Requested(e1) => Requested(u1)
  /\ (\A r \in Runs : Requested(r)) => SuspendedTogether

===============================================================================
