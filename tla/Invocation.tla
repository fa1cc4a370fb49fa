----------------------------- MODULE Invocation -----------------------------
(***************************************************************************)
(* What a page's tool promises the agent that calls it: an invocation is   *)
(* answered at most once; with the outcome of its own run, or with a       *)
(* failure the page raises itself (a cancellation, a lost transport, a     *)
(* refused argument).                                                      *)
(***************************************************************************)
CONSTANT Reqs  \* invocations

VARIABLES
  promise,  \* the answer to each invocation
  outcome   \* how its run ended: "none", "ok" or "error"

Local == {"cancelled", "transport", "refused"}
Answers == Local \cup {"resolved", "failed"}
Promises == {"none", "pending"} \cup Answers

Init ==
  /\ promise = [r \in Reqs |-> "none"]
  /\ outcome = [r \in Reqs |-> "none"]

(* Calls begin; pending ones and calls refused at once get local answers. *)
Call(started, answered, answer) ==
  /\ started \subseteq {r \in Reqs : promise[r] = "none"}
  /\ answered \subseteq started \cup {r \in Reqs : promise[r] = "pending"}
  /\ answer \in [answered -> Local]
  /\ promise' = [r \in Reqs |-> IF r \in answered THEN answer[r]
                               ELSE IF r \in started THEN "pending" ELSE promise[r]]
  /\ UNCHANGED outcome

End(r, o) ==
  /\ outcome[r] = "none" /\ promise[r] # "none"
  /\ outcome' = [outcome EXCEPT ![r] = o]
  /\ UNCHANGED promise

Answer(r) ==
  /\ promise[r] = "pending" /\ outcome[r] # "none"
  /\ promise' = [promise EXCEPT ![r] = IF outcome[r] = "ok" THEN "resolved" ELSE "failed"]
  /\ UNCHANGED outcome

Next ==
  \/ \E started, answered \in SUBSET Reqs : \E answer \in [answered -> Local] :
       Call(started, answered, answer)
  \/ \E r \in Reqs : Answer(r) \/ \E o \in {"ok", "error"} : End(r, o)

Spec == Init /\ [][Next]_<<promise, outcome>>
=============================================================================
