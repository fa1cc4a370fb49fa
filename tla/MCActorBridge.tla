---------------------------- MODULE MCActorBridge ----------------------------
(***************************************************************************)
(* Instances of ActorBridge for TLC.                                       *)
(***************************************************************************)
EXTENDS ActorBridge

Action(ops, safe, confirm) == [ops |-> ops, safe |-> safe, confirm |-> confirm]

MCPlans == {Action(<<"navigate", "act">>, FALSE, 2), Action(<<"act">>, TRUE, 0)}
OneAct == {Action(<<"act">>, FALSE, 0)}
=============================================================================
