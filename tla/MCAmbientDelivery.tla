--------------------------- MODULE MCAmbientDelivery ---------------------------
(***************************************************************************)
(* Instances of AmbientDelivery for TLC.                                   *)
(***************************************************************************)
EXTENDS AmbientDelivery, TLC

CONSTANTS MaxDisturbances,   \* navigations, decisions of the user, faults, and deliveries
          QuietCalls         \* beyond these, of one behaviour

MCStamps == 1..2
MCSymmetry == Permutations(Tabs)
TheScope == CHOOSE s \in Scopes : TRUE
Sent == Cardinality({c \in CallIds : calls[c] # FreeCall})
FewDisturbances ==
  docs + faults + (policy[TheScope].revision - 1)
    + (IF Sent > QuietCalls THEN Sent - QuietCalls ELSE 0) <= MaxDisturbances
===============================================================================
