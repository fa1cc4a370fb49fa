------------------------- MODULE MCToolRegistration -------------------------
(***************************************************************************)
(* An instance of ToolRegistration for TLC: two routes; a first list, one  *)
(* that replaces it under a new digest, one whose tools clash by name, and *)
(* one whose policy does not let it in.                                    *)
(***************************************************************************)
EXTENDS ToolRegistration

MCUrls == {"home", "cart"}
Act(id, name, urls, scope) == [id |-> id, name |-> name, urls |-> urls, scope |-> scope]
List(digest, routes, scopes, actions) ==
  [digest |-> digest, routes |-> routes, allowed |-> TRUE, scopes |-> scopes, actions |-> actions]

find == Act("find", "search", MCUrls, "read")
buy == Act("buy", "buy", {"cart"}, "write")
copy == Act("copy", "buy", {"cart"}, "read")
pay == Act("pay", "pay", {"cart"}, "read")
MCCatalogs ==
  <<{List("d1", MCUrls, {"read", "write"}, {find, buy, pay})},
    {List("d2", MCUrls, {"read"}, {find, buy}),
     List("d3", {"cart"}, {"read"}, {copy}),
     [List("d4", MCUrls, {"read"}, {copy}) EXCEPT !.allowed = FALSE]}>>
=============================================================================
