------------------------------- MODULE ActionMap -------------------------------
(***************************************************************************)
(* The action map of one site scope (action-map/1): the states a site has  *)
(* and what can be done on it, as the patches of the AI parser fill it in, *)
(* and the validation every writer of a map applies (Map.Validate).        *)
(*                                                                         *)
(* A locator is abstracted to the element it describes and the fields that *)
(* describe it: "text" stands for text, placeholder and href, "roleCss" is *)
(* the selector of a role attribute, "generated" says that the selector is *)
(* an nth-child one.  A step is [op, target, value, literal, key, expect]; *)
(* key "listed" is one of the twelve keys of action-list/1.  A URL pattern is *)
(* abstracted to the place whose URLs it matches and to the regular-       *)
(* expression dialects that compile it: Go's RE2 ("go"), the browser's     *)
(* ("js"), or both.  Wording, categories and size limits of texts are left *)
(* out.                                                                    *)
(***************************************************************************)
EXTENDS Naturals, Sequences, FiniteSets

CONSTANTS States,      \* identifiers of states: numbers, for the code sorts them
          Actions,     \* identifiers of actions
          Elements,    \* what a locator can describe
          Places,      \* what a URL pattern can match
          Params,      \* names of parameters
          Fields,      \* names of output fields
          NoElement, NoParam, NoPattern,
          MaxStates, MaxActions    \* 16 and 40 in the code

NoState == 0

ASSUME BoundsAssumption == MaxStates \in Nat /\ MaxActions \in Nat
ASSUME NamesAssumption == States \subseteq Nat \ {NoState} /\ NoParam \notin Params

Locator == [el : Elements \cup {NoElement},
            by : SUBSET {"role", "name", "text", "css", "roleCss"}, generated : BOOLEAN]
Pattern == [place : Places, dialect : {"both", "go", "js"}]
Effect == [kind : STRING, target : Locator, state : States \cup {NoState},
           pattern : Pattern \cup {NoPattern}]
MapStep == [op : STRING, target : Locator, value : Params \cup {NoParam}, literal : BOOLEAN,
            key : {"none", "listed", "other"}, expect : Effect]
Field == [name : Fields, locator : Locator, required : BOOLEAN]
Output == [mode : STRING, root : Locator, item : Locator, fields : Seq(Field)]

\* What the strict JSON decoder leaves of an action.
Decoded(action) ==
  /\ DOMAIN action = {"status", "safety", "from", "to", "params", "steps", "output", "evidence"}
  /\ action.params \in UNION {[names -> BOOLEAN] : names \in SUBSET Params}
  /\ action.steps \in Seq(MapStep)
  /\ action.output \in Output

HasEvidence(locator) == locator.by # {}
EmptyMap == [states |-> [s \in {} |-> 0], actions |-> [a \in {} |-> 0]]

StepValid(step, action, states) ==
  /\ step.op \in {"fill", "click", "press", "wait", "extract"}
  /\ step.op \in {"fill", "click"} => HasEvidence(step.target)
  /\ step.op = "fill" => \/ step.value \in DOMAIN action.params
                         \/ step.value = NoParam /\ step.literal
  /\ step.op = "press" => step.key # "none"
  /\ step.expect.kind \in {"none", "dom_change", "navigation", "collection", "element"}
  /\ step.expect.state \in states \cup {NoState}

ActionValid(action, states) ==
  /\ action.status \in {"observed", "resolvable", "unresolved"}
  /\ action.safety \in {"read", "write", "danger"}
  /\ action.from \in states
  /\ action.to \in states \cup {NoState}
  /\ action.status # "unresolved" => action.steps # <<>>
  /\ \A i \in DOMAIN action.steps : StepValid(action.steps[i], action, states)
  /\ action.output.mode \in {"none", "page", "collection"}
  /\ action.output.mode = "collection" =>
       HasEvidence(action.output.item) /\ action.output.fields # <<>>

\* Map.Validate
MapValid(map) ==
  /\ DOMAIN map.states \subseteq States /\ DOMAIN map.actions \subseteq Actions
  /\ Cardinality(DOMAIN map.states) \in 1 .. MaxStates
  /\ Cardinality(DOMAIN map.actions) \in 1 .. MaxActions
  /\ \A a \in DOMAIN map.actions : ActionValid(map.actions[a], DOMAIN map.states)
===============================================================================
