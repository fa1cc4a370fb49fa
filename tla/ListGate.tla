-------------------------------- MODULE ListGate --------------------------------
(***************************************************************************)
(* The projection of an action map to an action list (action-list/1):      *)
(* CompileAmbientCandidate of package learning, and the validation of the  *)
(* result by package manifest (DecodeActionList).  Pure operators.         *)
(*                                                                         *)
(* A list is [states, actions]; a locator of a list is the element and the *)
(* sequence of strategies that are tried in order.  Origins, durations,    *)
(* texts and the JSON shape that the compiler always produces are left     *)
(* out.                                                                    *)
(***************************************************************************)
EXTENDS ActionMap

StrategyKinds == {"role", "roleCss", "text", "css"}
NoTarget == [el |-> NoElement, strategies |-> <<>>]

\* compileLocator: no strategy is the nil locator
Strategies(locator) ==
  (CASE {"role", "name"} \subseteq locator.by -> <<"role">>
     [] "role" \in locator.by /\ "name" \notin locator.by -> <<"roleCss">>
     [] OTHER -> <<>>)
  \o (IF "text" \in locator.by THEN <<"text">> ELSE <<>>)
  \o (IF "css" \in locator.by /\ ~locator.generated THEN <<"css">> ELSE <<>>)
  \o (IF "roleCss" \in locator.by THEN <<"roleCss">> ELSE <<>>)
Compiled(locator) ==
  IF Strategies(locator) = <<>> THEN NoTarget
  ELSE [el |-> locator.el, strategies |-> Strategies(locator)]

\* invalidLocator
Unsupported(locator) ==
  \/ "css" \in locator.by /\ locator.generated
  \/ HasEvidence(locator) /\ Strategies(locator) = <<>>

\* compilerDiagnostics, which looks at the actions that are not projected too
ActionProjectable(action) ==
  /\ \A i \in DOMAIN action.steps :
       LET step == action.steps[i]
       IN  /\ step.op \in {"fill", "click", "press"} => step.expect.kind # "none"
           /\ ~Unsupported(step.target)
           /\ step.expect.kind \in {"element", "collection"} => ~Unsupported(step.expect.target)
  /\ action.output.mode # "none" =>
       /\ action.steps # <<>> /\ action.steps[Len(action.steps)].op = "extract"
       /\ \A i \in DOMAIN action.output.fields : ~Unsupported(action.output.fields[i].locator)
  /\ action.output.mode = "collection" =>
       \A locator \in {action.output.root, action.output.item} :
         HasEvidence(locator) /\ ~Unsupported(locator)

Check(kind, pattern, state, target, arg) ==
  [kind |-> kind, pattern |-> pattern, state |-> state, target |-> target, arg |-> arg]
UrlCheck(pattern) == Check("url", pattern, NoState, NoTarget, NoParam)
StateCheck(state) == Check("state", NoPattern, state, NoTarget, NoParam)

\* compileExpectation; an ambient transition has no recorded counts of changes
Expectation(step, action) ==
  LET ReachesEnd == IF action.to = NoState THEN {} ELSE {StateCheck(action.to)}
      checks ==
        CASE step.op = "fill" -> {Check("target_value", NoPattern, NoState, NoTarget, step.value)}
          [] step.op # "fill" /\ step.expect.kind = "navigation" ->
               (IF step.expect.pattern = NoPattern THEN {} ELSE {UrlCheck(step.expect.pattern)})
               \cup (IF step.expect.state = NoState THEN {} ELSE {StateCheck(step.expect.state)})
          [] step.op # "fill" /\ step.expect.kind \in {"collection", "element"} ->
               {Check(step.expect.kind, NoPattern, NoState, Compiled(step.expect.target), NoParam)}
          [] OTHER -> {}
  IN  IF checks = {} THEN ReachesEnd ELSE checks

CompileStep(step, action) ==
  [op |-> step.op, expect |-> Expectation(step, action), value |-> step.value, key |-> step.key,
   target |-> IF step.op \in {"fill", "click", "press"} THEN Compiled(step.target) ELSE NoTarget]

CompileField(field) ==
  [name |-> field.name, required |-> field.required, locator |-> Compiled(field.locator)]

CompileOutput(output) ==
  IF output.mode = "none" THEN [mode |-> "none", root |-> NoTarget, item |-> NoTarget, fields |-> <<>>]
  ELSE [mode |-> output.mode,
        root |-> IF output.mode = "collection" THEN Compiled(output.root) ELSE NoTarget,
        item |-> IF output.mode = "collection" THEN Compiled(output.item) ELSE NoTarget,
        fields |-> [i \in DOMAIN output.fields |-> CompileField(output.fields[i])]]

\* compileSafety: which confirmation is asked, and before which step
CompileSafety(action) ==
  CASE action.safety = "read"   -> [class |-> "read", confirmation |-> "never", step |-> 0]
    [] action.safety = "write"  -> [class |-> "write", confirmation |-> "before_run", step |-> 0]
    [] action.safety = "danger" -> [class |-> "danger", confirmation |-> "before_step", step |-> 1]

CompileAction(action) ==
  [from |-> action.from, params |-> action.params, safety |-> CompileSafety(action),
   steps |-> [i \in DOMAIN action.steps |-> CompileStep(action.steps[i], action)],
   output |-> CompileOutput(action.output)]

Eligible(map) == {a \in DOMAIN map.actions : map.actions[a].status # "unresolved"}
Projection(map) ==
  [states  |-> [s \in DOMAIN map.states |-> map.states[s].pattern],
   actions |-> [a \in Eligible(map) |-> CompileAction(map.actions[a])]]

-----------------------------------------------------------------------------
(* DecodeActionList: the shape and the rules of a list.                    *)

InGo(pattern) == pattern.dialect \in {"both", "go"}    \* validateRegex

ChecksValid(checks, action, states) ==
  /\ checks # {}
  /\ \A c \in checks :
       /\ c.kind = "url" => InGo(c.pattern)
       /\ c.kind = "state" => c.state \in states
       /\ c.kind \in {"element", "collection"} => c.target # NoTarget
       /\ c.kind = "target_value" => c.arg \in DOMAIN action.params

\* Faulty variant: the key of a press is not looked at.
ListStepValidAnyKey(step, action, states) ==
  /\ step.op \in {"fill", "click", "press"} => step.target # NoTarget
  /\ step.op = "fill" => step.value \in DOMAIN action.params
  /\ ChecksValid(step.expect, action, states)
ListStepValid(step, action, states) ==
  /\ step.op \in {"fill", "click", "press"} => step.target # NoTarget
  /\ step.op = "fill" => step.value \in DOMAIN action.params
  /\ step.op = "press" => step.key # "other"
  /\ ChecksValid(step.expect, action, states)

OutputValid(output, steps) ==
  LET extracts == {i \in DOMAIN steps : steps[i].op = "extract"}
  IN  /\ IF output.mode = "none" THEN extracts = {} ELSE extracts = {Len(steps)}
      /\ output.mode # "none" => output.fields # <<>>
      /\ output.mode = "collection" => output.root # NoTarget /\ output.item # NoTarget
      /\ \A i, j \in DOMAIN output.fields :
           output.fields[i].name = output.fields[j].name => i = j
      /\ \A i \in DOMAIN output.fields : output.fields[i].locator # NoTarget

SafetyValid(safety, steps) ==
  /\ safety.class = "read" => safety.confirmation = "never"
  /\ (safety.confirmation = "before_step") <=> (safety.step # 0)
  /\ safety.step \in 0 .. Len(steps)

ListActionValid(action, states) ==
  /\ action.from \in states
  /\ action.steps # <<>>
  /\ \A i \in DOMAIN action.steps : ListStepValid(action.steps[i], action, states)
  /\ OutputValid(action.output, action.steps)
  /\ SafetyValid(action.safety, action.steps)

\* ActionList.Validate
ListValid(list) ==
  /\ DOMAIN list.states # {}
  /\ \A s \in DOMAIN list.states : InGo(list.states[s])
  /\ DOMAIN list.actions # {}
  /\ \A a \in DOMAIN list.actions : ListActionValid(list.actions[a], DOMAIN list.states)

\* CompileAmbientCandidate returns a list for the map
Projectable(map) ==
  /\ MapValid(map)
  /\ \A a \in DOMAIN map.actions : ActionProjectable(map.actions[a])
  /\ Eligible(map) # {}
  /\ ListValid(Projection(map))
================================================================================
