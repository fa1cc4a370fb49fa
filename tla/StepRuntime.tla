------------------------------ MODULE StepRuntime ------------------------------
(***************************************************************************)
(* One step of a published action in a page (extension/actor/runtime.js):  *)
(* locators, conditions, state detection, extraction and executeStep.      *)
(* Pure operators.                                                         *)
(*                                                                         *)
(* A page is a place, whether its origin is allowed, whether an input      *)
(* keeps what is typed, and what each element looks like: "hidden" exists  *)
(* but cannot be used, "restyled" is found only by its CSS selector,       *)
(* "twice" is matched by two usable elements, "blank" has no value to read. *)
(* executeStep has no macrotask boundary between its start and its         *)
(* operation, nor inside one poll: it sees one page when it operates and   *)
(* one at every poll, and between them it may be aborted, see its document *)
(* replaced, or run out of time.                                           *)
(***************************************************************************)
EXTENDS ListGate, FiniteSetsExt

Looks == {"absent", "hidden", "shown", "blank", "restyled", "twice"}
Page == [place : Places, els : [Elements -> Looks], allowed : BOOLEAN, keeps : BOOLEAN]

InJs(pattern) == pattern.dialect \in {"both", "js"}     \* new RegExp does not throw

\* candidatesForStrategy and filteredMatches: how many elements, and how many usable ones
Raw(kind, look) ==
  CASE look = "absent" -> 0
    [] look = "twice" -> 2
    [] look = "restyled" /\ kind # "css" -> 0
    [] OTHER -> 1
Usable(kind, look) == IF look = "hidden" THEN 0 ELSE Raw(kind, look)

Found(index, count) == [code |-> "ok", index |-> index, count |-> count]
Error(code) == [code |-> code, index |-> 0, count |-> 0]

\* resolveLocator: the first strategy with a usable match decides
Resolve(target, look, many, allowEmpty) ==
  LET hits == {i \in DOMAIN target.strategies : Usable(target.strategies[i], look) > 0}
      raw  == {i \in DOMAIN target.strategies : Raw(target.strategies[i], look) > 0}
  IN  CASE target = NoTarget -> Error("INTERNAL_ERROR")
        [] target # NoTarget /\ hits # {} ->
             LET count == Usable(target.strategies[Min(hits)], look)
             IN  IF ~many /\ count > 1 THEN Error("TARGET_AMBIGUOUS")
                 ELSE Found(Min(hits), count)
        [] target # NoTarget /\ hits = {} /\ allowEmpty -> Found(0, 0)
        [] OTHER -> Error(IF raw # {} THEN "TARGET_NOT_INTERACTABLE" ELSE "TARGET_NOT_FOUND")
On(page, target, many, allowEmpty) ==
  Resolve(target, IF target = NoTarget THEN "absent" ELSE page.els[target.el], many, allowEmpty)

\* detectState: states in order, the first that matches; a pattern that does not compile throws
Detected(states, page) ==
  LET stops == {s \in DOMAIN states : ~InJs(states[s]) \/ states[s].place = page.place}
  IN  IF stops = {} THEN [code |-> "ok", state |-> NoState]
      ELSE IF ~InJs(states[Min(stops)]) THEN [code |-> "INTERNAL_ERROR", state |-> NoState]
      ELSE [code |-> "ok", state |-> Min(stops)]

\* evaluateCondition
Verdict(holds) == [code |-> "ok", holds |-> holds]
Thrown(code) == [code |-> code, holds |-> FALSE]
Condition(c, states, step, args, page) ==
  CASE c.kind = "url" ->
         IF InJs(c.pattern) THEN Verdict(c.pattern.place = page.place) ELSE Thrown("INTERNAL_ERROR")
    [] c.kind = "state" ->
         LET d == Detected(states, page)
         IN  IF d.code = "ok" THEN Verdict(d.state = c.state) ELSE Thrown(d.code)
    [] c.kind = "collection" ->      \* minimumItems is 0
         LET r == On(page, c.target, TRUE, TRUE)
         IN  IF r.code = "ok" THEN Verdict(TRUE) ELSE Thrown(r.code)
    [] c.kind = "element" ->
         LET r == On(page, c.target, FALSE, TRUE)
         IN  IF r.code = "ok" THEN Verdict(r.count > 0) ELSE Thrown(r.code)
    [] c.kind = "target_value" ->
         LET r == On(page, step.target, FALSE, TRUE)
         IN  CASE r.code # "ok" -> Thrown(r.code)
               [] r.code = "ok" /\ r.count > 0 /\ c.arg \notin args -> Thrown("INVALID_ARGUMENTS")
               [] OTHER -> Verdict(r.count > 0 /\ page.keeps)

\* evaluateSet, in mode all
Evaluated(checks, states, step, args, page) ==
  LET verdicts == {Condition(c, states, step, args, page) : c \in checks}
      errors   == {v.code : v \in verdicts} \ {"ok"}
  IN  IF errors # {} THEN [codes |-> errors, holds |-> FALSE]
      ELSE [codes |-> {}, holds |-> \A v \in verdicts : v.holds]

\* normalizeReadValue and extractFields; inside an item every field is looked up in that item
FieldCode(field, page, inItem) ==
  LET look == page.els[field.locator.el]
      seen == IF inItem /\ look = "twice" THEN "shown" ELSE look
      r    == Resolve(field.locator, seen, FALSE, ~field.required)
  IN  CASE r.code # "ok" -> r.code
        [] r.code = "ok" /\ r.count = 1 /\ seen = "blank" /\ field.required -> "POSTCONDITION_FAILED"
        [] OTHER -> "ok"

\* extractOutput
ExtractCode(output, page) ==
  LET Failed(inItem) == {FieldCode(output.fields[i], page, inItem) : i \in DOMAIN output.fields} \ {"ok"}
      First(inItem)  == IF Failed(inItem) = {} THEN "ok" ELSE CHOOSE c \in Failed(inItem) : TRUE
      root == On(page, output.root, FALSE, FALSE)
      items == On(page, output.item, TRUE, TRUE)
  IN  CASE output.mode = "none" -> "ok"
        [] output.mode = "page" -> First(FALSE)
        [] output.mode = "collection" /\ root.code # "ok" -> root.code
        [] OTHER -> IF items.count = 0 THEN items.code ELSE First(TRUE)

\* interactionTarget and the operation: the page the step starts on
Operated(action, i, args, page) ==
  LET step == action.steps[i]
      r    == On(page, step.target, FALSE, FALSE)
  IN  CASE step.op = "wait" -> Found(0, 0)
        [] step.op = "extract" -> IF ExtractCode(action.output, page) = "ok" THEN Found(0, 0)
                                  ELSE Error(ExtractCode(action.output, page))
        [] step.op \in {"fill", "click", "press"} /\ r.code # "ok" -> r
        [] step.op = "fill" /\ r.code = "ok" /\ step.value \notin args -> Error("INVALID_ARGUMENTS")
        [] step.op = "press" /\ r.code = "ok" /\ step.key = "other" -> Error("INTERNAL_ERROR")
        [] OTHER -> r

\* How a step can be cut short: abort, the step's deadline, the action's, the end of the document.
Interrupted(step) ==
  {"CANCELLED", "TIMEOUT", "TRANSPORT_DISCONNECTED"}
    \cup (IF step.op = "wait" THEN {} ELSE {"POSTCONDITION_FAILED"})

\* executeStep, operating on page p and then polling page q; no result while q has not passed
StepResults(action, states, i, args, p, q) ==
  LET step     == action.steps[i]
      before   == Detected(states, p)
      operated == Operated(action, i, args, p)
      after    == Evaluated(step.expect, states, step, args, q)
      effect   == Detected(states, q)
  IN  {Error(code) : code \in Interrupted(step)} \cup
      CASE ~p.allowed -> {Error("NAVIGATION_OUT_OF_SCOPE")}
        [] p.allowed /\ before.code # "ok" -> {Error(before.code)}
        [] p.allowed /\ before.code = "ok" /\ operated.code # "ok" -> {operated}
        [] p.allowed /\ before.code = "ok" /\ operated.code = "ok" ->
             IF after.codes # {} THEN {Error(code) : code \in after.codes}
             ELSE IF ~q.allowed THEN {Error("NAVIGATION_OUT_OF_SCOPE")}
             ELSE IF ~after.holds THEN {}
             ELSE IF effect.code # "ok" THEN {Error(effect.code)}
             ELSE {operated}

\* What becomes of a run at its first page: what the page announces (announcePage), as the
\* coordinator takes it (handlePageReady).  A pattern of the entry state that the browser does
\* not compile throws in the coordinator, and the run waits for its deadline.
EntryCode(list, action, page) ==
  LET entry    == list.states[action.from]
      detected == Detected(list.states, page)
  IN  CASE ~page.allowed -> "NAVIGATION_OUT_OF_SCOPE"
        [] page.allowed /\ ~InJs(entry) -> "TIMEOUT"
        [] page.allowed /\ InJs(entry) ->
             IF detected = [code |-> "ok", state |-> action.from] THEN "ok" ELSE "PRECONDITION_FAILED"
================================================================================
