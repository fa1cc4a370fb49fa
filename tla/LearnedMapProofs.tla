---------------------------- MODULE LearnedMapProofs ----------------------------
(* Theorems about LearnedMap, for every scope, every answer of the AI and every page. *)
EXTENDS LearnedMap, WellFoundedInduction, TLAPS

-------------------------------------------------------------------------------
(* Applying a patch *)

Ids(ops) == {o.id : o \in ops}

LEMMA PatchedParts ==
  ASSUME NEW map, NEW patch
  PROVE  LET next == Patched(map, patch)
             states == Upserts(patch, "state")
             actions == Upserts(patch, "action")
         IN  /\ DOMAIN next = {"states", "actions"}
             /\ DOMAIN next.states = DOMAIN map.states \cup Ids(states)
             /\ DOMAIN next.actions = DOMAIN map.actions \cup Ids(actions)
             /\ \A id \in DOMAIN map.actions \ Ids(actions) : next.actions[id] = map.actions[id]
             /\ \A id \in Ids(actions) :
                  \E o \in actions : o.id = id /\ next.actions[id] = o.action
  <1> DEFINE actions == Upserts(patch, "action")
  <1>1. \A id \in Ids(actions) : LET o == CHOOSE o \in actions : o.id = id
                                 IN  o \in actions /\ o.id = id
    BY DEF Ids
  <1> QED BY <1>1 DEF Patched, Upsert, Ids

StateMeta(o) == [provenance |-> o.provenance, handles |-> {c.id : c \in o.cites}]
ActionMeta(o) == [provenance |-> o.provenance, handles |-> {b.id : b \in o.bindings}]

LEMMA NextMetaParts ==
  ASSUME NEW meta, NEW patch
  PROVE  LET next == NextMeta(meta, patch)
             states == Upserts(patch, "state")
             actions == Upserts(patch, "action")
         IN  /\ DOMAIN next = {"states", "actions", "evidence"}
             /\ next.evidence = Merged(meta.evidence, patch.cites)
             /\ DOMAIN next.states = DOMAIN meta.states \cup Ids(states)
             /\ DOMAIN next.actions = DOMAIN meta.actions \cup Ids(actions)
             /\ \A id \in DOMAIN meta.states \ Ids(states) : next.states[id] = meta.states[id]
             /\ \A id \in DOMAIN meta.actions \ Ids(actions) : next.actions[id] = meta.actions[id]
             /\ \A id \in Ids(states) :
                  \E o \in states : o.id = id /\ next.states[id] = StateMeta(o)
             /\ \A id \in Ids(actions) :
                  \E o \in actions : o.id = id /\ next.actions[id] = ActionMeta(o)
  <1> DEFINE states == Upserts(patch, "state")
             actions == Upserts(patch, "action")
             next == NextMeta(meta, patch)
  <1>1. /\ DOMAIN next = {"states", "actions", "evidence"}
        /\ next.evidence = Merged(meta.evidence, patch.cites)
        /\ next.states = [id \in DOMAIN meta.states \cup Ids(states) |->
                            IF \E o \in states : o.id = id
                            THEN StateMeta(CHOOSE o \in states : o.id = id) ELSE meta.states[id]]
        /\ next.actions = [id \in DOMAIN meta.actions \cup Ids(actions) |->
                             IF \E o \in actions : o.id = id
                             THEN ActionMeta(CHOOSE o \in actions : o.id = id)
                             ELSE meta.actions[id]]
    BY DEF NextMeta, Upsert, Ids, StateMeta, ActionMeta
  <1>2. \A id \in Ids(actions) : LET o == CHOOSE o \in actions : o.id = id
                                 IN  o \in actions /\ o.id = id
    BY DEF Ids
  <1>3. \A id \in Ids(states) : LET o == CHOOSE o \in states : o.id = id
                                IN  o \in states /\ o.id = id
    BY DEF Ids
  <1> HIDE DEF next, states, actions
  <1>4. /\ DOMAIN next.states = DOMAIN meta.states \cup Ids(states)
        /\ \A id \in DOMAIN meta.states \ Ids(states) : next.states[id] = meta.states[id]
        /\ \A id \in Ids(states) :
             \E o \in states : o.id = id /\ next.states[id] = StateMeta(o)
    <2>1. \A id : (\E o \in states : o.id = id) <=> id \in Ids(states)
      BY DEF Ids
    <2>2. ASSUME NEW id \in Ids(states)
          PROVE  \E o \in states : o.id = id /\ next.states[id] = StateMeta(o)
      <3>1. next.states[id] = StateMeta(CHOOSE o \in states : o.id = id)
        BY <1>1, <2>1, <2>2
      <3> QED BY <1>3, <2>2, <3>1
    <2>3. ASSUME NEW id \in DOMAIN meta.states \ Ids(states)
          PROVE  next.states[id] = meta.states[id]
      BY <1>1, <2>1, <2>3
    <2> QED BY <1>1, <2>2, <2>3
  <1>5. /\ DOMAIN next.actions = DOMAIN meta.actions \cup Ids(actions)
        /\ \A id \in DOMAIN meta.actions \ Ids(actions) : next.actions[id] = meta.actions[id]
        /\ \A id \in Ids(actions) :
             \E o \in actions : o.id = id /\ next.actions[id] = ActionMeta(o)
    <2>1. \A id : (\E o \in actions : o.id = id) <=> id \in Ids(actions)
      BY DEF Ids
    <2>2. ASSUME NEW id \in Ids(actions)
          PROVE  \E o \in actions : o.id = id /\ next.actions[id] = ActionMeta(o)
      <3>1. next.actions[id] = ActionMeta(CHOOSE o \in actions : o.id = id)
        BY <1>1, <2>1, <2>2
      <3> QED BY <1>2, <2>2, <3>1
    <2>3. ASSUME NEW id \in DOMAIN meta.actions \ Ids(actions)
          PROVE  next.actions[id] = meta.actions[id]
      BY <1>1, <2>1, <2>3
    <2> QED BY <1>1, <2>2, <2>3
  <1> QED BY <1>1, <1>4, <1>5 DEF next, states, actions

LEMMA MergedKeeps ==
  ASSUME NEW evidence, NEW cites
  PROVE  /\ \A e \in evidence : \E f \in Merged(evidence, cites) : f.id = e.id
         /\ \A c \in cites : \E f \in Merged(evidence, cites) : f.id = c.id
  <1>1. ASSUME NEW c \in cites PROVE \E f \in Merged(evidence, cites) : f.id = c.id
    <2>1. [layer |-> c.layer, id |-> c.id, source |-> c.source] \in Merged(evidence, cites)
      BY DEF Merged, CitedEvidence
    <2> QED BY <2>1
  <1>2. ASSUME NEW e \in evidence PROVE \E f \in Merged(evidence, cites) : f.id = e.id
    <2>1. CASE \E c \in cites : c.layer = e.layer /\ c.id = e.id
      BY <1>1, <2>1
    <2>2. CASE ~\E c \in cites : c.layer = e.layer /\ c.id = e.id
      BY <2>2 DEF Merged
    <2> QED BY <2>1, <2>2
  <1> QED BY <1>1, <1>2

-------------------------------------------------------------------------------
(* The head of the scope *)

\* Every entity keeps a handle, and each handle names a record of the evidence.
Backed(entities, evidence) ==
  \A id \in DOMAIN entities :
    /\ entities[id].handles # {}
    /\ \A handle \in entities[id].handles : \E e \in evidence : e.id = handle

HeadShape ==
  /\ head.rev \in Nat
  /\ {"states", "actions"} \subseteq DOMAIN head.map
  /\ {"states", "actions", "evidence"} \subseteq DOMAIN head.meta
  /\ \A a \in DOMAIN head.meta.actions :
       {"provenance", "handles"} \subseteq DOMAIN head.meta.actions[a]
HeadDomains ==
  /\ DOMAIN head.map.states = DOMAIN head.meta.states
  /\ DOMAIN head.map.actions = DOMAIN head.meta.actions
HeadBacked ==
  /\ Backed(head.meta.states, head.meta.evidence)
  /\ Backed(head.meta.actions, head.meta.evidence)

\* HeadIsSound, from the empty map on.
HeadInv ==
  /\ HeadShape /\ HeadDomains /\ HeadBacked
  /\ head.rev # 0 => MapValid(head.map)
  /\ \A a \in DOMAIN head.map.actions : Decoded(head.map.actions[a])

LEMMA HeadInit == Init => HeadInv
  BY DEF Init, HeadInv, HeadShape, HeadDomains, HeadBacked, Backed, EmptyMap, NoMeta

\* What a layer's answer makes of the head.
Learned(patch) ==
  /\ ParserAccepts(patch, Request, head.map)
  /\ StoreAccepts(patch, Request, head.map, head.meta)
  /\ patch.ops # {}
  /\ head' = [rev |-> head.rev + 1, map |-> Patched(head.map, patch),
              meta |-> NextMeta(head.meta, patch)]

LEMMA LearnedHead ==
  ASSUME HeadInv, NEW patch, Learned(patch)
  PROVE  HeadInv'
  <1> DEFINE map == Patched(head.map, patch)
             meta == NextMeta(head.meta, patch)
             states == Upserts(patch, "state")
             actions == Upserts(patch, "action")
  <1>1. head'.rev = head.rev + 1 /\ head'.map = map /\ head'.meta = meta
    BY DEF Learned
  <1>2. /\ \A o \in states : o.cites # {} /\ o.cites \subseteq patch.cites
        /\ \A o \in actions : o.bindings # {} /\ Decoded(o.action)
        /\ \A o \in actions : \A b \in o.bindings : \E c \in patch.cites : c.id = b.id
        /\ MapValid(map)
    BY DEF Learned, ParserAccepts, StoreAccepts, StoreTakesAction, Upserts
  <1>3. /\ DOMAIN map = {"states", "actions"}
        /\ DOMAIN map.states = DOMAIN head.map.states \cup Ids(states)
        /\ DOMAIN map.actions = DOMAIN head.map.actions \cup Ids(actions)
        /\ \A id \in DOMAIN head.map.actions \ Ids(actions) : map.actions[id] = head.map.actions[id]
        /\ \A id \in Ids(actions) : \E o \in actions : o.id = id /\ map.actions[id] = o.action
    BY PatchedParts
  <1>4. /\ DOMAIN meta = {"states", "actions", "evidence"}
        /\ meta.evidence = Merged(head.meta.evidence, patch.cites)
        /\ DOMAIN meta.states = DOMAIN head.meta.states \cup Ids(states)
        /\ DOMAIN meta.actions = DOMAIN head.meta.actions \cup Ids(actions)
    BY NextMetaParts
  <1>5. /\ \A id \in DOMAIN head.meta.states \ Ids(states) :
             meta.states[id] = head.meta.states[id]
        /\ \A id \in DOMAIN head.meta.actions \ Ids(actions) :
             meta.actions[id] = head.meta.actions[id]
    BY NextMetaParts
  <1>6. /\ \A id \in Ids(states) :
             \E o \in states : o.id = id /\ meta.states[id] = StateMeta(o)
        /\ \A id \in Ids(actions) :
             \E o \in actions : o.id = id /\ meta.actions[id] = ActionMeta(o)
    BY NextMetaParts
  <1> HIDE DEF map, meta, states, actions
  <1>7. HeadShape'
    <2>1. \A a \in DOMAIN meta.actions : {"provenance", "handles"} \subseteq DOMAIN meta.actions[a]
      BY <1>4, <1>5, <1>6 DEF HeadInv, HeadShape, ActionMeta
    <2> QED BY <1>1, <1>3, <1>4, <2>1 DEF HeadInv, HeadShape
  <1>8. HeadDomains'
    BY <1>1, <1>3, <1>4 DEF HeadInv, HeadDomains
  <1>9. Backed(meta.states, meta.evidence)
    <2> SUFFICES ASSUME NEW id \in DOMAIN meta.states
                 PROVE  /\ meta.states[id].handles # {}
                        /\ \A handle \in meta.states[id].handles :
                             \E e \in meta.evidence : e.id = handle
      BY DEF Backed
    <2>1. CASE id \in Ids(states)
      <3>1. PICK o \in states : meta.states[id] = StateMeta(o)
        BY <1>6, <2>1
      <3>2. meta.states[id].handles = {x.id : x \in o.cites}
        BY <3>1 DEF StateMeta
      <3> QED BY <1>2, <1>4, <3>2, MergedKeeps
    <2>2. CASE id \notin Ids(states)
      BY <1>4, <1>5, <2>2, MergedKeeps DEF HeadInv, HeadBacked, Backed
    <2> QED BY <2>1, <2>2
  <1>10. Backed(meta.actions, meta.evidence)
    <2> SUFFICES ASSUME NEW id \in DOMAIN meta.actions
                 PROVE  /\ meta.actions[id].handles # {}
                        /\ \A handle \in meta.actions[id].handles :
                             \E e \in meta.evidence : e.id = handle
      BY DEF Backed
    <2>1. CASE id \in Ids(actions)
      <3>1. PICK o \in actions : meta.actions[id] = ActionMeta(o)
        BY <1>6, <2>1
      <3>2. meta.actions[id].handles = {x.id : x \in o.bindings}
        BY <3>1 DEF ActionMeta
      <3> QED BY <1>2, <1>4, <3>2, MergedKeeps
    <2>2. CASE id \notin Ids(actions)
      BY <1>4, <1>5, <2>2, MergedKeeps DEF HeadInv, HeadBacked, Backed
    <2> QED BY <2>1, <2>2
  <1>11. \A a \in DOMAIN map.actions : Decoded(map.actions[a])
    BY <1>2, <1>3 DEF HeadInv
  <1> QED BY <1>1, <1>2, <1>7, <1>8, <1>9, <1>10, <1>11 DEF HeadInv, HeadBacked

-------------------------------------------------------------------------------
(* What a list that was projected from a map promises *)

\* The lists the loop stores: CompileAmbientCandidate accepted the map they come from.
Listed(list) ==
  \E map : /\ \A a \in DOMAIN map.actions : Decoded(map.actions[a])
           /\ Projectable(map)
           /\ list = Projection(map)

Resolvable(target) == target.strategies \in Seq(StrategyKinds)

\* What the page relies on for one step.
StepSound(step, plan) ==
  /\ step.op \in {"fill", "click", "press", "wait", "extract"}
  /\ Resolvable(step.target)
  /\ step.op \in Interactive => step.target # NoTarget
  /\ step.op = "fill" => step.value \in DOMAIN plan.params
  /\ step.op = "press" => step.key # "other"
  /\ \A c \in step.expect :
       /\ c.kind \in {"url", "state", "element", "collection", "target_value"}
       /\ c.kind \in {"element", "collection"} => Resolvable(c.target) /\ c.target # NoTarget
       /\ c.kind = "target_value" => step.op = "fill" /\ c.arg = step.value
OutputSound(output) ==
  /\ output.mode \in {"none", "page", "collection"}
  /\ output.mode # "none" =>
       \A i \in DOMAIN output.fields :
         Resolvable(output.fields[i].locator) /\ output.fields[i].locator # NoTarget
  /\ output.mode = "collection" => /\ Resolvable(output.root) /\ output.root # NoTarget
                                   /\ Resolvable(output.item) /\ output.item # NoTarget
PlanSound(plan) ==
  /\ \E n \in Nat \ {0} : DOMAIN plan.steps = 1 .. n /\ Len(plan.steps) = n
  /\ \A i \in DOMAIN plan.steps : StepSound(plan.steps[i], plan)
  /\ OutputSound(plan.output)

LEMMA CompiledResolvable == \A locator : Resolvable(Compiled(locator)) /\ Resolvable(NoTarget)
  <1> TAKE locator
  <1>1. /\ <<"role">> \in Seq(StrategyKinds) /\ <<"roleCss">> \in Seq(StrategyKinds)
        /\ <<"text">> \in Seq(StrategyKinds) /\ <<"css">> \in Seq(StrategyKinds)
        /\ <<>> \in Seq(StrategyKinds)
    BY DEF StrategyKinds
  <1>2. \A s, t \in Seq(StrategyKinds) : s \o t \in Seq(StrategyKinds)
    OBVIOUS
  <1>3. Strategies(locator) \in Seq(StrategyKinds)
    BY <1>1, <1>2 DEF Strategies
  <1> QED BY <1>1, <1>3 DEF Compiled, NoTarget, Resolvable

LEMMA CompiledChecks ==
  ASSUME NEW step, NEW action, NEW c \in Expectation(step, action)
  PROVE  /\ c.kind \in {"url", "state", "element", "collection", "target_value"}
         /\ c.kind \in {"element", "collection"} => Resolvable(c.target)
         /\ c.kind = "target_value" => step.op = "fill" /\ c.arg = step.value
  BY CompiledResolvable DEF Expectation, Check, UrlCheck, StateCheck

LEMMA ListedPlan ==
  ASSUME NEW list, Listed(list)
  PROVE  /\ DOMAIN list.states \subseteq Nat
         /\ \A a \in DOMAIN list.actions : PlanSound(list.actions[a])
  <1>1. PICK map : /\ \A a \in DOMAIN map.actions : Decoded(map.actions[a])
                   /\ Projectable(map)
                   /\ list = Projection(map)
    BY DEF Listed
  <1>2. DOMAIN list.states \subseteq Nat
    BY <1>1, NamesAssumption DEF Projection, Projectable, MapValid
  <1>3. ASSUME NEW a \in DOMAIN list.actions PROVE PlanSound(list.actions[a])
    <2> DEFINE action == map.actions[a]
               plan == list.actions[a]
    <2>1. a \in DOMAIN map.actions /\ plan = CompileAction(action)
      BY <1>1 DEF Projection, Eligible
    <2>2. Decoded(action) /\ ActionValid(action, DOMAIN map.states)
      BY <1>1, <2>1 DEF Projectable, MapValid
    <2>3. ListActionValid(plan, DOMAIN list.states)
      BY <1>1 DEF Projectable, ListValid
    <2> HIDE DEF action, plan
    <2>4. /\ DOMAIN plan.steps = DOMAIN action.steps
          /\ \A i \in DOMAIN plan.steps : plan.steps[i] = CompileStep(action.steps[i], action)
          /\ plan.params = action.params
          /\ plan.output = CompileOutput(action.output)
      BY <2>1 DEF CompileAction
    <2>5. \E n \in Nat \ {0} : DOMAIN plan.steps = 1 .. n /\ Len(plan.steps) = n
      <3> DEFINE S == {CompileStep(s, action) : s \in MapStep}
      <3>1. action.steps \in Seq(MapStep)
        BY <2>2 DEF Decoded
      <3>2. plan.steps = [i \in DOMAIN action.steps |-> CompileStep(action.steps[i], action)]
        BY <2>1 DEF CompileAction
      <3>3. \A i \in DOMAIN action.steps : CompileStep(action.steps[i], action) \in S
        BY <3>1
      <3> HIDE DEF S
      <3>4. plan.steps \in Seq(S)
        BY <3>1, <3>2, <3>3
      <3>5. plan.steps # <<>>
        BY <2>3 DEF ListActionValid
      <3> QED BY <3>4, <3>5
    <2>6. ASSUME NEW i \in DOMAIN plan.steps PROVE StepSound(plan.steps[i], plan)
      <3>1. StepValid(action.steps[i], action, DOMAIN map.states)
        BY <2>2, <2>4 DEF ActionValid
      <3>2. ListStepValid(plan.steps[i], plan, DOMAIN list.states)
        BY <2>3 DEF ListActionValid
      <3> DEFINE s == action.steps[i]
                 t == plan.steps[i]
      <3>3. t = CompileStep(s, action)
        BY <2>4
      <3> HIDE DEF s, t
      <3>4. /\ t.op = s.op /\ t.value = s.value /\ t.expect = Expectation(s, action)
            /\ t.target = Compiled(s.target) \/ t.target = NoTarget
        BY <3>3 DEF CompileStep
      <3>5. t.op \in {"fill", "click", "press", "wait", "extract"}
        BY <3>1, <3>4 DEF StepValid, s
      <3>6. Resolvable(t.target)
        BY <3>4, CompiledResolvable
      <3>7. /\ t.op \in Interactive => t.target # NoTarget
            /\ t.op = "fill" => t.value \in DOMAIN plan.params
            /\ t.op = "press" => t.key # "other"
            /\ \A c \in t.expect : c.kind \in {"element", "collection"} => c.target # NoTarget
        BY <3>2 DEF ListStepValid, ChecksValid, Interactive, t
      <3>8. \A c \in t.expect :
              /\ c.kind \in {"url", "state", "element", "collection", "target_value"}
              /\ c.kind \in {"element", "collection"} => Resolvable(c.target)
              /\ c.kind = "target_value" => t.op = "fill" /\ c.arg = t.value
        BY <3>4, CompiledChecks
      <3> QED BY <3>5, <3>6, <3>7, <3>8 DEF StepSound, t
    <2>7. OutputSound(plan.output)
      <3>1. OutputValid(plan.output, plan.steps)
        BY <2>3 DEF ListActionValid
      <3>2. action.output.mode \in {"none", "page", "collection"}
        BY <2>2 DEF ActionValid
      <3>3. /\ plan.output.mode = action.output.mode
            /\ plan.output.mode = "collection" => /\ Resolvable(plan.output.root)
                                                  /\ Resolvable(plan.output.item)
        BY <2>4, CompiledResolvable DEF CompileOutput
      <3>4. plan.output.mode # "none" => \A i \in DOMAIN plan.output.fields :
                                           Resolvable(plan.output.fields[i].locator)
        BY <2>4, <3>3, CompiledResolvable DEF CompileOutput, CompileField
      <3> QED BY <3>1, <3>2, <3>3, <3>4 DEF OutputSound, OutputValid
    <2> QED BY <2>5, <2>6, <2>7 DEF PlanSound, plan
  <1> QED BY <1>2, <1>3

-------------------------------------------------------------------------------
(* What a page can answer to a step of such a plan *)

TargetErrors == {"TARGET_AMBIGUOUS", "TARGET_NOT_INTERACTABLE", "TARGET_NOT_FOUND"}

LEMMA MinIn ==
  ASSUME NEW S \in SUBSET Nat, S # {}
  PROVE  Min(S) \in S
  <1>1. PICK x \in S : \A y \in S : ~ (<<y, x>> \in OpToRel(<, Nat))
    BY NatLessThanWellFounded, WFMin
  <1>2. \A y \in S : ~ (y < x)
    BY <1>1 DEF OpToRel
  <1>3. \A y \in S : x <= y
    BY <1>2
  <1> QED BY <1>3 DEF Min

\* A state whose pattern the browser does not compile
Unreadable(states) == \E s \in DOMAIN states : ~InJs(states[s])

LEMMA DetectedCode ==
  ASSUME NEW states, NEW page, DOMAIN states \subseteq Nat
  PROVE  LET d == Detected(states, page)
         IN  d.code = "ok" \/ (d.code = "INTERNAL_ERROR" /\ Unreadable(states))
  <1> DEFINE stops == {s \in DOMAIN states : ~InJs(states[s]) \/ states[s].place = page.place}
  <1>1. CASE stops = {}
    BY <1>1 DEF Detected
  <1>2. CASE stops # {}
    <2>1. Min(stops) \in stops
      BY <1>2, MinIn
    <2>2. CASE ~InJs(states[Min(stops)])
      BY <1>2, <2>1, <2>2 DEF Detected, Unreadable
    <2>3. CASE InJs(states[Min(stops)])
      BY <1>2, <2>3 DEF Detected
    <2> QED BY <2>2, <2>3
  <1> QED BY <1>1, <1>2

LEMMA ResolveCode ==
  ASSUME NEW target, Resolvable(target), target # NoTarget, NEW look, NEW many, NEW allowEmpty
  PROVE  LET r == Resolve(target, look, many, allowEmpty)
         IN  r.code \in TargetErrors \cup {"ok"} /\ r.index \in Nat
  <1> DEFINE hits == {i \in DOMAIN target.strategies : Usable(target.strategies[i], look) > 0}
             r == Resolve(target, look, many, allowEmpty)
  <1>1. hits \subseteq Nat
    BY DEF Resolvable
  <1>2. hits # {} => Min(hits) \in Nat
    BY <1>1, MinIn
  <1> HIDE DEF hits
  <1>3. CASE hits # {}
    <2> DEFINE count == Usable(target.strategies[Min(hits)], look)
    <2>1. r = IF ~many /\ count > 1 THEN Error("TARGET_AMBIGUOUS") ELSE Found(Min(hits), count)
      BY <1>3 DEF Resolve, hits
    <2> QED BY <1>2, <1>3, <2>1 DEF Error, Found, TargetErrors
  <1>4. CASE hits = {} /\ allowEmpty
    <2>1. r = Found(0, 0)
      BY <1>4 DEF Resolve, hits
    <2> QED BY <2>1 DEF Found
  <1>5. CASE hits = {} /\ ~allowEmpty
    <2>1. r \in {Error("TARGET_NOT_INTERACTABLE"), Error("TARGET_NOT_FOUND")}
      BY <1>5 DEF Resolve, hits
    <2> QED BY <2>1 DEF Error, TargetErrors
  <1> QED BY <1>3, <1>4, <1>5

LEMMA OnCode ==
  ASSUME NEW target, Resolvable(target), target # NoTarget, NEW page, NEW many, NEW allowEmpty
  PROVE  LET r == On(page, target, many, allowEmpty)
         IN  r.code \in TargetErrors \cup {"ok"} /\ r.index \in Nat
  BY ResolveCode DEF On

\* What can be wrong with a check of a list that the server took.
Faulted(code, c, states, step, args) ==
  \/ code \in TargetErrors \cup {"ok"}
  \/ /\ code = "INTERNAL_ERROR"
     /\ Unreadable(states) \/ (c.kind = "url" /\ ~InJs(c.pattern))
  \/ /\ code = "INVALID_ARGUMENTS"
     /\ step.op = "fill" /\ step.value \notin args

LEMMA ConditionCode ==
  ASSUME NEW states, DOMAIN states \subseteq Nat, NEW plan, NEW step, StepSound(step, plan),
         NEW args, NEW page, NEW c \in step.expect
  PROVE  Faulted(Condition(c, states, step, args, page).code, c, states, step, args)
  <1> DEFINE v == Condition(c, states, step, args, page)
             d == Detected(states, page)
             many == On(page, c.target, TRUE, TRUE)
             one == On(page, c.target, FALSE, TRUE)
             own == On(page, step.target, FALSE, TRUE)
  <1>1. /\ c.kind = "url" => v = IF InJs(c.pattern) THEN Verdict(c.pattern.place = page.place)
                                ELSE Thrown("INTERNAL_ERROR")
        /\ c.kind = "state" => v = IF d.code = "ok" THEN Verdict(d.state = c.state)
                                  ELSE Thrown(d.code)
        /\ c.kind = "collection" => v = IF many.code = "ok" THEN Verdict(TRUE)
                                       ELSE Thrown(many.code)
        /\ c.kind = "element" => v = IF one.code = "ok" THEN Verdict(one.count > 0)
                                    ELSE Thrown(one.code)
    BY DEF Condition
  <1>2. c.kind = "target_value" =>
          \/ own.code # "ok" /\ v = Thrown(own.code)
          \/ c.arg \notin args /\ v = Thrown("INVALID_ARGUMENTS")
          \/ v = Verdict(own.count > 0 /\ page.keeps)
    <2>1. ASSUME c.kind = "target_value"
          PROVE  v = CASE own.code # "ok" -> Thrown(own.code)
                       [] own.code = "ok" /\ own.count > 0 /\ c.arg \notin args ->
                            Thrown("INVALID_ARGUMENTS")
                       [] OTHER -> Verdict(own.count > 0 /\ page.keeps)
      BY <2>1 DEF Condition
    <2> HIDE DEF v, own
    <2> QED BY <2>1
  <1>3. d.code = "ok" \/ (d.code = "INTERNAL_ERROR" /\ Unreadable(states))
    BY DetectedCode
  <1>4. /\ c.kind = "collection" => many.code \in TargetErrors \cup {"ok"}
        /\ c.kind = "element" => one.code \in TargetErrors \cup {"ok"}
    BY OnCode DEF StepSound
  <1>5. c.kind = "target_value" => /\ own.code \in TargetErrors \cup {"ok"}
                                  /\ step.op = "fill" /\ c.arg = step.value
    BY OnCode DEF StepSound, Interactive
  <1>6. /\ \A x : Verdict(x).code = "ok"
        /\ \A x : Thrown(x).code = x
    BY DEF Verdict, Thrown
  <1>7. c.kind \in {"url", "state", "element", "collection", "target_value"}
    BY DEF StepSound
  <1> SUFFICES Faulted(v.code, c, states, step, args)
    OBVIOUS
  <1> HIDE DEF v, d, many, one, own
  <1>8. CASE c.kind = "url"
    BY <1>1, <1>6, <1>8 DEF Faulted
  <1>9. CASE c.kind = "state"
    BY <1>1, <1>3, <1>6, <1>9 DEF Faulted
  <1>10. CASE c.kind \in {"collection", "element"}
    BY <1>1, <1>4, <1>6, <1>10 DEF Faulted
  <1>11. CASE c.kind = "target_value"
    BY <1>2, <1>5, <1>6, <1>11 DEF Faulted
  <1> QED BY <1>7, <1>8, <1>9, <1>10, <1>11

LEMMA FieldCodes ==
  ASSUME NEW field, Resolvable(field.locator), field.locator # NoTarget, NEW page, NEW inItem
  PROVE  FieldCode(field, page, inItem) \in TargetErrors \cup {"ok", "POSTCONDITION_FAILED"}
  <1> DEFINE look == page.els[field.locator.el]
             seen == IF inItem /\ look = "twice" THEN "shown" ELSE look
             r == Resolve(field.locator, seen, FALSE, ~field.required)
  <1>1. r.code \in TargetErrors \cup {"ok"}
    BY ResolveCode
  <1>2. FieldCode(field, page, inItem) \in {r.code, "POSTCONDITION_FAILED", "ok"}
    BY DEF FieldCode
  <1> HIDE DEF r
  <1> QED BY <1>1, <1>2

LEMMA ExtractCodes ==
  ASSUME NEW output, OutputSound(output), NEW page
  PROVE  ExtractCode(output, page) \in TargetErrors \cup {"ok", "POSTCONDITION_FAILED"}
  <1> DEFINE Failed(inItem) ==
               {FieldCode(output.fields[i], page, inItem) : i \in DOMAIN output.fields} \ {"ok"}
             First(inItem) == IF Failed(inItem) = {} THEN "ok"
                              ELSE CHOOSE c \in Failed(inItem) : TRUE
             root == On(page, output.root, FALSE, FALSE)
             items == On(page, output.item, TRUE, TRUE)
             Codes == TargetErrors \cup {"ok", "POSTCONDITION_FAILED"}
  <1>1. ASSUME output.mode # "none", NEW inItem PROVE First(inItem) \in Codes
    <2>1. Failed(inItem) \subseteq Codes
      BY <1>1, FieldCodes DEF OutputSound
    <2> HIDE DEF Failed, Codes
    <2>2. "ok" \in Codes
      BY DEF Codes
    <2> QED BY <2>1, <2>2
  <1>2. ASSUME output.mode = "collection" PROVE root.code \in Codes /\ items.code \in Codes
    <2>1. /\ Resolvable(output.root) /\ output.root # NoTarget
          /\ Resolvable(output.item) /\ output.item # NoTarget
      BY <1>2 DEF OutputSound
    <2>2. root.code \in TargetErrors \cup {"ok"}
      BY <2>1, OnCode
    <2>3. items.code \in TargetErrors \cup {"ok"}
      BY <2>1, OnCode
    <2> HIDE DEF root, items
    <2> QED BY <2>2, <2>3
  <1>3. ExtractCode(output, page) =
          CASE output.mode = "none" -> "ok"
            [] output.mode = "page" -> First(FALSE)
            [] output.mode = "collection" /\ root.code # "ok" -> root.code
            [] OTHER -> IF items.count = 0 THEN items.code ELSE First(TRUE)
    BY DEF ExtractCode
  <1>4. output.mode \in {"none", "page", "collection"} /\ "ok" \in Codes
    BY DEF OutputSound
  <1> HIDE DEF First, root, items
  <1> QED BY <1>1, <1>2, <1>3, <1>4

LEMMA OperatedCode ==
  ASSUME NEW plan, PlanSound(plan), NEW i \in DOMAIN plan.steps, NEW args, NEW page
  PROVE  LET o == Operated(plan, i, args, page)
             step == plan.steps[i]
         IN  /\ o.index \in Nat
             /\ \/ o.code \in TargetErrors \cup {"ok", "POSTCONDITION_FAILED"}
                \/ /\ o.code = "INVALID_ARGUMENTS"
                   /\ step.op = "fill" /\ step.value \notin args
  <1> DEFINE o == Operated(plan, i, args, page)
             step == plan.steps[i]
             r == On(page, step.target, FALSE, FALSE)
             x == ExtractCode(plan.output, page)
  <1>1. /\ step.op = "wait" => o = Found(0, 0)
        /\ step.op = "extract" => o = IF x = "ok" THEN Found(0, 0) ELSE Error(x)
    BY DEF Operated
  <1>2. step.op = "press" => step.key # "other"
    BY DEF PlanSound, StepSound
  <1>3. ASSUME step.op \in Interactive
        PROVE  \/ o = r
               \/ step.op = "fill" /\ step.value \notin args /\ o = Error("INVALID_ARGUMENTS")
    <2>1. o = CASE r.code # "ok" -> r
                [] step.op = "fill" /\ r.code = "ok" /\ step.value \notin args ->
                     Error("INVALID_ARGUMENTS")
                [] step.op = "press" /\ r.code = "ok" /\ step.key = "other" -> Error("INTERNAL_ERROR")
                [] OTHER -> r
      BY <1>3 DEF Operated, Interactive
    <2> HIDE DEF o, r, step
    <2> QED BY <1>2, <2>1
  <1>4. step.op \in Interactive => r.code \in TargetErrors \cup {"ok"} /\ r.index \in Nat
    BY OnCode DEF PlanSound, StepSound
  <1>5. x \in TargetErrors \cup {"ok", "POSTCONDITION_FAILED"}
    BY ExtractCodes DEF PlanSound
  <1>6. step.op \in Interactive \/ step.op \in {"wait", "extract"}
    BY DEF PlanSound, StepSound, Interactive
  <1>7. /\ Found(0, 0).code = "ok" /\ Found(0, 0).index = 0
        /\ \A c : Error(c).code = c /\ Error(c).index = 0
    BY DEF Found, Error
  <1> SUFFICES /\ o.index \in Nat
               /\ \/ o.code \in TargetErrors \cup {"ok", "POSTCONDITION_FAILED"}
                  \/ /\ o.code = "INVALID_ARGUMENTS"
                     /\ step.op = "fill" /\ step.value \notin args
    OBVIOUS
  <1> HIDE DEF o, r, x, step
  <1> QED BY <1>1, <1>3, <1>4, <1>5, <1>6, <1>7

LEMMA EvaluatedCodes ==
  ASSUME NEW states, DOMAIN states \subseteq Nat, NEW plan, NEW step, StepSound(step, plan),
         NEW args, NEW page,
         NEW code \in Evaluated(step.expect, states, step, args, page).codes
  PROVE  code # "ok" /\ \E c \in step.expect : Faulted(code, c, states, step, args)
  <1> DEFINE verdicts == {Condition(c, states, step, args, page) : c \in step.expect}
             errors == {v.code : v \in verdicts} \ {"ok"}
  <1>1. Evaluated(step.expect, states, step, args, page).codes \subseteq errors
    BY DEF Evaluated
  <1>2. PICK c \in step.expect : code = Condition(c, states, step, args, page).code /\ code # "ok"
    BY <1>1
  <1> QED BY <1>2, ConditionCode

\* What may be wrong when a step fails with such a code.
Tolerated(code, step, states, args) ==
  /\ code = "INTERNAL_ERROR" =>
       Unreadable(states) \/ \E c \in step.expect : c.kind = "url" /\ ~InJs(c.pattern)
  /\ code = "INVALID_ARGUMENTS" => step.op = "fill" /\ step.value \notin args

LEMMA ResultSound ==
  ASSUME NEW plan, PlanSound(plan), NEW i \in DOMAIN plan.steps,
         NEW states, DOMAIN states \subseteq Nat, NEW args, NEW p, NEW q,
         NEW result \in StepResults(plan, states, i, args, p, q)
  PROVE  result.index \in Nat /\ Tolerated(result.code, plan.steps[i], states, args)
  <1> DEFINE step == plan.steps[i]
             before == Detected(states, p)
             operated == Operated(plan, i, args, p)
             after == Evaluated(step.expect, states, step, args, q)
             effect == Detected(states, q)
  <1>1. \/ \E code \in Interrupted(step) : result = Error(code)
        \/ result = Error("NAVIGATION_OUT_OF_SCOPE")
        \/ before.code # "ok" /\ result = Error(before.code)
        \/ result = operated
        \/ \E code \in after.codes : result = Error(code)
        \/ effect.code # "ok" /\ result = Error(effect.code)
    <2> DEFINE errors == {Error(code) : code \in after.codes}
    <2>1. \/ result \in {Error(code) : code \in Interrupted(step)}
          \/ result \in CASE ~p.allowed -> {Error("NAVIGATION_OUT_OF_SCOPE")}
               [] p.allowed /\ before.code # "ok" -> {Error(before.code)}
               [] p.allowed /\ before.code = "ok" /\ operated.code # "ok" -> {operated}
               [] p.allowed /\ before.code = "ok" /\ operated.code = "ok" ->
                    IF after.codes # {} THEN errors
                    ELSE IF ~q.allowed THEN {Error("NAVIGATION_OUT_OF_SCOPE")}
                    ELSE IF ~after.holds THEN {}
                    ELSE IF effect.code # "ok" THEN {Error(effect.code)}
                    ELSE {operated}
      BY DEF StepResults
    <2>2. \A x \in errors : \E code \in after.codes : x = Error(code)
      OBVIOUS
    <2>3. p.allowed \/ ~p.allowed
      OBVIOUS
    <2> HIDE DEF step, before, operated, after, effect, errors
    <2> QED BY <2>1, <2>2, <2>3
  <1>2. StepSound(step, plan)
    BY DEF PlanSound
  <1>3. \A code : Error(code).code = code /\ Error(code).index = 0
    BY DEF Error
  <1>4. \A code \in Interrupted(step) : code \notin {"INTERNAL_ERROR", "INVALID_ARGUMENTS"}
    BY DEF Interrupted
  <1>5. /\ before.code # "ok" => before.code = "INTERNAL_ERROR" /\ Unreadable(states)
        /\ effect.code # "ok" => effect.code = "INTERNAL_ERROR" /\ Unreadable(states)
    BY DetectedCode
  <1>6. \A code \in after.codes : Tolerated(code, step, states, args)
    <2> TAKE code \in after.codes
    <2>1. PICK c \in step.expect : code # "ok" /\ Faulted(code, c, states, step, args)
      BY <1>2, EvaluatedCodes
    <2> HIDE DEF step
    <2> QED BY <2>1 DEF Tolerated, Faulted, TargetErrors
  <1>7. operated.index \in Nat /\ Tolerated(operated.code, step, states, args)
    <2>1. /\ operated.index \in Nat
          /\ \/ operated.code \in TargetErrors \cup {"ok", "POSTCONDITION_FAILED"}
             \/ /\ operated.code = "INVALID_ARGUMENTS"
                /\ step.op = "fill" /\ step.value \notin args
      BY OperatedCode
    <2> HIDE DEF operated, step
    <2> QED BY <2>1 DEF Tolerated, TargetErrors
  <1> SUFFICES result.index \in Nat /\ Tolerated(result.code, step, states, args)
    OBVIOUS
  <1> HIDE DEF step, before, operated, after, effect
  <1> QED BY <1>1, <1>3, <1>4, <1>5, <1>6, <1>7 DEF Tolerated

-------------------------------------------------------------------------------
(* What the report of a run makes of an action *)

\* The run r knows a plan whose targets can be turned into locators again.
HasPlan(r) == PlanSound(Plan(runs[r]))

Better(action, r) ==
  IF runs[r].status = "completed" THEN Repaired(action, runs[r]) ELSE action

LEMMA LocatorBack ==
  ASSUME NEW el \in Elements \cup {NoElement}, NEW kind \in StrategyKinds
  PROVE  AsLocator(el, kind) \in Locator /\ AsLocator(el, kind).el = el
  BY DEF AsLocator, StrategyKinds, Locator

\* The step describes its element in another way, if any, and is the same otherwise.
Redescribed(new, old) ==
  new = old \/ \E l \in Locator : l.el = old.target.el /\ new = [old EXCEPT !.target = l]

LEMMA RepairedStep ==
  ASSUME NEW r, HasPlan(r), NEW action, Decoded(action), NEW i \in DOMAIN action.steps
  PROVE  Redescribed(Repaired(action, runs[r]).steps[i], action.steps[i])
  <1> DEFINE old == action.steps[i]
             new == Repaired(action, runs[r]).steps[i]
             planned == Plan(runs[r]).steps
             used == runs[r].used
             l == AsLocator(planned[i].target.el, planned[i].target.strategies[used[i]])
  <1>1. new = IF i \in DOMAIN planned /\ Repairs(old, planned[i], used[i])
              THEN [old EXCEPT !.target = l] ELSE old
    BY DEF Repaired, Decoded
  <1>2. ASSUME i \in DOMAIN planned, Repairs(old, planned[i], used[i])
        PROVE  l \in Locator /\ l.el = old.target.el
    <2> DEFINE t == planned[i].target
    <2>1. t.strategies \in Seq(StrategyKinds)
      BY <1>2 DEF HasPlan, PlanSound, StepSound, Resolvable
    <2>2. PICK j \in DOMAIN t.strategies : old.target = AsLocator(t.el, t.strategies[j])
      BY <1>2 DEF Repairs
    <2>3. used[i] \in DOMAIN t.strategies
      BY <1>2, <2>1 DEF Repairs
    <2>4. t.strategies[j] \in StrategyKinds /\ t.strategies[used[i]] \in StrategyKinds
      BY <2>1, <2>2, <2>3
    <2>5. old.target \in Locator
      <3>1. old \in MapStep
        BY DEF Decoded
      <3> HIDE DEF old
      <3> QED BY <3>1 DEF MapStep
    <2> HIDE DEF t, old
    <2>6. old.target.el = t.el
      BY <2>2 DEF AsLocator
    <2>7. t.el \in Elements \cup {NoElement}
      BY <2>5, <2>6 DEF Locator
    <2> QED BY <2>4, <2>6, <2>7, LocatorBack DEF t
  <1> HIDE DEF old, new, l, planned
  <1>3. Redescribed(new, old)
    BY <1>1, <1>2 DEF Redescribed
  <1> QED BY <1>3 DEF old, new

LEMMA FedBackParts ==
  ASSUME NEW r, NEW action, Decoded(action), NEW counts
  PROVE  LET new == FedBack(action, r, counts)
         IN  /\ DOMAIN new = DOMAIN action
             /\ \A k \in DOMAIN action \ {"status", "steps", "evidence"} : new[k] = action[k]
             /\ new.steps = Better(action, r).steps
             /\ new.evidence = action.evidence \cup {RunToken(r)}
  <1> DEFINE better == Better(action, r)
             new == FedBack(action, r, counts)
  <1>1. /\ DOMAIN better = DOMAIN action
        /\ \A k \in DOMAIN action \ {"steps"} : better[k] = action[k]
    BY DEF Better, Repaired
  <1>2. \E status : new = [better EXCEPT !.status = status, !.evidence = @ \cup {RunToken(r)}]
    BY DEF FedBack, Better
  <1>3. {"status", "steps", "evidence"} \subseteq DOMAIN action
    BY DEF Decoded
  <1> HIDE DEF better, new
  <1>4. /\ DOMAIN new = DOMAIN action
        /\ \A k \in DOMAIN action \ {"status", "evidence"} : new[k] = better[k]
        /\ new.evidence = better.evidence \cup {RunToken(r)}
    BY <1>1, <1>2, <1>3
  <1> QED BY <1>1, <1>3, <1>4 DEF better, new

LEMMA BetterSteps ==
  ASSUME NEW r, HasPlan(r), NEW action, Decoded(action)
  PROVE  /\ Better(action, r).steps \in Seq(MapStep)
         /\ DOMAIN Better(action, r).steps = DOMAIN action.steps
         /\ \A i \in DOMAIN action.steps : Redescribed(Better(action, r).steps[i], action.steps[i])
  <1>1. action.steps \in Seq(MapStep) /\ "steps" \in DOMAIN action
    BY DEF Decoded
  <1>2. CASE runs[r].status # "completed"
    BY <1>1, <1>2 DEF Better, Redescribed
  <1>3. CASE runs[r].status = "completed"
    <2> DEFINE new == Repaired(action, runs[r]).steps
    <2>1. Better(action, r).steps = new
      BY <1>3 DEF Better
    <2>2. DOMAIN new = DOMAIN action.steps /\ new = [i \in DOMAIN action.steps |-> new[i]]
      BY <1>1 DEF Repaired
    <2>3. \A i \in DOMAIN action.steps : Redescribed(new[i], action.steps[i])
      BY RepairedStep
    <2> HIDE DEF new
    <2>4. \A i \in DOMAIN action.steps : new[i] \in MapStep
      <3> TAKE i \in DOMAIN action.steps
      <3>1. action.steps[i] \in MapStep
        BY <1>1
      <3>2. \A l \in Locator : [action.steps[i] EXCEPT !.target = l] \in MapStep
        BY <3>1 DEF MapStep
      <3> QED BY <2>3, <3>1, <3>2 DEF Redescribed
    <2>5. [i \in DOMAIN action.steps |-> new[i]] \in Seq(MapStep)
      BY <1>1, <2>4
    <2> QED BY <2>1, <2>2, <2>3, <2>5
  <1> QED BY <1>2, <1>3

LEMMA FedBackDecoded ==
  ASSUME NEW r, HasPlan(r), NEW action, Decoded(action), NEW counts
  PROVE  Decoded(FedBack(action, r, counts))
  <1> DEFINE new == FedBack(action, r, counts)
  <1>1. DOMAIN new = DOMAIN action
    BY FedBackParts
  <1>2. new.params = action.params /\ new.output = action.output
    <2>1. \A k \in DOMAIN action \ {"status", "steps", "evidence"} : new[k] = action[k]
      BY FedBackParts
    <2>2. {"params", "output"} \subseteq DOMAIN action \ {"status", "steps", "evidence"}
      BY DEF Decoded
    <2> HIDE DEF new
    <2> QED BY <2>1, <2>2
  <1>3. new.steps \in Seq(MapStep)
    BY FedBackParts, BetterSteps
  <1> HIDE DEF new
  <1> QED BY <1>1, <1>2, <1>3 DEF Decoded, new

\* Neither the repair nor the bookkeeping of a report changes what an action does.
LEMMA FedBackMeaning ==
  ASSUME NEW r, HasPlan(r), NEW action, Decoded(action), NEW counts
  PROVE  Meaning(FedBack(action, r, counts)) = Meaning(action)
  <1> DEFINE new == FedBack(action, r, counts)
  <1>1. /\ DOMAIN new = DOMAIN action
        /\ \A k \in DOMAIN action \ {"status", "steps", "evidence"} : new[k] = action[k]
        /\ DOMAIN new.steps = DOMAIN action.steps
    BY FedBackParts, BetterSteps
  <1>2. \A i \in DOMAIN action.steps : Redescribed(new.steps[i], action.steps[i])
    <2>1. new.steps = Better(action, r).steps
      BY FedBackParts
    <2> QED BY <2>1, BetterSteps
  <1>3. \A x : Meaning(x) = [x EXCEPT !.status = "observed", !.evidence = {}, !.steps = Bare(x.steps)]
    BY DEF Meaning
  <1> HIDE DEF new
  <1>4. \A i \in DOMAIN action.steps :
          [new.steps[i] EXCEPT !.target = @.el] = [action.steps[i] EXCEPT !.target = @.el]
    <2> TAKE i \in DOMAIN action.steps
    <2> DEFINE old == action.steps[i]
    <2>1. old \in MapStep
      BY DEF Decoded
    <2> HIDE DEF old
    <2>2. \A l \in Locator : l.el = old.target.el =>
            [[old EXCEPT !.target = l] EXCEPT !.target = @.el] = [old EXCEPT !.target = @.el]
      BY <2>1 DEF MapStep
    <2> QED BY <1>2, <2>2 DEF old, Redescribed
  <1>5. Bare(new.steps) = Bare(action.steps)
    BY <1>1, <1>4 DEF Bare
  <1> QED BY <1>1, <1>3, <1>5 DEF new

-------------------------------------------------------------------------------
(* The runs of the lists *)

\* What a failed run's code says of the list it executes, or of its arguments.
KnownDefect(run) ==
  /\ run.code = "INTERNAL_ERROR" =>
       \/ Unreadable(run.from.list.states)
       \/ \E step \in Range(Plan(run).steps) : \E c \in step.expect :
            c.kind = "url" /\ ~InJs(c.pattern)
  /\ run.code = "INVALID_ARGUMENTS" =>
       LET step == Plan(run).steps[Len(run.used) + 1]
       IN  /\ step.op = "fill" /\ step.value \notin run.args
           /\ ~Plan(run).params[step.value]

\* A run has a list that was stored, an action of it, and the arguments the action requires.
RunOK(run) ==
  /\ DOMAIN run = {"status", "from", "action", "args", "used", "code"}
  /\ Listed(run.from.list)
  /\ run.action \in DOMAIN run.from.list.actions
  /\ Required(Plan(run)) \subseteq run.args
  /\ run.used \in Seq(Nat)
  /\ run.status \in {"running", "completed", "failed", "cancelled"}
  /\ run.status = "running" => Len(run.used) < Len(Plan(run).steps)
  /\ run.status = "failed" => KnownDefect(run)

ListsInv ==
  /\ candidate # NoList => Listed(candidate.list)
  /\ published # NoList => Listed(published.list)
Reported == [status |-> "observed"]
RunsInv ==
  /\ DOMAIN runs = Runs
  /\ \A r \in Runs : runs[r] \in {Idle, Reported} \/ RunOK(runs[r])

LoopInv == HeadInv /\ ListsInv /\ RunsInv

LEMMA RunPlan ==
  ASSUME NEW run, RunOK(run)
  PROVE  PlanSound(Plan(run)) /\ DOMAIN run.from.list.states \subseteq Nat
  BY ListedPlan DEF RunOK, Plan

LEMMA Active ==
  ASSUME RunsInv, NEW r \in Runs, runs[r].status \notin {"idle", "observed"}
  PROVE  RunOK(runs[r])
  BY DEF RunsInv, Idle, Reported

LEMMA ProjectedListed ==
  ASSUME ListsInv, HeadInv', NEW rev, candidate' = Projected(rev, head'.map),
         published' = published
  PROVE  ListsInv'
  <1>1. CASE Projectable(head'.map)
    <2>1. candidate'.list = Projection(head'.map)
      BY <1>1 DEF Projected
    <2>2. Listed(candidate'.list)
      BY <1>1, <2>1 DEF Listed, HeadInv
    <2> QED BY <2>2 DEF ListsInv
  <1>2. CASE ~Projectable(head'.map)
    BY <1>2 DEF Projected, ListsInv
  <1> QED BY <1>1, <1>2

LEMMA StartRuns ==
  ASSUME LoopInv, NEW r \in Runs, Start(r)
  PROVE  RunsInv'
  <1>1. PICK a \in DOMAIN published.list.actions, page \in Pages :
          \E args \in SUBSET DOMAIN published.list.actions[a].params :
            /\ Required(published.list.actions[a]) \subseteq args
            /\ LET code == EntryCode(published.list, published.list.actions[a], page)
               IN  runs' = [runs EXCEPT ![r] =
                              [status |-> IF code = "ok" THEN "running" ELSE "failed",
                               from |-> published, action |-> a, args |-> args, used |-> <<>>,
                               code |-> code]]
    BY DEF Start
  <1> DEFINE code == EntryCode(published.list, published.list.actions[a], page)
             status == IF code = "ok" THEN "running" ELSE "failed"
  <1>2. PICK args : /\ Required(published.list.actions[a]) \subseteq args
                    /\ runs' = [runs EXCEPT ![r] =
                         [status |-> status, from |-> published, action |-> a, args |-> args,
                          used |-> <<>>, code |-> code]]
    BY <1>1
  <1> DEFINE run == [status |-> status, from |-> published, action |-> a, args |-> args,
                     used |-> <<>>, code |-> code]
  <1>3. /\ runs' = [runs EXCEPT ![r] = run]
        /\ DOMAIN run = {"status", "from", "action", "args", "used", "code"}
        /\ run.from = published /\ run.action = a /\ run.args = args /\ run.used = <<>>
        /\ run.status = status /\ run.code = code
    BY <1>2
  <1>4. code \in {"ok", "NAVIGATION_OUT_OF_SCOPE", "TIMEOUT", "PRECONDITION_FAILED"}
    BY DEF EntryCode
  <1>5. Listed(published.list)
    BY DEF LoopInv, ListsInv, Start
  <1>6. status \in {"running", "failed"}
    OBVIOUS
  <1> HIDE DEF run, code, status
  <1>7. PlanSound(Plan(run)) /\ Plan(run) = published.list.actions[a]
    BY <1>3, <1>5, ListedPlan DEF Plan
  <1>8. RunOK(run)
    <2>1. Len(run.used) < Len(Plan(run).steps) /\ run.used \in Seq(Nat)
      BY <1>3, <1>7 DEF PlanSound
    <2>2. KnownDefect(run)
      BY <1>3, <1>4 DEF KnownDefect
    <2>3. Required(Plan(run)) \subseteq run.args
      BY <1>2, <1>3, <1>7
    <2> QED BY <1>3, <1>5, <1>6, <2>1, <2>2, <2>3 DEF RunOK
  <1> QED BY <1>3, <1>8 DEF LoopInv, RunsInv

LEMMA StepResult ==
  ASSUME NEW run, RunOK(run), run.status = "running", NEW result \in Results(run)
  PROVE  LET i == Len(run.used) + 1
         IN  /\ i \in DOMAIN Plan(run).steps
             /\ result.index \in Nat
             /\ Tolerated(result.code, Plan(run).steps[i], run.from.list.states, run.args)
  <1> DEFINE i == Len(run.used) + 1
             step == Plan(run).steps[i]
  <1>1. i \in DOMAIN Plan(run).steps
    BY RunPlan DEF RunOK, PlanSound
  <1>2. CASE result = Found(0, 0)
    BY <1>1, <1>2 DEF Found, Tolerated
  <1>3. CASE result # Found(0, 0)
    <2>1. PICK p \in Pages, q \in Pages :
            result \in StepResults(Plan(run), run.from.list.states, i, run.args, p, q)
      BY <1>3 DEF Results
    <2> QED BY <1>1, <2>1, RunPlan, ResultSound
  <1> QED BY <1>2, <1>3

LEMMA StepRuns ==
  ASSUME LoopInv, NEW r \in Runs, Step(r)
  PROVE  RunsInv'
  <1> DEFINE run == runs[r]
             i == Len(run.used) + 1
             step == Plan(run).steps[i]
  <1>1. RunOK(run) /\ run.status = "running"
    BY Active DEF LoopInv, Step
  <1>2. PICK result \in Results(run) :
          IF result.code = "ok"
          THEN LET used == Append(run.used, result.index)
                   last == Len(used) = Len(Plan(run).steps)
               IN  runs' = [runs EXCEPT ![r].used = used,
                                        ![r].status = IF last THEN "completed" ELSE "running"]
          ELSE runs' = [runs EXCEPT ![r].code = result.code,
                                    ![r].status = IF result.code = "CANCELLED"
                                                  THEN "cancelled" ELSE "failed"]
    BY DEF Step
  <1>3. /\ i \in DOMAIN Plan(run).steps
        /\ result.index \in Nat
        /\ Tolerated(result.code, step, run.from.list.states, run.args)
    BY <1>1, StepResult
  <1>4. DOMAIN runs = Runs
    BY DEF LoopInv, RunsInv
  <1>5. PICK n \in Nat : DOMAIN Plan(run).steps = 1 .. n /\ Len(Plan(run).steps) = n
    BY <1>1, RunPlan DEF PlanSound
  <1>6. /\ DOMAIN runs' = Runs
        /\ \A s \in Runs \ {r} : runs'[s] = runs[s]
    BY <1>2, <1>4
  <1>7. CASE result.code = "ok"
    <2> DEFINE new == runs'[r]
    <2>1. new = [run EXCEPT !.used = Append(run.used, result.index),
                            !.status = IF Len(Append(run.used, result.index)) = Len(Plan(run).steps)
                                       THEN "completed" ELSE "running"]
      BY <1>2, <1>4, <1>7
    <2> HIDE DEF new, run
    <2>2. /\ DOMAIN new = DOMAIN run
          /\ \A k \in DOMAIN run \ {"used", "status"} : new[k] = run[k]
          /\ new.used = Append(run.used, result.index)
          /\ new.status = IF Len(new.used) = Len(Plan(run).steps) THEN "completed" ELSE "running"
      BY <1>1, <2>1 DEF RunOK
    <2>3. new.from = run.from /\ new.action = run.action /\ new.args = run.args
      BY <1>1, <2>2 DEF RunOK
    <2>4. new.used \in Seq(Nat) /\ Len(new.used) = Len(run.used) + 1
      BY <1>1, <1>3, <2>2 DEF RunOK
    <2>5. Plan(new) = Plan(run)
      BY <2>3 DEF Plan
    <2>6. Len(new.used) <= n
      BY <1>3, <1>5, <2>4
    <2>7. RunOK(new)
      BY <1>1, <1>5, <2>2, <2>3, <2>4, <2>5, <2>6 DEF RunOK
    <2> QED BY <1>6, <2>7 DEF LoopInv, RunsInv, new
  <1>8. CASE result.code # "ok"
    <2> DEFINE new == runs'[r]
    <2>1. new = [run EXCEPT !.code = result.code,
                            !.status = IF result.code = "CANCELLED" THEN "cancelled" ELSE "failed"]
      BY <1>2, <1>4, <1>8
    <2> HIDE DEF new, run
    <2>2. /\ DOMAIN new = DOMAIN run
          /\ \A k \in DOMAIN run \ {"code", "status"} : new[k] = run[k]
          /\ new.code = result.code
          /\ new.status \in {"cancelled", "failed"}
      BY <1>1, <2>1 DEF RunOK
    <2>3. /\ new.from = run.from /\ new.action = run.action
          /\ new.args = run.args /\ new.used = run.used
      BY <1>1, <2>2 DEF RunOK
    <2>4. Plan(new) = Plan(run)
      BY <2>3 DEF Plan
    <2>5. KnownDefect(new)
      <3> DEFINE plan == Plan(run)
      <3>1. step \in Range(plan.steps)
        BY <1>3 DEF Range
      <3>2. ASSUME step.op = "fill", step.value \notin run.args PROVE ~plan.params[step.value]
        <4>1. StepSound(step, plan)
          BY <1>1, <1>3, RunPlan DEF PlanSound
        <4>2. step.value \in DOMAIN plan.params
          BY <3>2, <4>1 DEF StepSound
        <4> QED BY <1>1, <3>2, <4>2 DEF RunOK, Required
      <3> HIDE DEF step, plan
      <3>3. /\ result.code = "INTERNAL_ERROR" =>
                 \/ Unreadable(run.from.list.states)
                 \/ \E x \in Range(plan.steps) : \E c \in x.expect : c.kind = "url" /\ ~InJs(c.pattern)
            /\ result.code = "INVALID_ARGUMENTS" =>
                 step.op = "fill" /\ step.value \notin run.args /\ ~plan.params[step.value]
        BY <1>3, <3>1, <3>2 DEF Tolerated
      <3> QED BY <2>2, <2>3, <2>4, <3>3 DEF KnownDefect, step, plan
    <2>6. RunOK(new)
      BY <1>1, <2>2, <2>3, <2>4, <2>5 DEF RunOK
    <2> QED BY <1>6, <2>6 DEF LoopInv, RunsInv, new
  <1> QED BY <1>7, <1>8

-------------------------------------------------------------------------------
(* The report of a run, in the head *)

FedBackHead(r) ==
  \E counts :
    LET a   == runs[r].action
        map == [head.map EXCEPT !.actions[a] = FedBack(@, r, counts)]
    IN  /\ MapValid(map)
        /\ head' = [rev |-> head.rev + 1, map |-> map,
                    meta |-> [head.meta EXCEPT
                       !.actions[a].provenance =
                          IF runs[r].status = "completed" THEN "verified" ELSE @,
                       !.actions[a].handles = @ \cup {r},
                       !.evidence = @ \cup {[layer |-> r, id |-> r, source |-> "verification"]}]]

LEMMA FeedbackMap ==
  ASSUME HeadInv, NEW r, FedBackHead(r)
  PROVE  /\ head'.rev = head.rev + 1 /\ MapValid(head'.map)
         /\ DOMAIN head'.map = DOMAIN head.map /\ head'.map.states = head.map.states
         /\ DOMAIN head'.map.actions = DOMAIN head.map.actions
         /\ \A a \in DOMAIN head.map.actions :
              \/ head'.map.actions[a] = head.map.actions[a]
              \/ \E counts : head'.map.actions[a] = FedBack(head.map.actions[a], r, counts)
  <1>1. PICK counts :
          LET map == [head.map EXCEPT !.actions[runs[r].action] = FedBack(@, r, counts)]
          IN  MapValid(map) /\ head'.rev = head.rev + 1 /\ head'.map = map
    BY DEF FedBackHead
  <1> DEFINE a == runs[r].action
             old == head.map
             new == head'.map
             entry == FedBack(old.actions[a], r, counts)
  <1>2. new = [old EXCEPT !.actions = [old.actions EXCEPT ![a] = entry]]
    BY <1>1
  <1>3. {"states", "actions"} \subseteq DOMAIN old
    BY DEF HeadInv, HeadShape
  <1> HIDE DEF entry, old, new
  <1>4. /\ DOMAIN new = DOMAIN old /\ new.states = old.states
        /\ new.actions = [old.actions EXCEPT ![a] = entry]
    BY <1>2, <1>3
  <1>5. /\ DOMAIN new.actions = DOMAIN old.actions
        /\ \A b \in DOMAIN old.actions : new.actions[b] = old.actions[b] \/ (b = a /\ new.actions[b] = entry)
    BY <1>4
  <1> QED BY <1>1, <1>4, <1>5 DEF entry, old, new

LEMMA FeedbackMeta ==
  ASSUME HeadInv, NEW r, FedBackHead(r)
  PROVE  /\ DOMAIN head'.meta = DOMAIN head.meta /\ head'.meta.states = head.meta.states
         /\ head'.meta.evidence = head.meta.evidence
                                    \cup {[layer |-> r, id |-> r, source |-> "verification"]}
         /\ DOMAIN head'.meta.actions = DOMAIN head.meta.actions
         /\ \A a \in DOMAIN head.meta.actions :
              /\ DOMAIN head'.meta.actions[a] = DOMAIN head.meta.actions[a]
              /\ head'.meta.actions[a].provenance \in {head.meta.actions[a].provenance, "verified"}
              /\ head'.meta.actions[a].handles \in {head.meta.actions[a].handles,
                                                    head.meta.actions[a].handles \cup {r}}
  <1> DEFINE a == runs[r].action
             old == head.meta
             new == head'.meta
             record == [layer |-> r, id |-> r, source |-> "verification"]
  <1>1. head'.meta = [head.meta EXCEPT
                       !.actions[a].provenance =
                          IF runs[r].status = "completed" THEN "verified" ELSE @,
                       !.actions[a].handles = @ \cup {r},
                       !.evidence = @ \cup {record}]
    BY DEF FedBackHead
  <1>2. {"states", "actions", "evidence"} \subseteq DOMAIN old
    BY DEF HeadInv, HeadShape
  <1>3. \A b \in DOMAIN old.actions : {"provenance", "handles"} \subseteq DOMAIN old.actions[b]
    BY DEF HeadInv, HeadShape
  <1> DEFINE entry == [old.actions[a] EXCEPT
                         !.provenance = IF runs[r].status = "completed" THEN "verified" ELSE @,
                         !.handles = @ \cup {r}]
  <1>4. a \in DOMAIN old.actions =>
          /\ DOMAIN entry = DOMAIN old.actions[a]
          /\ entry.provenance \in {old.actions[a].provenance, "verified"}
          /\ entry.handles = old.actions[a].handles \cup {r}
    BY <1>3
  <1> DEFINE told == IF runs[r].status = "completed" THEN "verified"
                     ELSE old.actions[a].provenance
             first == [old.actions EXCEPT ![a].provenance = told]
             second == [first EXCEPT ![a].handles = old.actions[a].handles \cup {r}]
  <1>5. a \in DOMAIN old.actions => second[a] = entry
    BY <1>3
  <1>6. /\ DOMAIN second = DOMAIN old.actions
        /\ \A b \in DOMAIN old.actions \ {a} : second[b] = old.actions[b]
    OBVIOUS
  <1>7. /\ DOMAIN new = DOMAIN old /\ new.states = old.states
        /\ new.evidence = old.evidence \cup {record}
        /\ new.actions = second
    <2>1. new = [old EXCEPT !.actions = second, !.evidence = old.evidence \cup {record}]
      BY <1>1, <1>2
    <2> HIDE DEF old, new, second, first, record
    <2> QED BY <1>2, <2>1
  <1> HIDE DEF entry, old, new, record, second
  <1>8. \A b \in DOMAIN old.actions :
          /\ DOMAIN new.actions[b] = DOMAIN old.actions[b]
          /\ new.actions[b].provenance \in {old.actions[b].provenance, "verified"}
          /\ new.actions[b].handles \in {old.actions[b].handles, old.actions[b].handles \cup {r}}
    BY <1>4, <1>5, <1>6, <1>7
  <1> QED BY <1>6, <1>7, <1>8 DEF old, new, record

LEMMA FeedbackHead ==
  ASSUME HeadInv, NEW r, HasPlan(r), FedBackHead(r)
  PROVE  HeadInv'
  <1> DEFINE evidence == head'.meta.evidence
  <1>1. HeadShape' /\ HeadDomains'
    BY FeedbackMap, FeedbackMeta DEF HeadInv, HeadShape, HeadDomains
  <1>2. /\ head.meta.evidence \subseteq evidence
        /\ \E e \in evidence : e.id = r
    <2> DEFINE record == [layer |-> r, id |-> r, source |-> "verification"]
    <2>1. evidence = head.meta.evidence \cup {record}
      BY FeedbackMeta
    <2>2. record.id = r
      OBVIOUS
    <2> HIDE DEF evidence, record
    <2> QED BY <2>1, <2>2
  <1> HIDE DEF evidence
  <1>3. Backed(head'.meta.states, evidence)
    BY <1>2, FeedbackMeta DEF HeadInv, HeadBacked, Backed
  <1>4. Backed(head'.meta.actions, evidence)
    <2> SUFFICES ASSUME NEW a \in DOMAIN head'.meta.actions
                 PROVE  /\ head'.meta.actions[a].handles # {}
                        /\ \A handle \in head'.meta.actions[a].handles :
                             \E e \in evidence : e.id = handle
      BY DEF Backed
    <2>1. /\ head.meta.actions[a].handles # {}
          /\ \A handle \in head.meta.actions[a].handles : \E e \in evidence : e.id = handle
      BY <1>2, FeedbackMeta DEF HeadInv, HeadBacked, Backed
    <2>2. head'.meta.actions[a].handles \in {head.meta.actions[a].handles,
                                             head.meta.actions[a].handles \cup {r}}
      BY FeedbackMeta
    <2> QED BY <1>2, <2>1, <2>2
  <1>5. \A a \in DOMAIN head'.map.actions : Decoded(head'.map.actions[a])
    BY FeedbackMap, FedBackDecoded DEF HeadInv
  <1> QED BY <1>1, <1>3, <1>4, <1>5, FeedbackMap DEF HeadInv, HeadBacked, evidence

\* What a report needs of the state it is applied to.
LEMMA FeedbackApplies ==
  ASSUME LoopInv, NEW r \in Runs, Feedback(r)
  PROVE  HasPlan(r) /\ FedBackHead(r) /\ RunsInv'
  <1>1. runs[r].status \in {"completed", "failed"}
    BY DEF Feedback
  <1>2. HasPlan(r)
    BY <1>1, Active, RunPlan DEF HasPlan, LoopInv
  <1>3. FedBackHead(r)
    BY DEF Feedback, FedBackHead
  <1>4. RunsInv'
    BY DEF Feedback, LoopInv, RunsInv, Reported
  <1> QED BY <1>2, <1>3, <1>4

-------------------------------------------------------------------------------
(* The invariant *)

LEMMA LoopInit == Init => LoopInv
  BY HeadInit DEF Init, LoopInv, ListsInv, RunsInv

LEMMA LoopNext ==
  ASSUME LoopInv, [Next]_vars
  PROVE  LoopInv'
  <1>1. CASE Learn
    <2>1. PICK patch : Learned(patch) /\ candidate' = Projected(head.rev + 1, head'.map)
      BY <1>1 DEF Learn, Learned
    <2>2. HeadInv'
      BY <2>1, LearnedHead DEF LoopInv
    <2>3. ListsInv'
      BY <1>1, <2>1, <2>2, ProjectedListed DEF LoopInv, Learn
    <2> QED BY <1>1, <2>2, <2>3 DEF LoopInv, RunsInv, Learn
  <1>2. ASSUME NEW r \in Runs, Feedback(r) PROVE LoopInv'
    <2>1. HeadInv' /\ RunsInv'
      BY <1>2, FeedbackApplies, FeedbackHead DEF LoopInv
    <2>2. candidate' = Projected(head.rev + 1, head'.map) /\ published' = published
      BY <1>2 DEF Feedback
    <2>3. ListsInv'
      BY <2>1, <2>2, ProjectedListed DEF LoopInv
    <2> QED BY <2>1, <2>3 DEF LoopInv
  <1>3. CASE UNCHANGED head
    <2>1. HeadInv'
      BY <1>3 DEF LoopInv, HeadInv, HeadShape, HeadDomains, HeadBacked
    <2>2. CASE UNCHANGED <<candidate, published, runs>>
      BY <2>1, <2>2 DEF LoopInv, ListsInv, RunsInv
    <2>3. CASE Publish
      BY <2>1, <2>3 DEF LoopInv, ListsInv, RunsInv, Publish
    <2>4. ASSUME NEW r \in Runs, Start(r) \/ Step(r) PROVE LoopInv'
      <3>1. RunsInv'
        BY <2>4, StartRuns, StepRuns
      <3>2. UNCHANGED <<candidate, published>>
        BY <2>4 DEF Start, Step
      <3> QED BY <2>1, <3>1, <3>2 DEF LoopInv, ListsInv
    <2> QED BY <1>1, <1>2, <2>2, <2>3, <2>4 DEF Next, Skip, vars
  <1>4. Skip \/ Publish \/ (\E r \in Runs : Start(r) \/ Step(r)) \/ UNCHANGED vars => UNCHANGED head
    BY DEF Skip, Publish, Start, Step, vars
  <1> QED BY <1>1, <1>2, <1>3, <1>4 DEF Next

\* The invariant of the learning loop: a sound head, lists that were projected from a decoded
\* map, and runs that carry such a list (LearnedMap).
THEOREM LoopInvariant == Spec => []LoopInv
  <1> QED BY LoopInit, LoopNext, PTL DEF Spec

-------------------------------------------------------------------------------
(* The properties of the runs *)

\* After any sequence of accepted answers and reports, every entity of the head has evidence the
\* revision keeps, and the map is one Map.Validate takes (mergeEvidence, validateRevisionMetadata).
THEOREM HeadSound == Spec => []HeadIsSound
  <1>1. LoopInv => HeadIsSound
    BY DEF LoopInv, HeadInv, HeadDomains, HeadBacked, Backed, HeadIsSound
  <1> QED BY <1>1, LoopInvariant, PTL

\* A run that was started with a list of the gates ends with INTERNAL_ERROR or INVALID_ARGUMENTS
\* only for the two defects action-list/1 admits (executeStep, evaluateCondition, detectState).
THEOREM PlansExecutable == Spec => []OnlyKnownPlanDefects
  <1>1. LoopInv => OnlyKnownPlanDefects
    <2> SUFFICES ASSUME LoopInv, NEW r \in Runs, runs[r].status = "failed"
                 PROVE  KnownDefect(runs[r])
      BY DEF OnlyKnownPlanDefects, KnownDefect, Unreadable
    <2> QED BY Active DEF LoopInv, RunOK
  <1> QED BY <1>1, LoopInvariant, PTL

-------------------------------------------------------------------------------
(* The two gates *)

LEMMA GateAction ==
  ASSUME NEW patch, NEW req, NEW map, ParserAccepts(patch, req, map), ~LayerGapOnly(patch, req),
         NEW o \in Upserts(patch, "action")
  PROVE  StoreTakesAction(o, patch)
  <1> DEFINE action == o.action
  <1>1. /\ ParserTakesAction(o, req, map)
        /\ o.cites \subseteq patch.cites /\ Decoded(action)
    BY DEF ParserAccepts, Upserts
  <1>2. \A i \in DOMAIN action.steps :
          /\ ~action.steps[i].literal
          /\ action.steps[i].op = "extract" => i = Len(action.steps) /\ action.output.mode # "none"
    BY DEF LayerGapOnly
  <1>3. /\ action.steps # <<>> /\ action.status \in {"resolvable", "observed"}
        /\ o.bindings # {} /\ action.evidence = {Token(b) : b \in o.bindings}
        /\ StepsBound(o) /\ OutputBound(o)
        /\ \A b \in o.bindings : BindingTaken(b, o, req)
    BY <1>1 DEF ParserTakesAction
  <1>4. action.evidence # {}
    BY <1>3
  <1>5. ASSUME NEW b \in o.bindings
        PROVE  /\ b.step \in DOMAIN action.steps
               /\ b.role \in {"target", "effect"} => b.field = NoField
               /\ b.role = "output" => b.field \in FieldNames(action.output) \cup {NoField}
               /\ \E c \in patch.cites : c.layer = b.layer /\ c.id = b.id
               /\ \E t \in action.evidence : t.id = b.id
    <2>1. BindingTaken(b, o, req)
      BY <1>3
    <2>2. \E c \in patch.cites : c.layer = b.layer /\ c.id = b.id
      BY <1>1, <2>1 DEF BindingTaken, CitedAs
    <2>3. Token(b) \in action.evidence /\ Token(b).id = b.id
      BY <1>3 DEF Token
    <2> QED BY <2>1, <2>2, <2>3 DEF BindingTaken
  <1>6. ASSUME NEW i \in DOMAIN action.steps
        PROVE  LET step == action.steps[i]
               IN  /\ step.op = "click" => Bound(o, i, "target", NoField)
                   /\ step.op = "extract" =>
                        \A f \in FieldNames(action.output) : Bound(o, i, "output", f)
                   /\ step.op # "extract" /\ o.provenance = "observed"
                        /\ step.expect.kind # "none" => Bound(o, i, "effect", NoField)
    <2>1. action.steps[i].op = "extract" =>
            \A f \in FieldNames(action.output) : Bound(o, i, "output", f)
      BY <1>2, <1>3 DEF OutputBound
    <2>2. /\ action.steps[i].op \in Interactive => Bound(o, i, "target", NoField)
          /\ o.provenance = "observed" /\ action.steps[i].expect.kind # "none"
               /\ action.steps[i].op # "extract" => Bound(o, i, "effect", NoField)
      BY <1>3 DEF StepsBound
    <2> QED BY <2>1, <2>2 DEF Interactive
  <1> QED BY <1>2, <1>3, <1>4, <1>5, <1>6 DEF StoreTakesAction

LEMMA GateCitation ==
  ASSUME NEW patch, NEW req, NEW map, ParserAccepts(patch, req, map),
         NEW c \in patch.cites, StoreResolves(c, req, head.meta) \/
                                c.source \notin {"prior_context", "verification"}
  PROVE  StoreResolves(c, req, head.meta)
  <1>1. ParserResolves(c, req)
    BY DEF ParserAccepts
  <1>2. CASE c.source = "current_layer"
    BY <1>1, <1>2 DEF ParserResolves, StoreResolves
  <1>3. CASE c.source = "observation"
    BY <1>1, <1>3 DEF ParserResolves, StoreResolves, Observed
  <1> QED BY <1>1, <1>2, <1>3 DEF ParserResolves

\* The parser takes an action into a map only with a provenance that does not move backward.
LEMMA LearnedProvenance ==
  ASSUME HeadDomains, NEW patch, ParserAccepts(patch, Request, head.map),
         NEW o \in Upserts(patch, "action")
  PROVE  /\ o.provenance \in {"inferred", "observed"} /\ o.kind = "action"
         /\ o.id \in DOMAIN head.meta.actions =>
              Rank(o.provenance) >= Rank(head.meta.actions[o.id].provenance)
  <1>1. ParserTakesAction(o, Request, head.map) /\ o.kind = "action"
    BY DEF ParserAccepts, Upserts
  <1>2. /\ DOMAIN Request.context.actions = DOMAIN head.meta.actions
        /\ \A a \in DOMAIN head.meta.actions :
             Request.context.actions[a].provenance = head.meta.actions[a].provenance
    BY DEF Request, Context, HeadDomains
  <1> QED BY <1>1, <1>2 DEF ParserTakesAction

\* An answer the parser accepts is refused by the store only for one of the reasons of
\* LayerGapOnly: validateApplicationInput and applyPatch ask nothing else of a patch that
\* MaterializePatch let through, whatever the head is.
THEOREM StoreFollowsParser == Spec => []GatesAgree
  <1>1. LoopInv => GatesAgree
    <2> SUFFICES ASSUME LoopInv, NEW patch, ParserAccepts(patch, Request, head.map),
                        ~LayerGapOnly(patch, Request)
                 PROVE  StoreAccepts(patch, Request, head.map, head.meta)
      BY DEF GatesAgree
    <2>1. HeadDomains
      BY DEF LoopInv, HeadInv
    <2>2. StoreTakesRequest(Request)
      BY DEF LayerGapOnly
    <2>3. /\ patch.base = Request.base /\ patch.cites # {} /\ OneOpPerEntity(patch)
          /\ patch.ops # {} => MapValid(Patched(head.map, patch))
          /\ \A o \in patch.ops : o.kind \in EntityKinds /\ o.cites # {} /\ o.cites \subseteq patch.cites
      BY DEF ParserAccepts
    <2>4. \A c \in patch.cites : StoreResolves(c, Request, head.meta)
      BY GateCitation DEF LayerGapOnly
    <2>5. ASSUME NEW o \in Upserts(patch, "state")
          PROVE  /\ Rank(o.provenance) # 0 /\ o.state.evidence # {}
                 /\ ProvenanceTaken(o, head.map, head.meta.states)
      BY DEF LayerGapOnly, ParserAccepts, ParserTakesState
    <2>6. ASSUME NEW o \in Upserts(patch, "action")
          PROVE  /\ Rank(o.provenance) # 0 /\ StoreTakesAction(o, patch)
                 /\ ProvenanceTaken(o, head.map, head.meta.actions)
      <3>1. StoreTakesAction(o, patch)
        BY GateAction
      <3>2. /\ o.provenance \in {"inferred", "observed"}
            /\ o.id \in DOMAIN head.meta.actions =>
                 Rank(o.provenance) >= Rank(head.meta.actions[o.id].provenance)
        BY <2>1, LearnedProvenance
      <3> QED BY <3>1, <3>2 DEF ProvenanceTaken, Rank
    <2>7. \A o \in patch.ops : Rank(o.provenance) > 0
      <3> TAKE o \in patch.ops
      <3>1. o \in Upserts(patch, "state") \/ o \in Upserts(patch, "action")
        BY <2>3 DEF EntityKinds, Upserts
      <3>2. Rank(o.provenance) # 0
        BY <2>5, <2>6, <3>1
      <3>3. Rank(o.provenance) \in {0, 1, 2, 3}
        BY DEF Rank
      <3> QED BY <3>2, <3>3
    <2> QED BY <2>2, <2>3, <2>4, <2>5, <2>6, <2>7 DEF StoreAccepts
  <1> QED BY <1>1, LoopInvariant, PTL

-------------------------------------------------------------------------------
(* What a step may not do *)

LEMMA FeedbackKeepsMeaning ==
  ASSUME LoopInv, NEW r \in Runs, Feedback(r)
  PROVE  /\ DOMAIN head'.map.actions = DOMAIN head.map.actions
         /\ head'.map.states = head.map.states
         /\ \A a \in DOMAIN head.map.actions :
              Meaning(head'.map.actions[a]) = Meaning(head.map.actions[a])
  <1>1. HasPlan(r) /\ FedBackHead(r) /\ HeadInv
    BY FeedbackApplies DEF LoopInv
  <1>2. \A a \in DOMAIN head.map.actions : Decoded(head.map.actions[a])
    BY <1>1 DEF HeadInv
  <1>3. \A a \in DOMAIN head.map.actions :
          \/ head'.map.actions[a] = head.map.actions[a]
          \/ \E counts : head'.map.actions[a] = FedBack(head.map.actions[a], r, counts)
    BY <1>1, FeedbackMap
  <1>4. \A a \in DOMAIN head.map.actions :
          Meaning(head'.map.actions[a]) = Meaning(head.map.actions[a])
    BY <1>1, <1>2, <1>3, FedBackMeaning
  <1> QED BY <1>1, <1>4, FeedbackMap

\* The answers of the AI leave a verified action alone: the parser takes nothing below its rank.
LEMMA LearnedKeepsVerified ==
  ASSUME HeadInv, NEW patch, Learned(patch), NEW a \in DOMAIN head.map.actions, Verified(a)
  PROVE  Verified(a)' /\ head'.map.actions[a] = head.map.actions[a]
  <1>1. /\ ParserAccepts(patch, Request, head.map) /\ HeadDomains
        /\ head'.map = Patched(head.map, patch) /\ head'.meta = NextMeta(head.meta, patch)
    BY DEF Learned, HeadInv
  <1>2. a \in DOMAIN head.meta.actions /\ Rank(head.meta.actions[a].provenance) = 3
    BY <1>1 DEF Verified, HeadDomains, Rank
  <1>3. a \notin Ids(Upserts(patch, "action"))
    <2> SUFFICES ASSUME NEW o \in Upserts(patch, "action"), o.id = a PROVE FALSE
      BY DEF Ids
    <2>1. /\ o.provenance \in {"inferred", "observed"}
          /\ o.id \in DOMAIN head.meta.actions =>
               Rank(o.provenance) >= Rank(head.meta.actions[o.id].provenance)
      BY <1>1, LearnedProvenance
    <2>2. Rank(o.provenance) \in {1, 2}
      BY <2>1 DEF Rank
    <2> QED BY <1>2, <2>1, <2>2
  <1>4. a \in DOMAIN head'.map.actions /\ head'.map.actions[a] = head.map.actions[a]
    BY <1>1, <1>3, PatchedParts
  <1>5. head'.meta.actions[a] = head.meta.actions[a]
    BY <1>1, <1>2, <1>3, NextMetaParts
  <1> QED BY <1>4, <1>5 DEF Verified

\* Once a replay or a run has verified an action, no answer of the AI and no later report changes
\* what it does or takes the verification back (validateProvenance, ApplyRunObservationFeedback).
THEOREM VerifiedStays == Spec => VerifiedIsFrozen
  <1> DEFINE Kept(a) == Verified(a)' /\ Meaning(head'.map.actions[a]) = Meaning(head.map.actions[a])
             Frozen == \A a \in DOMAIN head.map.actions : Verified(a) => Kept(a)
  <1>1. ASSUME LoopInv, [Next]_vars PROVE Frozen
    <2>1. CASE Learn
      <3>1. PICK patch : Learned(patch)
        BY <2>1 DEF Learn, Learned
      <3> QED BY <1>1, <3>1, LearnedKeepsVerified DEF LoopInv
    <2>2. ASSUME NEW r \in Runs, Feedback(r) PROVE Frozen
      <3> SUFFICES ASSUME NEW a \in DOMAIN head.map.actions, Verified(a) PROVE Kept(a)
        OBVIOUS
      <3>1. FedBackHead(r) /\ HeadInv /\ HeadDomains
        BY <1>1, <2>2, FeedbackApplies DEF LoopInv, HeadInv
      <3>2. head'.meta.actions[a].provenance \in {head.meta.actions[a].provenance, "verified"}
        BY <3>1, FeedbackMeta DEF HeadDomains
      <3>3. a \in DOMAIN head'.map.actions
        BY <3>1, FeedbackMap
      <3>4. Verified(a)'
        BY <3>2, <3>3 DEF Verified
      <3> QED BY <1>1, <2>2, <3>4, FeedbackKeepsMeaning
    <2>3. CASE UNCHANGED head
      BY <2>3 DEF Verified
    <2>4. Skip \/ Publish \/ (\E r \in Runs : Start(r) \/ Step(r)) \/ UNCHANGED vars => UNCHANGED head
      BY DEF Skip, Publish, Start, Step, vars
    <2> QED BY <1>1, <2>1, <2>2, <2>3, <2>4 DEF Next
  <1>2. LoopInv /\ [Next]_vars => [Frozen]_vars
    BY <1>1
  <1> QED BY <1>2, LoopInvariant, PTL DEF Spec, VerifiedIsFrozen

\* A report may repair how an action of the head finds its elements, and nothing else of it,
\* although the run executed an older list (repairActionLocators, actionMapLocator).
THEOREM ReportsKeepMeaning == Spec => FeedbackNeverRedirects
  <1> DEFINE Same == /\ DOMAIN head'.map.actions = DOMAIN head.map.actions
                     /\ head'.map.states = head.map.states
                     /\ \A a \in DOMAIN head.map.actions :
                          Meaning(head'.map.actions[a]) = Meaning(head.map.actions[a])
             Harmless == \A r \in Runs :
                           runs[r].status # "observed" /\ runs'[r].status = "observed" => Same
  <1>1. ASSUME LoopInv, [Next]_vars PROVE Harmless
    <2>1. ASSUME NEW r \in Runs, Feedback(r) PROVE Harmless
      BY <1>1, <2>1, FeedbackKeepsMeaning
    <2>2. CASE UNCHANGED runs
      BY <2>2
    <2>3. ASSUME NEW r \in Runs, Start(r) \/ Step(r) PROVE Harmless
      BY <2>3 DEF Start, Step
    <2>4. Learn \/ Skip \/ Publish \/ UNCHANGED vars => UNCHANGED runs
      BY DEF Learn, Skip, Publish, vars
    <2> QED BY <1>1, <2>1, <2>2, <2>3, <2>4 DEF Next
  <1>2. LoopInv /\ [Next]_vars => [Harmless]_vars
    BY <1>1
  <1> QED BY <1>2, LoopInvariant, PTL DEF Spec, FeedbackNeverRedirects
===============================================================================
