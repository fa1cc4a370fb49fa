------------------------------- MODULE PatchGate -------------------------------
(***************************************************************************)
(* What stands between the answer of the AI parser and the action map: the *)
(* parser's own gate (MaterializePatch, package learning), which sees the  *)
(* semantic XML of the layer and the compact context, and the gate of the  *)
(* store (validateApplicationInput and applyPatch, package store), which   *)
(* sees the evidence metadata of the head revision.  Pure operators; they  *)
(* are composed with the rest of the learning loop in LearnedMap.          *)
(*                                                                         *)
(* A patch is [ops, cites].  A citation is [source, kind, layer, id]; a    *)
(* binding (stepEvidence) is [step, role, field, layer, id]; the token an  *)
(* action or a state keeps for it is the pair of layer and evidence, with  *)
(* the binding's suffix.  Digests, wording, size limits, the privacy scan  *)
(* and the lineage of composed actions are left out: identifiers stand for *)
(* what the digests bind.                                                  *)
(***************************************************************************)
EXTENDS ActionMap

CONSTANTS NoObservation, NoField

Interactive == {"fill", "click", "press"}
EntityKinds == {"state", "action"}    \* upsert_state and upsert_action
\* Faulty variant: "verified" is forgotten.
RankOfLearned(provenance) == CASE provenance = "inferred" -> 1
                               [] provenance = "observed" -> 2
                               [] OTHER -> 0
Rank(provenance) == CASE provenance = "inferred" -> 1
                      [] provenance = "observed" -> 2
                      [] provenance = "verified" -> 3
                      [] OTHER -> 0

-----------------------------------------------------------------------------
(* The compact context of a revision and the request made from it.         *)

\* ProjectActionMapContext: per entity its provenance and the handles of its last upsert.
Context(map, meta) ==
  [states  |-> [s \in DOMAIN map.states |-> meta.states[s].handles],
   actions |-> [a \in DOMAIN map.actions |->
                  [provenance |-> meta.actions[a].provenance,
                   handles    |-> meta.actions[a].handles,
                   fields     |-> [i \in DOMAIN map.actions[a].output.fields |->
                                     map.actions[a].output.fields[i].name]]]]

PriorHandles(context) ==
  UNION ({context.states[s] : s \in DOMAIN context.states}
           \cup {context.actions[a].handles : a \in DOMAIN context.actions})

\* ValidateParseRequest: causal order, the observation's target and the context's handles.
RequestValid(req) ==
  /\ (req.layer.sequence = 1) <=> (req.observation = NoObservation)
  /\ req.observation # NoObservation =>
       req.observation.target \subseteq PriorHandles(req.context) \cup DOMAIN req.layer.nodes
  /\ \A s \in DOMAIN req.context.states : req.context.states[s] # {}
  /\ \A a \in DOMAIN req.context.actions : req.context.actions[a].handles # {}

UniqueFields(fields) == \A i, j \in DOMAIN fields : fields[i] = fields[j] => i = j

\* validateAmbientRequestShape and validateCompactContext of the store.
StoreTakesRequest(req) ==
  /\ req.observation = NoObservation => req.layer.sequence = 1
  /\ \A s \in DOMAIN req.context.states : req.context.states[s] # {}
  /\ \A a \in DOMAIN req.context.actions :
       /\ req.context.actions[a].handles # {}
       /\ UniqueFields(req.context.actions[a].fields)

-----------------------------------------------------------------------------
(* The parser's gate.                                                      *)

Observed(req) == IF req.observation = NoObservation THEN {}
                 ELSE {req.observation.id} \cup req.observation.updates
ObservedTarget(req) == IF req.observation = NoObservation THEN {} ELSE req.observation.target

\* validateCitation, and the look-up in the semantic XML after it
ParserResolves(cite, req) ==
  \/ /\ cite.source = "current_layer" /\ cite.kind = "node"
     /\ cite.layer = req.layer.id /\ cite.id \in DOMAIN req.layer.nodes
  \/ /\ cite.source = "observation" /\ cite.kind \in {"event", "update"}
     /\ cite.layer = req.layer.id /\ cite.id \in Observed(req)
  \/ /\ cite.source = "prior_context"
     /\ cite.id \in PriorHandles(req.context) \cup ObservedTarget(req)
  \/ /\ cite.source = "verification"
     /\ \E a \in DOMAIN req.context.actions :
          /\ req.context.actions[a].provenance = "verified"
          /\ cite.id \in req.context.actions[a].handles

CitedAs(kinds, layer, id, cites) ==
  \E c \in cites : c.layer = layer /\ c.id = id /\ c.kind \in kinds
AnyKind == {"node", "event", "update", "state", "action"}

Token(b) == [layer |-> b.layer, id |-> b.id,
             step |-> IF b.field = NoField THEN b.step ELSE 0, role |-> b.role, field |-> b.field]
Bound(op, step, role, field) ==
  \E b \in op.bindings : b.step = step /\ b.role = role /\ b.field = field

FieldNames(output) == {output.fields[i].name : i \in DOMAIN output.fields}

\* outputLocator: the locator an output binding is compared with
OutputLocator(output, field) ==
  IF field \in FieldNames(output)
  THEN LET i == CHOOSE i \in DOMAIN output.fields :
                  /\ output.fields[i].name = field
                  /\ \A j \in DOMAIN output.fields : output.fields[j].name = field => i <= j
       IN  output.fields[i].locator
  ELSE IF HasEvidence(output.root) THEN output.root ELSE output.item

\* semanticNode.matches: an empty locator matches every node, a generated selector none
Matches(el, locator) ==
  \/ ~HasEvidence(locator)
  \/ ~locator.generated /\ locator.el = el

BindingTaken(b, op, req) ==
  LET step == op.action.steps[b.step]
  IN  /\ b.step \in DOMAIN op.action.steps
      /\ b.role \in {"target", "effect", "output"}
      /\ b.role # "output" => b.field = NoField
      /\ b.role = "target" => step.op \in Interactive
      /\ b.role = "effect" => step.expect.kind # "none"
      /\ b.role = "output" => /\ step.op = "extract"
                              /\ b.field \in FieldNames(op.action.output) \cup {NoField}
      /\ CitedAs(IF b.role = "effect" THEN AnyKind ELSE {"node"}, b.layer, b.id, op.cites)
      /\ b.layer = req.layer.id /\ b.role # "effect" =>
           /\ b.id \in DOMAIN req.layer.nodes
           /\ Matches(req.layer.nodes[b.id],
                      IF b.role = "output" THEN OutputLocator(op.action.output, b.field)
                      ELSE step.target)
      /\ Token(b) \in op.action.evidence

\* hasCurrentExecutableEvidence
BindsCurrentLayer(op, req) == \E b \in op.bindings : b.layer = req.layer.id

\* The order of the code's last two loops: every step, then the output.
StepsBound(op) ==
  \A i \in DOMAIN op.action.steps :
    LET step == op.action.steps[i]
    IN  /\ step.op \in Interactive => Bound(op, i, "target", NoField)
        /\ op.provenance = "observed" /\ step.expect.kind # "none" /\ step.op # "extract" =>
             Bound(op, i, "effect", NoField)
OutputBound(op) ==
  LET steps == op.action.steps
  IN  op.action.output.mode # "none" =>
        /\ steps[Len(steps)].op = "extract"
        /\ \E b \in op.bindings : b.role \in {"output", "effect"} /\ b.field = NoField
        /\ \A f \in FieldNames(op.action.output) : Bound(op, Len(steps), "output", f)

\* validateAmbientAction
ParserTakesAction(op, req, map) ==
  LET action == op.action
      prior  == req.context.actions
  IN  /\ action.steps # <<>>
      /\ \/ op.provenance = "inferred" /\ action.status = "resolvable"
         \/ op.provenance = "observed" /\ action.status = "observed"
      /\ op.id \in DOMAIN prior => Rank(op.provenance) >= Rank(prior[op.id].provenance)
      /\ op.provenance = "observed" => \E c \in op.cites : c.source = "observation"
      /\ \A c \in op.cites : c.source # "verification"
      /\ op.bindings # {}
      /\ \A b \in op.bindings : BindingTaken(b, op, req)
      /\ \A b, c \in op.bindings :
           b.step = c.step /\ b.role = c.role /\ b.field = c.field => b = c
      /\ op.id \in DOMAIN map.actions /\ ~BindsCurrentLayer(op, req) =>
           /\ map.actions[op.id].steps = action.steps
           /\ map.actions[op.id].output = action.output
      /\ StepsBound(op)
      /\ OutputBound(op)
      /\ action.evidence = {Token(b) : b \in op.bindings}

\* validateStateEvidence
ParserTakesState(op) ==
  /\ op.state.evidence # {}
  /\ \A t \in op.state.evidence : CitedAs({"node"}, t.layer, t.id, op.cites)

OneOpPerEntity(patch) == \A o, p \in patch.ops : o.id = p.id => o = p

Upserts(patch, kind) == {o \in patch.ops : o.kind = kind}
Upsert(old, ops, Value(_)) ==
  [id \in DOMAIN old \cup {o.id : o \in ops} |->
     IF \E o \in ops : o.id = id THEN Value(CHOOSE o \in ops : o.id = id) ELSE old[id]]

\* applyPatch, of both packages: states before actions, each entity replaced whole
Patched(map, patch) ==
  [states  |-> Upsert(map.states, Upserts(patch, "state"), LAMBDA o : o.state),
   actions |-> Upsert(map.actions, Upserts(patch, "action"), LAMBDA o : o.action)]

\* ValidateAndMaterialize: DecodePatch, then MaterializePatch
ParserAccepts(patch, req, map) ==
  /\ \A o \in Upserts(patch, "action") : Decoded(o.action)
  /\ RequestValid(req)
  /\ patch.base = req.base
  /\ patch.cites # {}
  /\ \A c \in patch.cites : ParserResolves(c, req)
  /\ OneOpPerEntity(patch)
  /\ \A o \in patch.ops :
       o.kind \in EntityKinds /\ o.cites # {} /\ o.cites \subseteq patch.cites
  /\ \A o \in Upserts(patch, "state") : ParserTakesState(o)
  /\ \A o \in Upserts(patch, "action") : ParserTakesAction(o, req, map)
  /\ patch.ops # {} => MapValid(Patched(map, patch))

-----------------------------------------------------------------------------
(* The store's gate.                                                       *)

\* citationResolves
StoreResolves(cite, req, meta) ==
  \/ /\ cite.source = "current_layer"
     /\ cite.layer = req.layer.id /\ cite.id \in DOMAIN req.layer.nodes
  \/ /\ cite.source = "observation" /\ req.observation # NoObservation
     /\ cite.layer = req.layer.id /\ cite.id \in Observed(req) \cup ObservedTarget(req)
  \/ /\ cite.source = "prior_context"
     /\ \E e \in meta.evidence : e.layer = cite.layer /\ e.id = cite.id
  \/ /\ cite.source = "verification"
     /\ \E e \in meta.evidence :
          e.layer = cite.layer /\ e.id = cite.id /\ e.source = "verification"

\* Faulty variant: an inferred action has to bind its effects too.
StoreTakesEffects(op, patch) ==
  /\ op.bindings # {}
  /\ \A i \in DOMAIN op.action.steps :
       op.action.steps[i].op # "extract" /\ op.action.steps[i].expect.kind # "none" =>
         Bound(op, i, "effect", NoField)
\* validatePatchShape and validateActionStepEvidence, for one upsert of an action
StoreTakesAction(op, patch) ==
  LET action == op.action
  IN  /\ action.status # "unresolved" /\ action.steps # <<>> /\ action.evidence # {}
      /\ op.bindings # {}
      /\ \A i \in DOMAIN action.steps : ~action.steps[i].literal
      /\ \A b \in op.bindings :
           /\ b.step \in DOMAIN action.steps
           /\ b.role \in {"target", "effect"} => b.field = NoField
           /\ b.role = "output" => b.field \in FieldNames(action.output) \cup {NoField}
           /\ \E c \in patch.cites : c.layer = b.layer /\ c.id = b.id
           /\ \E t \in action.evidence : t.id = b.id
      /\ \A i \in DOMAIN action.steps :
           LET step == action.steps[i]
           IN  /\ step.op = "click" => Bound(op, i, "target", NoField)
               /\ step.op = "extract" =>
                    \A f \in FieldNames(action.output) : Bound(op, i, "output", f)
               /\ step.op # "extract" /\ op.provenance = "observed"
                    /\ step.expect.kind # "none" => Bound(op, i, "effect", NoField)

\* validateEvidence's provenance rules and validateVerifiedSemantics
ProvenanceTaken(op, map, entities) ==
  /\ op.id \in DOMAIN entities => Rank(op.provenance) >= Rank(entities[op.id].provenance)
  /\ op.kind = "action" /\ op.provenance = "verified" =>
       /\ op.id \in DOMAIN entities /\ entities[op.id].provenance = "verified"
       /\ op.id \in DOMAIN map.actions /\ map.actions[op.id] = op.action

\* validateApplicationInput, and the checks applyPatch makes of its result
StoreAccepts(patch, req, map, meta) ==
  /\ StoreTakesRequest(req)
  /\ patch.base = req.base
  /\ patch.cites # {}
  /\ \A c \in patch.cites : StoreResolves(c, req, meta)
  /\ OneOpPerEntity(patch)
  /\ \A o \in patch.ops :
       /\ o.kind \in EntityKinds /\ Rank(o.provenance) > 0
       /\ o.cites # {} /\ o.cites \subseteq patch.cites
  /\ \A o \in Upserts(patch, "state") :
       o.state.evidence # {} /\ ProvenanceTaken(o, map, meta.states)
  /\ \A o \in Upserts(patch, "action") :
       StoreTakesAction(o, patch) /\ ProvenanceTaken(o, map, meta.actions)
  /\ patch.ops # {} => MapValid(Patched(map, patch))

\* mergeEvidence: a record of the same layer and evidence is replaced
CitedEvidence(cites) == {[layer |-> c.layer, id |-> c.id, source |-> c.source] : c \in cites}
\* Faulty variant: only the evidence of this patch is kept.
MergedForgets(evidence, cites) == CitedEvidence(cites)
Merged(evidence, cites) ==
  {e \in evidence : ~\E c \in cites : c.layer = e.layer /\ c.id = e.id} \cup CitedEvidence(cites)

\* The metadata stored with the new revision (applyPatch).
NoMeta == [states |-> <<>>, actions |-> <<>>, evidence |-> {}]
NextMeta(meta, patch) ==
  [states   |-> Upsert(meta.states, Upserts(patch, "state"),
                       LAMBDA o : [provenance |-> o.provenance,
                                   handles    |-> {c.id : c \in o.cites}]),
   actions  |-> Upsert(meta.actions, Upserts(patch, "action"),
                       LAMBDA o : [provenance |-> o.provenance,
                                   handles    |-> {b.id : b \in o.bindings}]),
   evidence |-> Merged(meta.evidence, patch.cites)]
===============================================================================
