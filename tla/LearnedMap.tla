------------------------------- MODULE LearnedMap -------------------------------
(***************************************************************************)
(* The learning loop of one site scope, from the layers of a page to the   *)
(* runs of what was learned from them and back: an answer of the AI parser *)
(* passes the two gates (PatchGate) and becomes the next revision of the   *)
(* action map, the revision is projected to a candidate list (ListGate),   *)
(* a reviewed candidate is published, runs execute the actions of the      *)
(* published list step by step (StepRuntime), and what they report changes *)
(* the head of the map (ApplyRunObservationFeedback).  A run keeps the     *)
(* list it started with, while the head and the published list move on.    *)
(*                                                                         *)
(* One layer is learned at a time and its answer is applied to the         *)
(* revision it was asked for: conflicts, retries and lost answers are the  *)
(* subject of AmbientDelivery, the review of candidates of CandidateReview *)
(* and the coordination of a run of RunCoordinator.                        *)
(***************************************************************************)
EXTENDS PatchGate, StepRuntime

CONSTANTS Runs,             \* identifiers of runs
          Layers,           \* the layers the pages of the scope produce, in order
          Pages,            \* the pages a step can meet
          Answers(_, _),    \* the answers of the AI that are tried: request and map
          NoList,
          QuarantineAfter   \* 3 in the code

ASSUME LoopAssumption ==
  /\ \A i \in DOMAIN Layers : \A n \in DOMAIN Layers[i].nodes : Layers[i].nodes[n] \in Elements
  /\ Pages \subseteq Page
  /\ QuarantineAfter \in Nat \ {0}

VARIABLES
  head,       \* the head of the scope: revision, map and evidence metadata
  layer,      \* the sequence of the last layer that was decided
  candidate,  \* the last candidate list that was stored, with its revision
  published,  \* the published list, with its revision
  runs,       \* the runs: what each executes and how far it is
  health,     \* action_runtime_health: counts per published revision and action
  proved      \* history: the plans some completed run executed

vars == <<head, layer, candidate, published, runs, health, proved>>

Idle == [status |-> "idle"]
Init ==
  /\ head = [rev |-> 0, map |-> EmptyMap, meta |-> NoMeta]
  /\ layer = 0
  /\ candidate = NoList
  /\ published = NoList
  /\ runs = [r \in Runs |-> Idle]
  /\ health = [k \in {} |-> 0]
  /\ proved = {}

-----------------------------------------------------------------------------
(* Learning.                                                               *)

Request ==
  [layer       |-> [id |-> layer + 1, sequence |-> layer + 1, nodes |-> Layers[layer + 1].nodes],
   observation |-> Layers[layer + 1].observation,
   base        |-> head.rev,
   context     |-> Context(head.map, head.meta)]

\* processAmbientLayer after the application; CompileAmbientCandidate may refuse the map.
Projected(rev, map) ==
  IF Projectable(map) THEN [rev |-> rev, list |-> Projection(map)] ELSE candidate

Learn ==
  /\ layer < Len(Layers)
  /\ \E patch \in Answers(Request, head.map) :
       /\ patch.ops # {}
       /\ ParserAccepts(patch, Request, head.map)
       /\ StoreAccepts(patch, Request, head.map, head.meta)
       /\ LET map == Patched(head.map, patch)
          IN  /\ head' = [rev |-> head.rev + 1, map |-> map, meta |-> NextMeta(head.meta, patch)]
              /\ candidate' = Projected(head.rev + 1, map)
  /\ layer' = layer + 1
  /\ UNCHANGED <<published, runs, health, proved>>

\* no_change, a rejected answer, or a layer that was given up
Skip ==
  /\ layer < Len(Layers)
  /\ layer' = layer + 1
  /\ UNCHANGED <<head, candidate, published, runs, health, proved>>

\* PublishActionList: a reviewed candidate of the head
Publish ==
  /\ candidate # NoList /\ candidate # published
  /\ candidate.rev = head.rev
  /\ published' = candidate
  /\ UNCHANGED <<head, layer, candidate, runs, health, proved>>

-----------------------------------------------------------------------------
(* Running.                                                                *)

Required(action) == {p \in DOMAIN action.params : action.params[p]}

\* A call of a tool with valid arguments, up to the first page of the run.
Start(r) ==
  /\ published # NoList /\ runs[r] = Idle
  /\ \E a \in DOMAIN published.list.actions, page \in Pages :
       \E args \in SUBSET DOMAIN published.list.actions[a].params :
         /\ Required(published.list.actions[a]) \subseteq args
         /\ LET code == EntryCode(published.list, published.list.actions[a], page)
            IN  runs' = [runs EXCEPT ![r] =
                           [status |-> IF code = "ok" THEN "running" ELSE "failed",
                            from |-> published, action |-> a, args |-> args, used |-> <<>>,
                            code |-> code]]
  /\ UNCHANGED <<head, layer, candidate, published, health, proved>>

Plan(run) == run.from.list.actions[run.action]
ExpectsNavigation(step) == step.op = "click" /\ \E c \in step.expect : c.kind = "url"

\* What a step can end with: what the actor reports, or, when the document was replaced, what
\* the new document announces; such a step reports no strategy (completePendingStep).
Results(run) ==
  LET step == Plan(run).steps[Len(run.used) + 1]
      Announced(q) == Evaluated(step.expect, run.from.list.states, step, run.args, q)
  IN  (UNION {StepResults(Plan(run), run.from.list.states, Len(run.used) + 1, run.args, p, q) :
                p, q \in Pages})
        \cup (IF ExpectsNavigation(step) /\ \E q \in Pages : q.allowed /\ Announced(q).holds
              THEN {Found(0, 0)} ELSE {})

\* One step: executeStep in the actor, then the coordinator's record of its outcome.
Step(r) ==
  LET run == runs[r]
  IN  /\ run.status = "running"
      /\ \E result \in Results(run) :
           IF result.code = "ok"
           THEN LET used == Append(run.used, result.index)
                    last == Len(used) = Len(Plan(run).steps)
                IN  /\ runs' = [runs EXCEPT ![r].used = used,
                                            ![r].status = IF last THEN "completed" ELSE "running"]
                    /\ proved' = IF last THEN proved \cup {[id |-> run.action, plan |-> Plan(run)]}
                                 ELSE proved
           ELSE /\ runs' = [runs EXCEPT ![r].code = result.code,
                                        ![r].status = IF result.code = "CANCELLED"
                                                      THEN "cancelled" ELSE "failed"]
                /\ UNCHANGED proved
      /\ UNCHANGED <<head, layer, candidate, published, health>>

-----------------------------------------------------------------------------
(* Feedback (ApplyRunObservationFeedback).                                 *)

\* actionMapLocator: a strategy as a locator of the map
AsLocator(el, kind) ==
  [el |-> el, generated |-> FALSE, by |-> CASE kind = "role" -> {"role", "name"}
                                            [] kind = "text" -> {"text"}
                                            [] kind \in {"css", "roleCss"} -> {"css"}]

\* Faulty variant: the locator of the head is not compared with the published one.
RepairsBlindly(step, planned, index) == index > 1 /\ step.op = planned.op

\* repairActionLocators: a fallback that worked replaces the locator it was compiled from
Repairs(step, planned, index) ==
  /\ index \in 2 .. Len(planned.target.strategies)
  /\ step.op = planned.op
  /\ \E i \in DOMAIN planned.target.strategies :
       step.target = AsLocator(planned.target.el, planned.target.strategies[i])
Repaired(action, run) ==
  LET planned == Plan(run).steps
  IN  [action EXCEPT !.steps = [i \in DOMAIN @ |->
         IF i \in DOMAIN planned /\ Repairs(@[i], planned[i], run.used[i])
         THEN [@[i] EXCEPT !.target =
                 AsLocator(planned[i].target.el, planned[i].target.strategies[run.used[i]])]
         ELSE @[i]]]

TargetCodes == {"TARGET_NOT_FOUND", "TARGET_AMBIGUOUS", "TARGET_NOT_INTERACTABLE"}
Counts(run) ==
  LET key == <<run.from.rev, run.action>>
  IN  IF key \in DOMAIN health THEN health[key] ELSE [completed |-> 0, failed |-> 0, hits |-> 0]
Counted(run) ==
  LET old == Counts(run)
  IN  IF run.status = "completed" THEN [old EXCEPT !.completed = @ + 1]
      ELSE [old EXCEPT !.failed = @ + 1,
                       !.hits = IF run.code \in TargetCodes \cup {"POSTCONDITION_FAILED"}
                                THEN @ + 1 ELSE @]
Quarantined(counts) == counts.hits >= QuarantineAfter /\ counts.failed > counts.completed

\* The newest ten tokens are kept in the code; a scope here never has more.
RunToken(r) == [layer |-> r, id |-> r, step |-> 0, role |-> "verification", field |-> NoField]
FedBack(action, r, counts) ==
  LET run    == runs[r]
      worked == run.status = "completed"
      better == IF worked THEN Repaired(action, run) ELSE action
  IN  [better EXCEPT !.status = CASE Quarantined(counts) -> "unresolved"
                                  [] worked /\ ~Quarantined(counts) /\ @ = "unresolved" -> "resolvable"
                                  [] OTHER -> @,
                     !.evidence = @ \cup {RunToken(r)}]

Feedback(r) ==
  LET run    == runs[r]
      counts == Counted(run)
      map    == [head.map EXCEPT !.actions[run.action] = FedBack(@, r, counts)]
  IN  /\ run.status \in {"completed", "failed"}
      /\ MapValid(map)
      /\ head' = [rev |-> head.rev + 1, map |-> map,
                  meta |-> [head.meta EXCEPT
                     !.actions[run.action].provenance =
                        IF run.status = "completed" THEN "verified" ELSE @,
                     !.actions[run.action].handles = @ \cup {r},
                     !.evidence = @ \cup {[layer |-> r, id |-> r, source |-> "verification"]}]]
      /\ health' = [k \in DOMAIN health \cup {<<run.from.rev, run.action>>} |->
                      IF k = <<run.from.rev, run.action>> THEN counts ELSE health[k]]
      /\ candidate' = Projected(head.rev + 1, map)
      /\ runs' = [runs EXCEPT ![r] = [status |-> "observed"]]
      /\ UNCHANGED <<layer, published, proved>>

Next ==
  \/ Learn \/ Skip \/ Publish
  \/ \E r \in Runs : Start(r) \/ Step(r) \/ Feedback(r)

Spec == Init /\ [][Next]_vars

-----------------------------------------------------------------------------
(* Properties.                                                             *)

\* What an action does, whatever describes its targets: a repair and the bookkeeping of
\* feedback change none of it.
Bare(steps) == [i \in DOMAIN steps |-> [steps[i] EXCEPT !.target = @.el]]
Meaning(action) ==
  [action EXCEPT !.status = "observed", !.evidence = {}, !.steps = Bare(@)]
PlanMeaning(plan) == [plan EXCEPT !.steps = Bare(@)]

Verified(a) == a \in DOMAIN head.map.actions /\ head.meta.actions[a].provenance = "verified"

\* Every entity of the head has metadata with at least one evidence handle, every handle names
\* a record the revision keeps, and the map is valid: what the next compact context is built
\* from and what a later patch may cite as prior_context (ProjectActionMapContext, mergeEvidence).
HeadIsSound ==
  head.rev # 0 =>
    /\ MapValid(head.map)
    /\ \A entities \in {<<head.map.states, head.meta.states>>, <<head.map.actions, head.meta.actions>>} :
         /\ DOMAIN entities[1] = DOMAIN entities[2]
         /\ \A id \in DOMAIN entities[2] :
              /\ entities[2][id].handles # {}
              /\ \A handle \in entities[2][id].handles :
                   \E e \in head.meta.evidence : e.id = handle

\* The two gates agree on the answers: what the parser accepts, the store refuses only for a
\* literal value, for an extract step that is not the step the output is read at, for a state
\* whose provenance is unknown or moves backward, for prior evidence named with another layer
\* than its own, for a handle of a verified action that is no verification, or for two output
\* fields of one name in the context.
LayerGapOnly(patch, req) ==
  \/ \E o \in Upserts(patch, "action") : \E i \in DOMAIN o.action.steps :
       \/ o.action.steps[i].literal
       \/ /\ o.action.steps[i].op = "extract"
          /\ i # Len(o.action.steps) \/ o.action.output.mode = "none"
  \/ \E o \in Upserts(patch, "state") :
       Rank(o.provenance) = 0 \/ ~ProvenanceTaken(o, head.map, head.meta.states)
  \/ \E c \in patch.cites : c.source \in {"prior_context", "verification"}
                            /\ ~StoreResolves(c, req, head.meta)
  \/ ~StoreTakesRequest(req)
GatesAgree ==
  layer < Len(Layers) =>
    \A patch \in Answers(Request, head.map) :
      ParserAccepts(patch, Request, head.map) =>
        StoreAccepts(patch, Request, head.map, head.meta) \/ LayerGapOnly(patch, Request)

\* What the gates of the list let through, the page can execute: a run ends with INTERNAL_ERROR
\* only if its list has a pattern the browser does not compile, and with INVALID_ARGUMENTS only
\* at a fill from an optional parameter the caller left out (action-list/1 admits both).
OnlyKnownPlanDefects ==
  \A r \in Runs : runs[r].status = "failed" =>
    /\ runs[r].code = "INTERNAL_ERROR" =>
         \/ \E s \in DOMAIN runs[r].from.list.states : ~InJs(runs[r].from.list.states[s])
         \/ \E step \in Range(Plan(runs[r]).steps) : \E c \in step.expect :
              c.kind = "url" /\ ~InJs(c.pattern)
    /\ runs[r].code = "INVALID_ARGUMENTS" =>
         LET step == Plan(runs[r]).steps[Len(runs[r].used) + 1]
         IN  /\ step.op = "fill" /\ step.value \notin runs[r].args
             /\ ~Plan(runs[r]).params[step.value]

\* A verified action cannot be taken over by an answer of the AI, nor lost, nor demoted:
\* whatever is learned later, it keeps its steps, expectations and output, and stays verified.
VerifiedIsFrozen ==
  [][\A a \in DOMAIN head.map.actions : Verified(a) =>
       Verified(a)' /\ Meaning(head'.map.actions[a]) = Meaning(head.map.actions[a])]_vars

\* The report of a run never makes an action of the head do anything else, although the run
\* executed an older list than the head it is applied to (repairActionLocators).
FeedbackNeverRedirects ==
  [][\A r \in Runs : runs[r].status # "observed" /\ runs'[r].status = "observed" =>
       /\ DOMAIN head'.map.actions = DOMAIN head.map.actions
       /\ head'.map.states = head.map.states
       /\ \A a \in DOMAIN head.map.actions :
            Meaning(head'.map.actions[a]) = Meaning(head.map.actions[a])]_vars

\* "verified: deterministic replay or a ready-path run satisfies the exact action version's
\* preconditions, postconditions, and output contract" (documentation/contracts/ambient-learning.md).
VerifiedWasRun ==
  \A a \in DOMAIN head.map.actions : Verified(a) =>
    \E p \in proved :
      p.id = a /\ PlanMeaning(p.plan) = PlanMeaning(CompileAction(head.map.actions[a]))

\* "a successful fallback strategy repairs the map selector" (documentation/contracts/ambient-learning.md):
\* a completed run that used a fallback, reported while the head still has the plan it ran.
FallbackRepairs ==
  [][\A r \in Runs :
       /\ runs[r].status = "completed" /\ runs'[r].status = "observed"
       /\ CompileAction(head.map.actions[runs[r].action]) = Plan(runs[r])
       /\ \E i \in DOMAIN runs[r].used : runs[r].used[i] > 1
       => head'.map.actions[runs[r].action].steps # head.map.actions[runs[r].action].steps]_vars

\* "locators are supported and evidence-backed" (documentation/contracts/system-contract.md): a target whose
\* element changes is bound to a node of the layer the change was learned from.
TargetsAreEvidenced ==
  [][\A a \in DOMAIN head.map.actions :
       \A i \in DOMAIN head'.map.actions[a].steps :
         LET target == head'.map.actions[a].steps[i].target
         IN  /\ i \in DOMAIN head.map.actions[a].steps
             /\ head.map.actions[a].steps[i].target.el \notin {target.el, NoElement}
             /\ target.el # NoElement
             =>
               \E n \in DOMAIN Layers[layer'].nodes :
                 /\ Layers[layer'].nodes[n] = target.el
                 /\ [layer |-> layer', id |-> n, step |-> i, role |-> "target", field |-> NoField]
                      \in head'.map.actions[a].evidence]_vars
================================================================================
