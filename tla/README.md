# Verification of WebMCP Automator

WebMCP Automator learns actions from what a user does on a website and later runs them
as tools. A Chrome MV3 extension captures interactions and executes published action
lists; a Go server turns captured layers into revisioned action maps, derives candidate
actions, and publishes the reviewed ones to a registry.

This directory holds TLA+ models of that code, the TLC configurations that check them on
small instances, and theorems checked by TLAPS. Definitions are translated from the
source; `PROJECT.json` maps each one to the lines it stands for.

    tlc -workers 2 -config MCRunCoordinator_steps.cfg MCRunCoordinator.tla
    tlc -workers 2 -config MCAmbientDelivery_layers.cfg MCAmbientDelivery.tla
    tlc -workers 2 -config MCLearnedMap_maps.cfg MCLearnedMap.tla
    tlapm RunCoordinatorProofs.tla
    tlapm AmbientDeliveryProofs.tla
    tlapm CandidateReviewProofs.tla
    tlapm SourceBridgeProofs.tla
    tlapm ToolRegistrationProofs.tla
    tlapm ActorBridgeProofs.tla
    tlapm AmbientCaptureProofs.tla
    tlapm LearnedMapProofs.tla

## 1. The system

```
 web page ── source bridge ──port──┐                       ┌── registry, policy (HTTP)
 (registers tools, asks for runs)  │                       │
                                   ├── run coordinator ────┤
 execution tab ── actor bridge ────┤   (service worker)    └── chrome.storage, chrome.tabs
   └ step runtime (DOM)     port   │
 review UI ────────────────────────┘
 any page ── ambient capture ── retry spool ── background ──HTTP── action-map store
                                                                   parser, candidates,
                                                                   review, publication
```

| Component (source) | State it keeps | Operations | What is hard about it | What makes it correct |
|---|---|---|---|---|
| **Run record** `coordinator/run-state.js` | status, step, pending command, confirmation, execution, sequences | create, transition, update, accept an event | the functions check only the copy they are given | only legal transitions; a terminal record never changes; no event twice |
| **Run coordinator** `coordinator/run-coordinator.js` | runs in storage; queues, timers and ports in memory | request, resume, cancel, ack; actor events; confirmation; timeouts; recovery | five kinds of task on one record, worker suspension between any two awaits, disconnections, stale copies | a command is durable before it is posted; an unsafe one that was sent is not sent again; confirmation gates dispatch; success needs evidence; every run ends and is heard of |
| **Chrome adapters** `coordinator/chrome-adapters.js` | storage keys, owned tabs | put/get/list under one write queue; find, create, close a tab | atomicity of read and write; owned tabs shared by runs | writes serialised; a tab serves one active run |
| **Actor bridge** `actor/bootstrap.js` | port, binding, sequence, current command | bind, execute, abort, report | a rebind resets the sequence; an overtaken command still resolves | at most one command alive; events in order |
| **Actor runtime** `actor/runtime.js` | none between commands | resolve a locator, act, await conditions | deadlines and aborts racing DOM changes | reports an effect only if observed |
| **Source bridge** `source/bootstrap.js` | pending promises, outbox, reconnection, registered tools | invoke, cancel, reconnect, refresh tools | cancel before acceptance, reconnect limit, overlapping refreshes | each promise settles once; an overtaken refresh adds no tool; a route gets its tools |
| **Ready runtime** `coordinator/ready-runtime.js` | caches | discovery, exact resolution, policy evaluation | retries, digests, expiring decisions | only the pinned digest runs |
| **Candidate replay** `coordinator/candidate-replay.js` | one run in memory, a temporary tab | start, events, finish | worker stops in the middle | a verdict is backed by evidence; the tab is closed |
| **Background wiring** `coordinator/bootstrap.js` | policy, ambient scopes, sequences | message routing, delivery loop | serialised sections over storage | spool owned by one loop |
| **Ambient capture, spool** `learning/ambient-*.js`, `retry-spool.js` | observations, layers, spool records | capture, append, deliver, expire | completion order, retries, TTL, head-of-line | layers arrive in sequence, once |
| **Recorder session** `learning/session.js`, `recorder-core.js` | trace events | start, event, stop | events across a navigation | a started event is completed or dropped |
| **Action-map store** `server/internal/store/action_map_*.go` | head revision, receipts | load, apply patch | optimistic concurrency, repeated deliveries | one revision per layer; a receipt is final |
| **Ambient pipeline** `api/ambient.go`, `learning/ambient_*.go` | none | parse, apply with retry, project candidates | a slow model between load and apply | a patch applies to what it was made from |
| **Registry, review** `store/registry.go`, `api/candidate_review.go` | candidates, evidence, publications | propose, review, replay, publish, reject | head moves under a review | what is published is what was reviewed |
| **Runtime feedback** `store/runtime_feedback.go` | observations, health | record | duplicate deliveries | an observation counts once |
| **Action-list validation** `manifest/*.go` | none | validate | | dispatch may rely on it |

Also in the tree, and without a protocol worth a model: the semantic projection and
privacy filter, the legacy runner, the review UI, trace and semanticizer (pure
transformations; the compiler's projection is in `ListGate`), the HTTP layer and configuration. `PROJECT.json` lists them all with
their status, and the hazards of the code at the line where each bites.

## 2. What is modelled

### RunState
The record of `run-state.js`, its statuses, `LEGAL_TRANSITIONS`, and the operations on a
record as operators: `CanMove`/`Move` (transitionRun), `CanAccept`/`Accept`
(acceptEvent). No variables. `Plan` is the action a run is pinned to, reduced to what
dispatch tells apart: the kind of each step (`effect`, `navigate` for a click whose url is
checked, `extract`), the confirmation mode and step, whether it is safe to repeat, and
whether the tab is closed at the end. `PlanAssumption` states what the Go validator
(`action_list.go`) guarantees of a published action.

### RunCoordinator
`run-coordinator.js` over the serialised storage of `chrome-adapters.js`.

*Tasks.* The code that works on a run is asynchronous and of five kinds: `request`
(acceptRequest to openExecutionTab, in the request queue), `queue` (the run queue:
everything a source, an actor, the reviewer, a timer or a disconnection brings),
`recover` (recover(), in no queue), `resume` (resumeExecutionTab, in no queue) and
`observe` (storeObservation, in no queue). `pc[r, c]` is the await at which task `c` of run
`r` stands; `rec[r, c]` is the copy of the record it holds over that await. An action is
the code from one await to the next. So a copy is as stale in the model as in the program,
and a task writes back the whole record, as `storage.putRun` does.

*Saves.* `createSerializedMutator` is a FIFO of writes: a save is issued (`Issue`, a
task enters `writes`) and later commits (`Commit`, the head's copy becomes `store[r]`); the
code behind the await is part of the commit step. `Crash` may fall in between: `writes` and all
memory are lost and `store` stays.

*State and code.*

| Variable | In the code |
|---|---|
| `store` | `storage.local` runs |
| `writes`, `pc`, `rec`, `event`, `busy` | promises in flight and the locals they close over |
| `inbox`, `armed`, `due` | deadlineTimers, and the fail tasks they put in the run queue |
| `up`, `faults` | the service worker runs; number of faults so far |
| `source`, `delivered` | port of the source document (on, off, in its grace period, closed); terminal envelope received |
| `port`, `ports`, `docs`, `tabs` | executionPorts, connected actor documents, documents loaded, owned tabs |
| `cmds`, `posted` | randomId; commands posted to actors |
| `repeated`, `durable`, `evidence`, `gate`, `fate` | history only, never read by a guard of the program |

*Actions.* `Request`, `RunCreated`, `Resolve`, `PolicyChecked`, `ConfirmationRequested`,
`ListTabs`, `PickTab`, `TabOpening`, `TabOccupied`, `Accepted` follow a request;
`PageReady`, `StepReported`, `Confirm`, `Cancel`, `Acknowledge` and `TakeStop` enter the
run queue, and `EventLoaded`, `EventSaved`, `PageSaved`, `Attested`, `Prepare`, `Prepared`,
`Dispatched`, `StepAdvanced`, `LastStepSaved`, `Reauthorize`, `Approved`, `LastSaved` are
the awaits of its handlers; `Fail` and `TerminalSaved` end a run; `StoreObservation`,
`ObservationStored`, `Resume` and the `Recover…` actions are the unqueued tasks;
`Crash`, `WorkerStart`, `NewDocument`, `BindExecution`, `Unbind`, `CloseTab`,
`SourceDrop`, `SourceExpire`, `SourceBind`, `SourceClose`, `FireTimer` are the
environment.

*Abstractions.* Validation of messages, exact resolution, policy evaluation and
`tabs.create` answer yes or no in every way. Locators, conditions and DOM effects are the
`ok`, `moved` and `scope` bits of an event. A payload of `step.completed` has the shape
the coordinator asks for (`run-coordinator.js:290`; the shipped actor sends another, see ActorBridge). A duplicate `run.cancel` is another
`Cancel`. Digests of accepted events are left out: a repeated event and an out-of-order
one are both refused by sequence number and change nothing. Times are order only: `due`
says that the deadline has passed; a timer may also fire for an earlier deadline.

### ActionMapStore and LayerLog
`ActionMapStore` holds one row of `action_map_scopes` with its revisions and receipts, and
the decision on a patch as operators on that row: `Receipts`/`Repeated` (a receipt given
again), `RequestValid` (the conditions on sequence numbers), `Conflicts` and `Decide`
(`prepareActionMapApplication`), `Record` (what `ApplyActionMapPatch` writes, with its
rollback of a scope whose first input is refused), `LearnFrom` (runtime feedback). One
transaction holds the row (`FOR UPDATE`), so operators are enough. A map is the number of
its revision: what a patch writes is left out, and every check of its content is the bit
`contentOk` (PatchGate has the checks); the digest of a base is taken to belong to one revision.

`LayerLog` is what the store promises: an append-only log for each scope, in which a
revision names the layer or the run it comes from and the revision it was computed from,
layers come in the order of their numbers and each at most once, and a run gives one revision.

### AmbientDelivery
The way of a layer from a page to the map, over all the code it passes.

| Variable | In the code |
|---|---|
| `tab` | `active` of ambient-capture.js and whether its `captureWork` still runs; the layer that has drawn its number (`draft`) |
| `loop` | `deliveryWork`: where requestDelivery stands, with `record` and `receipt` |
| `counter`, `pointer` | `storage.session`: nextLayerSequence, the candidate last heard of |
| `policy`, `spool`, `arrivals` | `storage.local`: policies, encrypted records, `enqueuedAt` |
| `notice` | a storage.onChanged event not yet handled by a document |
| `calls` | processAmbientLayer under way: its statement, base, generation, answer |
| `map`, `learned`, `lists`, `bound` | the tables of the server |
| `session`, `docs`, `faults` | counters |
| `enqueued`, `dropped` | history only, never read by a guard |

*Actions.* `Navigate`, `Start`, `Attach`, `DrawNumber`, `Enqueue`, `PolicyEvent` are a
document; `TakeOldest`, `CheckPolicy`, `Send`, `Receive` its delivery loop, one action for
each message to the worker; `DecidePolicy` is savePolicy. `Load`, `Parse`, `Apply`,
`Project`, `InsertCandidate`, `Bind`, `Reply` are the statements of a delivery in the
server, where calls of several documents interleave and go on when the page or the worker
that waits for them has gone. `Observe`, `InsertObserved`, `BindObserved` are
recordRunObservation; each may be left undone and made good by sending the observation again.
`CallFails`, `WorkerStops`, `Expire`, `RemoveMatching`, `BrowserRestart` are the failures.

*Abstractions.* A message to the worker is one step, taken when the worker handles it: its
state sits in storage behind `serial`, and what a document does between two messages is
local. Time is left out: a record may expire at any moment. A candidate document is its
map revision and the second in which it was compiled, which is what its digest depends on.
Two layers of two browser sessions are taken to differ in what they show, so that they do
not share an idempotency key. That a published list exists for a bound candidate is
external to `Observe`. Not represented here: the order in which pending observations complete,
their 30 s expiry, two overlapping `start()` of one document (AmbientCapture has them).

What the model shows and no property claims: a scope whose first layer changes nothing has
revision 0 and a last layer, a base that the request check refuses for ever; a layer whose
answer was lost is refused as stale; after a browser restart numbers begin at 1 again and
are refused until they have caught up. In each case the record stays first in the spool
until it expires, and the layers of every other document wait behind it.

### Invocation and SourceBridge
`Invocation` is what a tool promises the agent that calls it: a call is answered at most
once, with the outcome of its own run or with a failure the page raises itself.
`SourceBridge` is `createSourceBridge` of `source/bootstrap.js` with the calls, the outbox,
the port and its reconnection. The closure is one record, `bridge`; each of its functions is
an operator from a bridge to the bridge it leaves (`CancelRequests`, `SendEnvelopes`,
`ConnectPort`, `ScheduleReconnect`, `HandlePortMessage`, …), and a handler is one step
because none awaits. `toWorker` and `toPage` are the messages on the current port, which a
lost port takes along. The coordinator is external: the status, the outcome and
`terminal.dispatched` of the run of each request, the port it has bound, and the envelopes
it replays (RunCoordinator has the rest). Argument validation and envelope shapes are a
nondeterministic refusal.

What the model shows and no property claims: `reconnectAttempts` is reset only by an
accepted envelope or a terminal one, never by a port that opens (`MCSourceBridge_budget.cfg`);
a `run.ack` lost with its port is not repeated, though the coordinator then keeps the
outcome; `start()` after `stop()` does nothing, because `stopped` stays set; a request the
coordinator refuses silently leaves the call pending until another answer ends it.

### ToolRegistration
Discovery and registration of the same file. `fetches` are discoveries waiting for the
worker, `queue` is `registrationQueue`, `task` the application that awaits `registerTool`,
`generation` is `refreshGeneration`, `tools` is `registrationControllers` in the order of its
keys. `RemoveOldest` is removeRegistration as it is called from a `forEach`: the index arrives as
`expectedController` (`:534`), so of several registrations that are to go only the first is
removed (`unregisterAll`, and the removal of what is no longer desired, `:574-576`). `left` is
history: what such a removal has left registered. A list is its
routes, whether its publication and policy let it be injected, its scopes and its actions;
`Desired` is listIsEligible, actionIsEligible and the collision of names. `spoiled` is
history: why a route may be left without its tools. There are three ways, and all three are the
code's: `registerTool` rejects (compared with a generation the application itself has moved on),
the retries are used up, or an application overtaken by a navigation finishes and cancels the
retry timer of the route that followed.

### ActorBridge
`createActorBridge` of `actor/bootstrap.js`, over `executeStep` as an execution that is
`detecting` until its operation and `waiting` until its postcondition, with the documents of
one execution tab and the ports between them and the coordinator. The coordinator's handlers
are those of RunCoordinator with their saves taken as one step, so that the budget goes to
messages in flight, rebinding and replaced documents. `Refused` says
whether `validateInboundMessage` refuses a completion: it takes exactly five keys and the actor
sends seven, so {TRUE} is this tree and {FALSE} an actor that keeps to the coordinator's
contract. The `actor` run has both.

### AmbientCapture
The controller of one document, `ambient-capture.js`: calls of `start` that overtake each
other at each of their awaits, observations that complete in any order or expire, and the
promise chain `captureWork` that appends one layer for each. `starts` says at which await
each start stands, `active` is the start whose state the controller works for, `job` the
flush that runs. AmbientDelivery takes over at the spool.

### CandidateReview
The handlers of `candidate_review.go`, the generic publication, the reviewer's messages and
`POST /v1/run-observations`, one step for each store call, because a handler is not a transaction:
what it read may be old when it writes. `head`, `rows`, `bound`, `policies`, `replays`,
`reviews`, `pubs`, `observed` and `fed` are tables of `registry.go`; `reqs` the requests in
flight; `pointer` the candidate the extension remembers. One number names the map revision,
the list revision made from it, its digest and the only binding it can have.

What the model shows and no property claims: the pointer is whatever answer came last, not
the newest candidate; a later denial does not withdraw an earlier allowed policy; quarantine
by runtime feedback leaves the published list in place; a crash between the feedback
transaction and the insertion leaves a head without a candidate until the observation is
posted again; ambient policies carry the scope `learn` only, so that publication needs an
external policy for execution. A replay report exists only for bound revisions, so that the
generic route, which refuses bound ones, publishes nothing here.

### ActionMap, PatchGate, ListGate, StepRuntime and LearnedMap
The learning loop with its data. `ActionMap` is the map of one scope, what the JSON decoder leaves
of an action (`Decoded`), and the validation of a map (`Map.Validate`). The other three are pure operators, each a gate or an interpreter:

- `PatchGate`: what stands between an answer of the AI and the map. `ParserAccepts` is
  MaterializePatch, which sees the layer's nodes and the compact context; `StoreAccepts` is
  validateApplicationInput and applyPatch, which see the evidence of the head. `Patched`,
  `Merged` and `NextMeta` are what the store writes.
- `ListGate`: `Projection` is CompileAmbientCandidate with compiler.go; `ListValid` is
  ActionList.Validate; `Projectable` says that the projection returns a list.
- `StepRuntime`: `Resolve`, `Condition`, `Detected`, `ExtractCode`, `StepResults` are the
  functions of `actor/runtime.js` on a page. executeStep sees one page when it operates and one at
  each poll, and may be interrupted between them.

`LearnedMap` composes them: `Learn` (an answer through both gates becomes the next
revision, which is projected to a candidate), `Skip`, `Publish`, `Start` and `Step` (a run of
the published list on pages that have changed since), `Feedback`
(ApplyRunObservationFeedback: health, quarantine, repaired locators, evidence, provenance).
A run keeps the list it started with while the head and the published list move on; that
distance is what the properties are about.

*Abstractions.* A locator is the element it describes and the kinds of its fields; a URL
pattern is the place it matches and the dialects (RE2, JavaScript) that compile it; a node
of a layer is the element it shows; a page says of each element whether it is absent,
hidden, shown, blank, restyled (found by CSS only) or there twice. Identifiers stand for what digests
bind. Confidence, wording, categories, the privacy scan, text sizes and the rest of
the JSON decoding are left out, as is the lineage of composed actions. One layer is learned at a time, on the revision it was
asked for; conflicts and lost answers are AmbientDelivery's.

What the model shows and no property claims:
- An accepted map need not project: a press without a usable target or with a key outside
  the twelve, an extract without an output, an expectation with nothing to check, a pattern RE2
  refuses. compilerDiagnostics looks at unresolved actions too. The delivery then answers 503, which
  the extension treats as retryable. So does a first layer that changes nothing, because the empty
  map does not project.
- Two output fields of one name (or a state label over 200 bytes) pass both gates, and
  validateCompactContext then refuses every later request of the scope. `GatesAgree` names this
  case and all others in which the gates differ: a literal value, prior evidence under a wrong layer, a
  handle of a verified action that is no verification, an extract step that is not the one the output
  is read at, and a state whose provenance is unknown or moves backward (the parser asks about
  the provenance of actions only).
- There is no deletion: a map at its limit takes no new entity. An upsert of a verified action
  is refused even when it only repeats it, though ambient-learning.md:323 lets an answer
  preserve `verified`. A citation of a verification record as prior_context replaces the
  record's source.
- The ambient path never compares the declared safety with what was observed (only the
  semanticizer of recorded traces does). A collection's minimum is 0 and so always true.
- POSTCONDITION_FAILED may be reported of a step whose operation never ran, and
  TARGET_AMBIGUOUS of one that has run (by a poll). Of two states with one pattern the first
  shadows the second. A pattern that only RE2 compiles makes detection throw; in the entry
  state it throws in the coordinator and the run waits for its deadline.

## 3. What the runs check

The instance names in the cfgs are runs pinned to the actions of `MCPlan`: `s1` navigate
then extract (safe); `n1` two effects, the second confirmed; `c1` navigate, then a
confirmed effect; `u1` one unsafe effect; `e1` one safe extraction; `c2` one confirmed
unsafe effect; `b1` an effect confirmed before the run; `p2` two unsafe effects.

| Run | Question | Properties | Answer |
|---|---|---|---|
| `steps` | two-step actions, every interleaving of the tasks, two documents, three actor events | `ConfirmedBeforeStep`, `SuccessNeedsEvidence`, `MovesAreLegal` | hold |
| `faults` | one suspension, disconnection or closed tab at any moment | `TypeOK`, `DispatchIsDurable`, `UnsafeSentNotReposted` | hold |
| `liveness` | fair scheduling, one fault, an actor that may do nothing; two runs in one recovery | `Settles`, `OutcomeIsHeard` | hold |
| `confirm` | an action confirmed before its run never dispatches unapproved | `ConfirmedBeforeRun` | violated |
| `twice` | two suspensions: an unsafe command is posted at most once | `UnsafeStepPostedOnce` | violated |
| `layers` | two documents, three deliveries, and one disturbance at any moment | `TypeOK`, `LayerAccountedFor`, `CandidateToldIsBound`, `ImplementsLog` | hold |
| `calls` | two calls, ports that drop twice, cancellations, replays and stop | `TypeOK`, `CancelNotLost`, `ForgottenIsAnswered`, `ImplementsInvocation`, `Answered` | hold |
| `tools` | two routes, two generations of lists, failing discoveries and registrations | `OvertakenIsPending`, `NoListRegression`, `RouteToolsOffered` | hold |
| `actor` | one run over two documents, a lost port, rebinding, redelivery | `TypeOK`, `UnsafePerformedOnce`, `TakenStepsWerePerformed`, `OnlyActiveActs`, `PageWaitEnds` | hold |
| `capture` | two overlapping starts, two observations each, a request that fails | `CausalOrder`, `NumbersIncrease`, `NothingPassedOver`, `CompletedIsTaken` | hold |
| `review` | two handlers at once, layers and observations that move the head, crashes | `TypeOK`, `PublishedIsReviewed`, `PointerIsBound`, `PublishedOnHead`, `BoundOnlyThroughReview`, `FeedbackOnce` | hold |
| `maps` | right and wrong answers, two revisions, runs of an older list, reports | `HeadIsSound`, `GatesAgree`, `OnlyKnownPlanDefects`, `VerifiedIsFrozen`, `FeedbackNeverRedirects` | hold |

Kept beside the runs, each the counterexample of one statement of the repository or a
larger instance, checked by hand with `tlc -config`:

| Configuration | Question | Answer |
|---|---|---|
| `MCRunCoordinator_immutable.cfg` | "Terminal run state is immutable" | violated |
| `MCRunCoordinator_stranded.cfg` | a quiet worker leaves no run in dispatching_step | violated |
| `MCRunCoordinator_abandoned.cfg` | every accepted run ends, also when recovery throws for another one | violated |
| `MCRunCoordinator_tabs.cfg` | active runs never share an execution tab | violated |
| `MCRunCoordinator_attest.cfg` | the page event that attests a confirmed page does not fail the run | violated |
| `MCAmbientDelivery_later.cfg` | every later layer of a scope carries its observation | violated |
| `MCAmbientDelivery_decided.cfg` | three layers, four deliveries, two time stamps, no disturbance; `LayerDecidedOnce` | holds |
| `MCSourceBridge_budget.cfg` | a call fails for transport only when a port could not be opened | violated |
| `MCToolRegistration_stale.cfg` | a page whose last application has finished offers nothing that its lists do not | violated |
| `MCActorBridge_rebound.cfg` | what the actor reports is newer than what was accepted | violated |
| `MCActorBridge_refused.cfg` | a completion of the pending command, in order, ends the wait for it | violated |
| `MCLearnedMap_verified.cfg` | what the map calls verified has been run | violated |
| `MCLearnedMap_repair.cfg` | a fallback that worked repairs the locator of the map | violated |
| `MCLearnedMap_evidenced.cfg` | a target that changes is bound to a node of the layer it was learned from | violated |

**Bounds.** `MaxRuns` is the number of requests. Runs share the tabs, the queue of writes and
the loop of recover(): `MCRunCoordinator_tabs.cfg` and `liveness` have 2. It is 1 where the property is about
the record of one run (`steps`, `faults`, `twice`); the theorems hold for any number. Where `Runs` has several
members and `MaxRuns` is 1, TLC explores each action in turn. `MaxDocs` is the number of documents a tab may load: 2 where a page
must be replaced under a confirmation or a navigation. `MaxEvents` bounds actor events: a page, a completion and
the next page need 3; a confirmed step needs a page to ask and one to attest.
`MaxFaults` is 0 in `steps` and 1 in `faults` and `liveness`, which keeps every interleaving of the tasks
around the fault; `twice` has 2, and with them a run differs: recovery is itself interrupted.
`UnsafeSentNotReposted` was checked with two faults as well (2.2 million states); the theorems
of section 4 hold for every value of all bounds.

**Bounds of `layers`.** Two tabs share the spool and the scope; `MaxSeq` 2 gives a first and a
later layer, two sessions allow a browser restart. A behaviour has two deliveries and one
*disturbance* (`FewDisturbances`): a navigation, a decision of the user, a failure, or a third
delivery, which is a retry or a concurrent second document. So each disturbance meets every
interleaving of two deliveries and a run's report; for two disturbances at once there are the
theorems of section 4, which bound nothing. A delivery may reparse once after a conflict, as
`MaxConflictRetries` says. There is one scope: scopes share the spool, the worker and nothing
else, and the theorems hold for any number of them.

**Bounds of `liveness`.** recover() is one loop without a `try` (`run-coordinator.js:1583-1684`): what it throws for
one run keeps it from all later ones, whose deadlines only it would arm (`:1607`). In the model `Throw`
gives up (`given_up`) the runs the loop has not come to, `Settles` excepts them, and `NoRunIsLost`, without the
exception, is refuted by `abandoned`. So the run has two requests, under the constraint
`Recoveries`: while there is one run, every interleaving and every fault is followed, as without the constraint;
once both are requested, one of them works at a time until the worker is suspended, no tab has a document, and the
timers and sources that the loop leaves alone wait until it is over. What two runs do to each other outside
recovery goes through tabs (`tabs`). The instance throws at a rejecting `tabs.create`; the other exception, for a
run in `dispatching_step` without a command (`:1162`, see `stranded`), needs a two-step action
and is the same `Throw`.

**Bounds of `calls`.** Two calls, so that one can be withdrawn while the other goes on; two lost
ports and one reconnection attempt, so that a second loss both follows a recovery and finds
the attempts used up. **`tools`**: two URLs, two catalogues of which the second replaces a list
under a new digest, withdraws a policy and lets two tools share a name; three tools on one URL, so that a
removal leaves some; two discoveries in
flight, two navigations or pagehides, two failures, one retry. **`actor`**: a plan that
navigates and then performs a confirmed operation that may not be repeated, and one safe
operation; two documents and one lost port reach each order of binding, report and
replacement. **`capture`**: two starts, because only a pair overtakes; two observations, because order
needs two. **`review`**: two handlers, because every race here is of two; three revisions, so
that one is published, one under review and one arrives; one run, observed any number of
times. Handlers are symmetric.

**Bounds of `maps`.** One action id, because gates, reports and repairs treat actions one by
one and what matters is which version an id stands for; two states and two elements; two
layers, so that a run of the first revision is reported after the second; two runs; quarantine
after one hit instead of three. The answers are drawn from eight drafts (`click` and its
`drift` to another element, `narrow` without the CSS fallback, an `optional` parameter, an `odd` key, a
`literal` value, a `list`, and `reread`, which extracts twice), each with evidence that is `fresh`, `seen` to have an effect,
`recall`ed from the earlier layer, or `mislaid` under a layer that does not exist (and with states
called observed or inferred), and with a pattern both dialects or only RE2 compile. Six pages show the element shown, restyled, hidden, blank, twice or
outside the allowed origin. `verified`, `repair` and `evidenced` use more drafts.

The systems stop when the bounds are used up, so deadlock is not checked.

**Reopened runs.** The `immutable` finding lets a stale copy overwrite a terminal record. What follows is
a consequence of that one bug; `steps`, `faults`, `twice` and `liveness` do not follow it
(`NotReopened`), and `UnsafeSentNotReposted` and `UnsafeStepPostedOnce` ask for `fate = "open"`. For
`Settles` and `OutcomeIsHeard` that loses nothing about the reopened run, which has ended once and which they except;
the theorems hold with it.

**Confirmed steps.** Because of the `attest` finding a confirmed step after a navigation (`c1`) is never
dispatched. `n1` and `c2` are the actions that reach a confirmed dispatch, so that
`ConfirmedBeforeStep` is not vacuous.

**Deadlock** is not checked: with requests, events and faults bounded, and all runs
ended, the system may stop. That it does not stop too early is what `Settles` says, except of
the runs that recovery gave up, which do stop too early (`abandoned`).

**Fairness** (`FairSpec`). `WF(Working(r, c))`: promises of storage, tabs and HTTP
resolve. `WF(WorkerStart)`: Chrome starts a suspended worker when a port connects or an
event is due. `SF(FireTimer /\ due')`: deadlines live in memory and are armed again by
recovery and by every dispatch, so the timer is enabled again and again and time brings the deadline. `WF(SourceBind)`: a source
document that stays open reconnects. Nothing is asked of the actor, the user, or a tab.

`SourceBridge!FairSpec`: the page and the worker take what has arrived, a timer that is set
fires, and a run is accepted or ends. The last is what `Settles` gives for every run but those that
recovery gave up: `Answered` is relative to it, and the call of such a run stays pending. The agent, the user and the fate
of the port are not fair. `ToolRegistration!FairSpec`: the worker answers or refuses each discovery, the
browser settles each `registerTool`, timers and navigation events are handled; failures stay possible, and
are bounded. `ActorBridge!FairSpec`: detection of a page ends (it has a timeout), a lost port
is opened again, the worker handles what comes, a run opens its tab; nothing is asked of an execution, the
user or the page. `AmbientCapture!FairSpec`: each await of a start or a flush is answered or fails, and
the 30 s timer of an observation fires; completing an observation is not fair. `Answered`, `RouteToolsOffered`,
`PageWaitEnds` and `CompletedIsTaken` are the liveness properties under them.

### Findings
- `immutable` (beside): `openExecutionTab` (`run-coordinator.js:731`) writes `waiting_for_page` from a
  copy taken before `storage.list`, `findReusable` and `tabs.create`; a cancel, a source
  disconnection or a deadline handled in the run queue meanwhile has ended the run, and the write reopens it.
- `confirm`: `recover` (`:1623`) opens the tab of a run stored as `policy_checked` without
  looking at `safety.confirmation`; a worker suspended between `:689` and `:1382` skips the approval of a
  `before_run` action.
- `twice`: `recover` dispatches a run stored as `dispatching_step` outside the run queue (`:1660`).
  The worker that was suspended before the dispatch comes back, the actor binds again, and its `page.ready`
  is handled in the run queue with a copy loaded before the dispatch (`receiveActorEvent`, `:983`);
  `acceptAndPersistEvent` (`:1007`) saves that copy after recovery has saved the dispatch and posted the
  command. The disk says `dispatching_step` again, and a second suspension makes recovery post the unsafe
  command once more ("never automatically replayed after an uncertain result",
  `contracts/README.md:66`). `UnsafeSentNotReposted` is what holds: while the disk says that it was sent,
  nothing is posted.
- `stranded` (beside): `completePendingStep` (`:1287`) saves the next status and the next command in two
  writes; suspended in between, recovery throws in `dispatchPreparedStep` (`:1162`) and gives up
  the remaining runs as well (`abandoned`). The deadline of the run is what ends it.
- `abandoned` (beside): recover() has no `try` in its loop (`run-coordinator.js:1583-1684`). When it throws for
  one run (`:1162`, or a `tabs.create` that rejects, `:730`), the later ones are neither recovered nor given a
  deadline (`:1607`), and a run that waits for its actor then waits for ever, or until the worker is started again
  ("Service-worker suspension must not lose the run", `system-contract.md:64`).
- `stale` (beside): `unregisterAll` (`source/bootstrap.js:546`) and `applyActionLists` (`:574-576`) pass
  `removeRegistration` (`:534`) to `forEach`, whose index becomes `expectedController`; every registration but the
  first is kept. A page with two tools that changes its route, or whose policy is withdrawn, goes on
  offering the second ("a policy decision other than current, explicit `allowed` prevents tool registration",
  `system-contract.md:68`). The tests that ask for it (`bootstrap.test.js:352` and `:517`) have one tool.
- `tabs` (beside): two requests that look for a reusable tab at the same time choose the same one (`:719`).
- `attest` (beside): `handlePageReady` completes a navigation with an effect without a page
  revision; the confirmation of the next step binds to `undefined` (`:1241`) and the comparison
  at `:1059` fails the approved run.
- `later` (beside): `start` (`ambient-capture.js:489`) appends an initial layer for every document under
  the next number of the scope; without an observation carried over a navigation (a second
  tab, a typed address, a capture allowed again) it has a later number and no observation.
  The contract (`ambient-learning.md:105`) excludes it, `request.go:148` refuses it with 422,
  which `deliverAmbientLayer` throws as retryable.
- `verified` (beside): `ApplyRunObservationFeedback` (`runtime_feedback.go:111`) looks the observed action
  up by its id in the current head. A run of the published list that completes after a layer has
  changed the action marks the changed action `verified`, and from then on no answer can change
  it (`VerifiedIsFrozen`). `ambient-learning.md:320-327` says that a run verifies the exact
  version and that verification does not transfer. `FeedbackNeverRedirects` shows the safe half:
  the report does not change what the action does.
- `budget` (beside): two port losses with a successful reconnection between them use up
  `maxReconnectAttempts` (`source/bootstrap.js:398-409`); the call fails although the port could be opened.
- `rebound` (beside): binding an actor again takes its sequence back to what the coordinator
  had stored (`actor/bootstrap.js:177`); the next report has a number the coordinator has
  accepted, `acceptEvent` throws, and the run times out although its step completed.
- `refused` (beside): `validateInboundMessage` (`run-coordinator.js:290`) takes `step.completed` with
  exactly the keys commandId, effect, result, stepId and stepIndex. The actor adds
  `locatorStrategyIndex` and `matchCount` (`actor/runtime.js:649-652`), which
  `run-message.schema.json:361-373` requires. Every completion of the shipped actor is dropped
  before `receiveActorEvent`; only steps that end in a navigation advance, and the others time out.
- `repair` (beside): `locatorMatchesPublished` (`runtime_feedback.go:337`) compares the whole
  locator of the map with a locator made from *one* strategy, so a list compiled from a locator with several
  kinds of evidence never matches its own source; "a successful fallback strategy repairs the map
  selector" (`system-contract.md:770`) happens only if the head was narrowed in between.
- `evidenced` (beside): an action whose locator changes needs some binding to the current
  layer, and an effect is enough; a target bound to an earlier layer is then never compared
  with a node ("locators are supported and evidence-backed", `system-contract.md:728`).

Other differences met on the way, in the models where noted above and without a
configuration: a redelivered safe command is executed again in the same document; an actor is
never told that its run was cancelled; `appendLayer` that throws ends `captureWork` for the
document (`ambient-learning.md:98` asks for the next layer), and a completed observation may expire while
the chain is busy; two starts may leave two observers attached (`OneObserver`); the
observation sink of the ready runtime sends no `X-WebMCP-Internal` header; a candidate replay runs write and danger
actions without confirmation and, on a timeout, lets its run go on while the next replay starts.

## 4. What is proved

`RunCoordinatorProofs` proves, for every set of runs and tabs, every plan that satisfies
`PlanAssumption` and every bound:

- `Typing == Spec => []TypeOK`. One lemma per operator that builds a record or a task step
  (`IssueType`, `CommitType`, `DispatchType`, …), one per group of actions, joined by
  `TypeStep`.
- `DurableDispatch == Spec => []DispatchIsDurable`: no command reaches an actor before a
  record that carries it as dispatched has been committed.

`DispatchIsDurable` is not inductive: it speaks of `posted` and `durable` only, and a post
in the next step takes its command from a task's copy. The strengthening

    DispatchInv == TypeOK /\ DispatchIsDurable /\ StoreSound /\ CopiesSound

adds what the records owe. `StoreSound`: a stored record that waits for the effect of a
command carries it as dispatched (`sent`), and a stored command that is `sent` is in
`durable`. `CopiesSound`: the same of every copy's status, and, by the await a task stands
at, that it holds the record the code behind the await needs (at `prepared` a command not
yet sent in a dispatching status, at `dispatched` a sent one). The step is then one lemma per group of
actions. The assumptions are those on the constants (`PlanAssumption`, `DomainAssumption`,
`BoundAssumption`), which every run evaluates.

`AmbientDeliveryProofs` proves of `AmbientDelivery`, for every set of tabs, scopes, patches,
runs and time stamps and for every bound:

- `DeliveryTyping == Spec => []TypeOK`. `TypeOK` is not inductive: a loop that sends needs a
  layer and a delivery that writes needs one, which its fields may lack elsewhere. `Flight`
  says where they have it; `TypeInv == TypeOK /\ Flight`.
- `StoreImplementsLog == Spec => ImplementsLog`, the refinement of `LayerLog` under `LogOf`.
  `RecordLog` shows that a decision on any input, whatever head it was computed on, appends the
  successor of the head, passes, or changes nothing; the other steps leave the log alone.
- `NoLayerLost == Spec => []LayerAccountedFor`. A record is deleted on the word of a message,
  by number, so the invariant has to say what the word is worth:

      AccountInv == TypeInv /\ Numbered /\ CallsDecided /\ LoopsDecided /\ LayerAccountedFor

  `Numbered`: the layers held in spool, drafts and loops have their number to themselves and
  are of this session (a restart empties all three together with the counter).
  `CallsDecided` and `LoopsDecided`: a delivery past the store's decision, and a loop with a
  good receipt, have a stored receipt that accepts their layer, and a loop that waits does so
  for a delivery of its own layer. Receipts are never lost (`AcceptedGrow`).
- `DecidedOnce == Spec => []LayerDecidedOnce`, with the strengthening that no accepted layer
  is beyond the last one of its scope (`BehindLast`). TLC checks it on
  `MCAmbientDelivery_decided.cfg`.
- `ToldIsBound == Spec => []CandidateToldIsBound`. The strengthening follows the revision of a
  delivery (`Known`): it is one of the map's when the patch has been applied or found applied,
  a candidate's and not 0 at the insertion, and bound before the answer; the revisions of
  receipts are the map's too (`ReceiptsBelow`). Maps, candidates and bindings only grow
  (`GrowsStep`), so what a delivery knows stays true while others run.

The assumptions are `StoreAssumption` and `DeliveryAssumption`.

`CandidateReviewProofs` proves of `CandidateReview`, for every set of requests and digests and
for every bound, its type invariant (`ReviewTyping`) and all its properties:

- `OnlyReviewedPublished == Spec => []PublishedIsReviewed`, `BoundPointer ==
  Spec => []PointerIsBound`, `PublishedAtHead == Spec => [][PublishedOnHead]_vars`,
  `GenericPublishesNothing == Spec => [][BoundOnlyThroughReview]_vars` and
  `FeedbackCountedOnce == Spec => [][FeedbackOnce]_vars`.

A handler writes on the strength of rows it read before other handlers ran. The invariant is

    ReviewInv == Tables /\ Records /\ Publications /\ Handling

where `Handling` says, for each stage a request can stand at, what it may rely on (`Sound`):
what it has read is still a row, and what it has checked is still true of that row. Rows are
only added (`Grows`), so a step of one request keeps what the others rely on (`StaysSound`).
A generic publication that got past its gate has no replay to show, which is why it binds
nothing. The newest row of a table exists by well-founded induction (`MaxExists`, `Newest`).
The assumption is `ReviewAssumption`.

The second half of `RunCoordinatorProofs` is about what a run may do, for the same constants:

- `StepConfirmed == Spec => []ConfirmedBeforeStep`, `EvidencedSuccess ==
  Spec => []SuccessNeedsEvidence` and `LegalMovesOnly == Spec => MovesAreLegal`.

Five kinds of task write one record back whole, so every argument is about copies. The
proof is in two halves. `ShapeStep` reduces all actions to what a step may do to *one* task
`<<r, c>>` with label `l` and copy `R` over the stored `S` (`Acts`: it rests, continues,
loads, moves, …), and to what happens to the store, the events, the commands and the history
around it (`Shape`). Each part of the invariant

    RunInv == DispatchInv /\ Asleep /\ PlacedInv
              /\ ConfInv /\ ConfirmedBeforeStep
              /\ OrdersInv /\ EvInv /\ SuccessNeedsEvidence

is then checked against these ways, once each. `PlacedInv`: at each label a copy has the
statuses, the step and the context that the code behind that await relies on. `ConfInv`: an approval in
a copy, or an event about to be taken for one, is backed by what the user and the page did.
`OrdersInv`: a command number is given out once, for one step. `EvInv`: a copy that has
advanced beyond a step owes it to an actor's evidence, and so does the report in hand.
`UnsafeSentNotReposted` needs the same of the copies that still call for a dispatch; it is model-checked.

`SourceBridgeProofs` proves of `SourceBridge`, for any finite set of requests and every bound:
`BridgeTypes == Spec => []TypeOK`, `CancelKept == Spec => []CancelNotLost`,
`AnsweredFirst == Spec => []ForgottenIsAnswered` and
`BridgeInvocation == Spec => ImplementsInvocation`, the refinement of `Invocation`. As every
handler is an operator from a bridge to a bridge, there is one lemma for each operator that says what
it keeps (`BridgeOK`) and that the promises only move on (`Onward`): it composes as the handlers do.

    BridgeInv == BridgeOK(bridge) /\ Carried(bridge, bridge.outbox) /\ Served(bridge.promise, run) /\ …

`Carried`: what the bridge waits for is in its outbox, the request of a run it does not know and the
cancellation of one it does.
`Earned` and `Told` type the messages by what they claim: an acknowledgement on the wire is of an answered call, a
terminal message on the wire is the outcome of its own run. `Served`: a run the coordinator
forgets has a settled call.

`ToolRegistrationProofs`: `NothingOvertakenOffered == Spec => []OvertakenIsPending` and
`ListsNeverRegress == Spec => NoListRegression`, with the type invariant, from

    RegistrationInv == TypeOK /\ InFlightOK /\ TaskOK /\ Unique(tools) /\ OvertakenIsPending

`OvertakenIsPending` says what overtaking adds, not that removals are complete, which they are not (`stale`): a
tool the current lists do not offer is one a removal has left (`left`) or is still awaited. `Unique`: a key is
registered once, so that removing it (`Removed`, which finds its place by well-founded induction) removes it.
`InFlightOK` bounds the lists applied last by the version of everything in flight that still has the
page's generation; `TaskOK` says that an application that is still current registers only
what these lists offer. Why an overtaken application does no harm is then a fact about generations only.

`ActorBridgeProofs`: `ActorTypes == Spec => []TypeOK`, `PerformedOnce == Spec =>
[]UnsafePerformedOnce`, `TakenWerePerformed == Spec => []TakenStepsWerePerformed` and
`ActiveActs == Spec => OnlyActiveActs`, for any plans, documents and lost ports, from

    ActorInv == Types /\ RunOK(run) /\ MessagesOK /\ ExecsOK /\ OnceOK /\ TakenStepsWerePerformed

A coordinator handler is a move of the record (`Advance`), an actor handler one of the bridge, and both share
the wires. `ExecsOK`: a document has at most one execution, the active one. `MessagesOK`: who reports a
completion has performed the step. `OnceOK`: the command of a step that may not be repeated is
in one place at a time, on the wire, in an execution not yet operating, or performed; nowhere
before the run has come to the step. That `run-coordinator.js` can post it twice (`twice`) is not in
this model, whose handlers save in one step; the theorem is about the ports, documents and bindings.

`AmbientCaptureProofs`: `LayersInOrder == Spec => []CausalOrder`, `NumbersInOrder ==
Spec => []NumbersIncrease`, `NoneSkipped == Spec => []NothingPassedOver` and the type
invariant, for any number of starts and observations, from

    CaptureInv == Types /\ StartsOK /\ ObservationsOK /\ JobOK /\ LastOK /\ NumbersOK
                  /\ CausalOrder /\ NumbersIncrease

`LastOK`: a start knows the number of its last spooled layer unless an append failed, and waits
for a later observation. `NumbersOK`: a number drawn by the *active* start is above all that
is spooled; an overtaken start may hold a lower one, which its guard keeps from being spooled.

`LearnedMapProofs` proves all five properties of `LearnedMap`, for any site, any answers of the AI,
any layers, pages and runs:

- `HeadSound == Spec => []HeadIsSound`, `StoreFollowsParser == Spec => []GatesAgree`,
  `PlansExecutable == Spec => []OnlyKnownPlanDefects`, `VerifiedStays == Spec => VerifiedIsFrozen`
  and `ReportsKeepMeaning == Spec => FeedbackNeverRedirects`.

The invariant joins the three places that learn of each other late:

    LoopInv == HeadInv /\ ListsInv /\ RunsInv

`HeadInv`: the map and its metadata have the same entities, each handle has its record
(`MergedKeeps`: a merge forgets no handle), and every action is what the decoder leaves of one.
`ListsInv`: a stored list is the projection of such a map that the gates let through (`Listed`).
`RunsInv`: a run carries such a list and the arguments its action requires. From `Listed` follows what the
page may rely on (`ListedPlan`: `PlanSound`), and from that, function by function, what
executeStep can answer (`ResolveCode`, `ConditionCode`, `OperatedCode`, `ResultSound`). The report of a
run leaves each step as it was or describes the same element in another way (`Redescribed`), because
locatorMatchesPublished asks for a locator of the element that was planned; so `Meaning` stays.
The attempt to prove `GatesAgree` showed that it was false: the drafts had tried neither an answer with two
extract steps, nor one that takes the provenance of a state back; both are in the runs now and named in
`LayerGapOnly`.

The assumptions are those on the constants (`BridgeAssumption`, `RegistrationAssumption`,
`ActorAssumption`, `CaptureAssumption`, `NamesAssumption`).

Only model-checked: `UnsafeSentNotReposted` (below), and the liveness properties (`Settles`,
`OutcomeIsHeard`, `Answered`, `RouteToolsOffered`, `PageWaitEnds`, `CompletedIsTaken`):
liveness is beyond the prover.

## 5. Not modelled, and what is left

Not modelled, for these reasons:

- **Candidate replay coordinator** (`candidate-replay.js`): its server half, the reports and
  what they allow, is in CandidateReview. The extension's half, one run in memory that a stopped
  worker forgets, is the next protocol worth a module.
- **Ready runtime's clients** (`ready-runtime.js`): digests and the normalisation of answers;
  their outcome is the nondeterministic resolution and policy of RunCoordinator, and their lists
  those of ToolRegistration.
- **Retry spool's storage** (`retry-spool.js`): encryption and expiry by time; its records
  and their order are in AmbientDelivery.
- **Recorder session** (`session.js`, `recorder-core.js`), trace and semanticizer: the older
  way to learn from an explicit recording; a sequential reduction of events. Only
  the compiler's projection, which the ambient path shares, is modelled.
- **Semantic projection, privacy filter, sanitizer**: functions of strings and of the DOM.
- **Legacy runner, review UI, popup**: rendering and one-shot commands.
- **HTTP layer, configuration, rate limits**: decoding and I/O.
- **`workspace/`**: archived experiments, and a script that extracts a page's interface; nothing
  of the extension or the server calls them.

Left, in this order:

1. `UnsafeSentNotReposted`: a copy that calls for a dispatch of an unsafe command must be shown
   older than the record it would overwrite (per label, as in `PlacedInv`).
2. `CandidateReplay`, composed with CandidateReview.
