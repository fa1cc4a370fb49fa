--------------------------- MODULE AmbientDelivery ---------------------------
(***************************************************************************)
(* Ambient learning from a page to the action map:                         *)
(*   extension/learning/ambient-runtime.js and ambient-capture.js in each  *)
(*     document: capture, layer sequence numbers and the delivery loop;    *)
(*   extension/coordinator/bootstrap.js in the service worker: policy,     *)
(*     sequence counter, the owner of the spool, the request to the server;*)
(*   extension/learning/retry-spool.js: the spool, one for all documents;  *)
(*   server: processAmbientLayer, Engine.ProcessLayer and the store.       *)
(*                                                                         *)
(* A message from a document to the worker is one step, taken when the     *)
(* worker handles it; the worker handles policy, counter and spool one     *)
(* message at a time (serial).  A delivery is one call of several steps;   *)
(* every database statement or parser request is one of them, and calls    *)
(* of different documents interleave.  A call goes on when the document or *)
(* the worker that waits for it has gone.                                  *)
(***************************************************************************)
EXTENDS ActionMapStore

CONSTANTS
  Tabs,       \* tabs; a tab shows one document at a time
  Stamps,     \* times at which a candidate is compiled, to the second
  MaxDocs,    \* documents loaded (bounds the model)
  MaxCalls,   \* deliveries sent (bounds the model)
  MaxPolicy,  \* revisions of a policy (bounds the model)
  MaxFaults   \* failures, expiries, removals and restarts (bounds the model)

ASSUME DeliveryAssumption ==
  MaxDocs \in Nat /\ MaxCalls \in Nat /\ MaxPolicy \in Nat \ {0} /\ MaxFaults \in Nat

CallIds == 1..MaxCalls

VARIABLES
  tab,       \* the capture of the document in each tab
  loop,      \* its delivery loop (deliveryWork)
  counter,   \* storage.session: nextLayerSequence of each scope
  session,   \* browser sessions so far; storage.session lives for one
  policy,    \* storage.local: the ambient policy of each scope's origin
  notice,    \* storage.onChanged event a document has not handled
  spool,     \* storage.local: the records of the retry spool
  arrivals,  \* records spooled so far (enqueuedAt)
  calls,     \* the deliveries, in the order they were sent
  map,       \* the server's action map of each scope
  learned,   \* runtime_feedback_runs: runs that gave a revision
  lists,     \* action_list_revisions: stamp of the candidate of a map revision
  bound,     \* action_list_candidate_bindings: map revisions with a candidate
  pointer,   \* storage.session: revision of the candidate last heard of
  docs, faults,       \* counters
  enqueued, dropped   \* history: layers spooled; layers expired or removed

clientVars == <<tab, loop, counter, session, policy, notice, pointer, docs>>
spoolVars == <<spool, arrivals, enqueued, dropped>>
serverVars == <<map, learned, lists, bound>>
vars == <<clientVars, spoolVars, serverVars, calls, faults>>

(* capture: "none" before start, "asked" while start awaits the policy,
   "attached", "off" (denied, revoked), "silent" (attached, but its chain of
   appends has thrown).  draft: the layer that has drawn its number. *)
Captures == {"none", "asked", "attached", "off", "silent"}
Tab ==
  [scope   : Scopes,
   capture : Captures,
   carried : BOOLEAN,   \* storage.session holds the observation that led here
   first   : BOOLEAN,   \* no layer has drawn a number yet
   policy  : Nat,       \* revision of the allowed decision, 0 if denied
   draft   : Layer \cup {NoLayer}]
LoopStates == {"idle", "next", "check", "send", "wait", "receipt"}
Outcomes == {"applied", "duplicate", "no_change", "conflict", "rejected", "error", "none"}
Loop == [at : LoopStates, layer : Layer \cup {NoLayer}, call : CallIds \cup {0}, outcome : Outcomes]
Stages == {"free", "load", "parse", "apply", "project", "insert", "bind", "reply", "done"}
Call ==
  [stage : Stages, layer : Layer \cup {NoLayer},
   heard : BOOLEAN,     \* the worker that sent it still waits
   base : Nat, prev : Nat, gen : {0, 1}, answer : Patches \cup {NoChange},
   revision : Nat, stamp : Stamps \cup {0}, outcome : Outcomes]
SpoolRecord == [layer : Layer, state : {"queued", "reparse"}, at : Nat]

Document(s, c, carried) ==
  [scope |-> s, capture |-> c, carried |-> carried, first |-> TRUE, policy |-> 0, draft |-> NoLayer]
IdleLoop == [at |-> "idle", layer |-> NoLayer, call |-> 0, outcome |-> "none"]
FreeCall ==
  [stage |-> "free", layer |-> NoLayer, heard |-> TRUE, base |-> 0, prev |-> 0, gen |-> 0, answer |-> NoChange,
   revision |-> 0, stamp |-> 0, outcome |-> "none"]

Init ==
  /\ \E home \in [Tabs -> Scopes] : tab = [t \in Tabs |-> Document(home[t], "none", FALSE)]
  /\ loop = [t \in Tabs |-> IdleLoop]
  /\ counter = [s \in Scopes |-> 0]
  /\ session = 1
  /\ policy = [s \in Scopes |-> [revision |-> 1, allowed |-> TRUE]]
  /\ notice = [t \in Tabs |-> "none"]
  /\ spool = {}
  /\ arrivals = 0
  /\ calls = [c \in CallIds |-> FreeCall]
  /\ map = [s \in Scopes |-> EmptyScope]
  /\ learned = {}
  /\ lists = [s \in Scopes |-> {}]
  /\ bound = [s \in Scopes |-> {}]
  /\ pointer = [s \in Scopes |-> 0]
  /\ docs = 0
  /\ faults = 0
  /\ enqueued = {}
  /\ dropped = {}

-------------------------------------------------------------------------------
(* Documents: ambient-runtime.js and the capture half of ambient-capture.js. *)

Stopped(d) == [d EXCEPT !.capture = "off", !.draft = NoLayer]
Attached(d) == d.capture \in {"attached", "silent"}
Revoke(d) == IF Attached(d) THEN Stopped(d) ELSE d

(* The tab loads another document; carried says whether an observation that
   caused the navigation was pending in the old one (AMBIENT_PUT_PENDING). *)
Navigate(t, s, carried) ==
  /\ docs < MaxDocs
  /\ carried => tab[t].capture = "attached" /\ ~tab[t].first /\ s = tab[t].scope
  /\ tab' = [tab EXCEPT ![t] = Document(s, "none", carried)]
  /\ loop' = [loop EXCEPT ![t] = IdleLoop]
  /\ notice' = [notice EXCEPT ![t] = "none"]
  /\ docs' = docs + 1
  /\ UNCHANGED <<counter, session, policy, pointer, spoolVars, serverVars, calls, faults>>

(* start(): AMBIENT_CONSUME_PENDING, then AMBIENT_POLICY_CURRENT; the answer
   is on its way. *)
Start(t) ==
  /\ tab[t].capture = "none"
  /\ LET p == policy[tab[t].scope] IN
     tab' = [tab EXCEPT ![t].capture = "asked", ![t].policy = IF p.allowed THEN p.revision ELSE 0]
  /\ UNCHANGED <<loop, counter, session, policy, notice, pointer, docs, spoolVars, serverVars, calls, faults>>

Attach(t) ==
  /\ tab[t].capture = "asked"
  /\ tab' = [tab EXCEPT ![t].capture = IF tab[t].policy > 0 THEN "attached" ELSE "off"]
  /\ UNCHANGED <<loop, counter, session, policy, notice, pointer, docs, spoolVars, serverVars, calls, faults>>

(* appendLayer up to AMBIENT_NEXT_LAYER_SEQUENCE: the initial layer has the
   carried observation or none, every later one has its own. *)
DrawNumber(t) ==
  LET d == tab[t]
      n == counter[d.scope] + 1 IN
  /\ d.capture = "attached" /\ d.draft = NoLayer
  /\ n <= MaxSeq
  /\ counter' = [counter EXCEPT ![d.scope] = n]
  /\ tab' = [tab EXCEPT ![t].first = FALSE,
               ![t].draft = [scope |-> d.scope, session |-> session, seq |-> n,
                             observed |-> IF d.first THEN d.carried ELSE TRUE,
                             policy |-> d.policy]]
  /\ UNCHANGED <<loop, session, policy, notice, pointer, docs, spoolVars, serverVars, calls, faults>>

WakeLoop(l) == IF l.at = "idle" THEN [l EXCEPT !.at = "next"] ELSE l

(* The rest of appendLayer: the spool's enqueue, then requestDelivery. *)
Enqueue(t) ==
  /\ tab[t].capture = "attached" /\ tab[t].draft # NoLayer
  /\ spool' = spool \cup {[layer |-> tab[t].draft, state |-> "queued", at |-> arrivals]}
  /\ arrivals' = arrivals + 1
  /\ enqueued' = enqueued \cup {tab[t].draft}
  /\ tab' = [tab EXCEPT ![t].draft = NoLayer]
  /\ loop' = [loop EXCEPT ![t] = WakeLoop(@)]
  /\ UNCHANGED <<counter, session, policy, notice, pointer, docs, dropped, serverVars, calls, faults>>

(* savePolicy: the user allows or revokes learning on an origin. *)
DecidePolicy(s, allowed) ==
  /\ policy[s].revision < MaxPolicy
  /\ policy' = [policy EXCEPT ![s] = [revision |-> @.revision + 1, allowed |-> allowed]]
  /\ notice' = [t \in Tabs |-> IF tab[t].scope # s THEN notice[t]
                               ELSE IF allowed THEN "allowed" ELSE "revoked"]
  /\ UNCHANGED <<tab, loop, counter, session, pointer, docs, spoolVars, serverVars, calls, faults>>

(* The storage.onChanged listener of a document; on an allowed value it asks
   for the policy again, and starts a capture that is not attached. *)
PolicyEvent(t) ==
  /\ notice[t] # "none"
  /\ notice' = [notice EXCEPT ![t] = "none"]
  /\ LET p == policy[tab[t].scope] IN
     IF notice[t] = "revoked"
     THEN /\ tab' = [tab EXCEPT ![t] = Revoke(@)]
          /\ UNCHANGED loop
     ELSE IF Attached(tab[t])
     THEN IF p.allowed
          THEN loop' = [loop EXCEPT ![t] = WakeLoop(@)] /\ UNCHANGED tab
          ELSE tab' = [tab EXCEPT ![t] = Revoke(@)] /\ UNCHANGED loop
     ELSE /\ tab' = [tab EXCEPT ![t].capture = "asked", ![t].first = TRUE,
                                ![t].carried = @ /\ tab[t].capture # "off",
                                ![t].policy = IF p.allowed THEN p.revision ELSE 0]
          /\ loop' = [loop EXCEPT ![t] = IF p.allowed THEN WakeLoop(@) ELSE @]
  /\ UNCHANGED <<counter, session, policy, pointer, docs, spoolVars, serverVars, calls, faults>>

-------------------------------------------------------------------------------
(* The delivery loop of a document (requestDelivery).                       *)

Queued == {r \in spool : r.state = "queued"}

(* spool.next(): the oldest queued record, whatever document it came from. *)
TakeOldest(t) ==
  /\ loop[t].at = "next"
  /\ IF Queued = {}
     THEN loop' = [loop EXCEPT ![t] = IdleLoop]
     ELSE \E r \in Queued :
            /\ \A other \in Queued : r.at <= other.at
            /\ loop' = [loop EXCEPT ![t].at = "check", ![t].layer = r.layer]
  /\ UNCHANGED <<tab, counter, session, policy, notice, pointer, docs, spoolVars, serverVars, calls, faults>>

(* currentDecision for exactly the revision the layer was captured under; a
   refusal stops the capture of this document. *)
CheckPolicy(t) ==
  LET l == loop[t].layer
      p == policy[l.scope] IN
  /\ loop[t].at = "check"
  /\ IF p.allowed /\ p.revision = l.policy
     THEN loop' = [loop EXCEPT ![t].at = "send"] /\ UNCHANGED tab
     ELSE /\ loop' = [loop EXCEPT ![t] = IdleLoop]
          /\ tab' = [tab EXCEPT ![t] = Revoke(@)]
  /\ UNCHANGED <<counter, session, policy, notice, pointer, docs, spoolVars, serverVars, calls, faults>>

(* markAttempt, then AMBIENT_DELIVER_LAYER: the request leaves the worker. *)
Send(t) ==
  /\ loop[t].at = "send"
  /\ \E c \in CallIds :
       /\ calls[c].stage = "free"
       /\ \A d \in 1..(c - 1) : calls[d].stage # "free"
       /\ calls' = [calls EXCEPT ![c] = [FreeCall EXCEPT !.stage = "load", !.layer = loop[t].layer]]
       /\ loop' = [loop EXCEPT ![t].at = "wait", ![t].call = c]
  /\ UNCHANGED <<tab, counter, session, policy, notice, pointer, docs, spoolVars, serverVars, faults>>

Finished == [FreeCall EXCEPT !.stage = "done"]
Waits(t, c) == loop[t].at = "wait" /\ loop[t].call = c
Delivered == {"applied", "duplicate", "no_change"}

(* deliverAmbientLayer on the server's answer: 409 is a conflict, any other
   failure is thrown; a candidate that comes along is the one to review.  The
   loop of the document that still waits goes on, or ends with the throw. *)
Reply(c) ==
  LET o == calls[c].outcome
      s == calls[c].layer.scope IN
  /\ calls[c].stage = "reply"
  /\ pointer' = [pointer EXCEPT ![s] =
                   IF calls[c].heard /\ o \in {"applied", "duplicate"} THEN calls[c].revision ELSE @]
  /\ loop' = [t \in Tabs |->
       IF ~Waits(t, c) THEN loop[t]
       ELSE IF o \in Delivered \cup {"conflict"} THEN [loop[t] EXCEPT !.at = "receipt", !.call = 0, !.outcome = o]
       ELSE IdleLoop]
  /\ calls' = [calls EXCEPT ![c] = Finished]
  /\ UNCHANGED <<tab, counter, session, policy, notice, docs, spoolVars, serverVars, faults>>

Named(l) == {r \in spool : r.layer.scope = l.scope /\ r.layer.seq = l.seq}

ReceiveOldest(t) ==
  /\ loop[t].at = "receipt"
  /\ spool' = {r \in spool : \E other \in spool : other.at < r.at}
  /\ loop' = [loop EXCEPT ![t] = [IdleLoop EXCEPT !.at = "next"]]
  /\ UNCHANGED <<tab, counter, session, policy, notice, pointer, docs, arrivals, enqueued, dropped,
                 serverVars, calls, faults>>

(* handleReceipt, by layer id; a record that has gone meanwhile is missing. *)
Receive(t) ==
  LET l == loop[t].layer IN
  /\ loop[t].at = "receipt"
  /\ spool' = IF loop[t].outcome \in Delivered
              THEN spool \ Named(l)
              ELSE (spool \ Named(l)) \cup {[r EXCEPT !.state = "reparse"] : r \in Named(l)}
  /\ loop' = [loop EXCEPT ![t] = [IdleLoop EXCEPT !.at = "next"]]
  /\ UNCHANGED <<tab, counter, session, policy, notice, pointer, docs, arrivals, enqueued, dropped,
                 serverVars, calls, faults>>

-------------------------------------------------------------------------------
(* The server: processAmbientLayer.                                         *)

Answered(c, outcome) == [calls EXCEPT ![c].stage = "reply", ![c].outcome = outcome]
RequestOf(k) == [layer |-> k.layer, base |-> k.base, prev |-> k.prev, gen |-> k.gen]
InputOf(k) == [request |-> RequestOf(k), answer |-> k.answer]

(* source.Load reads the head; AssembleParseRequest checks the sequence
   numbers of the layer against it. *)
Load(c) ==
  LET m == map[calls[c].layer.scope]
      k == [calls[c] EXCEPT !.stage = "parse", !.base = HeadRevision(m), !.prev = m.last] IN
  /\ calls[c].stage = "load"
  /\ calls' = IF RequestValid(RequestOf(k)) /\ k.layer.seq > k.prev
              THEN [calls EXCEPT ![c] = k]
              ELSE Answered(c, "rejected")
  /\ UNCHANGED <<clientVars, spoolVars, serverVars, faults>>

(* The parser's answer, or its failure or a patch that ValidateAndMaterialize
   refuses. *)
Parse(c) ==
  /\ calls[c].stage = "parse"
  /\ \/ \E a \in Patches \cup {NoChange} :
          calls' = [calls EXCEPT ![c].stage = "apply", ![c].answer = a]
     \/ calls' = Answered(c, "rejected")
  /\ UNCHANGED <<clientVars, spoolVars, serverVars, faults>>

ContinueDuplicate(c, status, revision) ==
  CASE status = "conflict" /\ calls[c].gen = 0 -> [calls EXCEPT ![c].stage = "load", ![c].gen = 1]
    [] status = "applied" -> [calls EXCEPT ![c].stage = "project", ![c].outcome = status,
                                           ![c].revision = revision]
    [] OTHER -> [Answered(c, status) EXCEPT ![c].revision = revision]

(* What ProcessLayer and processAmbientLayer do with the status of a patch:
   reparse a first conflict, project a map revision, answer the rest. *)
Continue(c, status, revision) ==
  CASE status = "conflict" /\ calls[c].gen = 0 -> [calls EXCEPT ![c].stage = "load", ![c].gen = 1]
    [] status \in {"applied", "duplicate"} -> [calls EXCEPT ![c].stage = "project", ![c].outcome = status,
                                                            ![c].revision = revision]
    [] OTHER -> Answered(c, status)

(* ApplyActionMapPatch, one transaction. *)
Apply(c) ==
  LET s == calls[c].layer.scope
      in == InputOf(calls[c]) IN
  /\ calls[c].stage = "apply"
  /\ \/ \E r \in Receipts(map[s], in) :
          /\ calls' = Continue(c, Repeated(r, in), r.revision)
          /\ UNCHANGED map
     \/ /\ Receipts(map[s], in) = {}
        /\ \E contentOk, ready \in BOOLEAN :
             LET status == Decide(map[s], in, contentOk) IN
             /\ map' = [map EXCEPT ![s] = Record(@, in, status, ready)]
             /\ calls' = Continue(c, status, ResultRevision(map[s], status))
  /\ UNCHANGED <<clientVars, spoolVars, learned, lists, bound, faults>>

(* GetActionMapRevision and CompileAmbientCandidate, whose document carries
   the time; then GetActionListRevision. *)
Stored(s, n) == {e \in lists[s] : e.revision = n}
Project(c) ==
  LET s == calls[c].layer.scope
      n == calls[c].revision IN
  /\ calls[c].stage = "project"
  /\ IF n = 0 \/ ~map[s].revisions[n].ready
     THEN calls' = Answered(c, "error")
     ELSE \E stamp \in Stamps :
            calls' = [calls EXCEPT ![c].stamp = stamp,
                        ![c].stage = IF Stored(s, n) = {} THEN "insert" ELSE "bind"]
  /\ UNCHANGED <<clientVars, spoolVars, serverVars, faults>>

InsertUnbound(c) ==
  LET s == calls[c].layer.scope
      n == calls[c].revision IN
  /\ calls[c].stage = "insert"
  /\ IF Stored(s, n) = {}
     THEN /\ lists' = [lists EXCEPT ![s] = @ \cup {[revision |-> n, stamp |-> calls[c].stamp]}]
          /\ calls' = [calls EXCEPT ![c].stage = "reply"]
     ELSE calls' = Answered(c, "error") /\ UNCHANGED lists
  /\ UNCHANGED <<clientVars, spoolVars, map, learned, bound, faults>>

(* InsertActionListRevision; a candidate of that revision inserted meanwhile
   is a conflict. *)
InsertCandidate(c) ==
  LET s == calls[c].layer.scope
      n == calls[c].revision IN
  /\ calls[c].stage = "insert"
  /\ IF Stored(s, n) = {}
     THEN /\ lists' = [lists EXCEPT ![s] = @ \cup {[revision |-> n, stamp |-> calls[c].stamp]}]
          /\ calls' = [calls EXCEPT ![c].stage = "bind"]
     ELSE calls' = Answered(c, "error") /\ UNCHANGED lists
  /\ UNCHANGED <<clientVars, spoolVars, map, learned, bound, faults>>

(* The stored candidate must have the digest of the one just compiled;
   BindCandidate leaves an equal binding alone. *)
Bind(c) ==
  LET s == calls[c].layer.scope
      n == calls[c].revision IN
  /\ calls[c].stage = "bind"
  /\ IF [revision |-> n, stamp |-> calls[c].stamp] \in lists[s]
     THEN /\ bound' = [bound EXCEPT ![s] = @ \cup {n}]
          /\ calls' = [calls EXCEPT ![c].stage = "reply"]
     ELSE calls' = Answered(c, "error") /\ UNCHANGED bound
  /\ UNCHANGED <<clientVars, spoolVars, map, learned, lists, faults>>

(* recordRunObservation: a run of a published list (a bound candidate) adds a
   revision, once; the candidate of that revision is compiled with the time
   of the revision, so an observation sent again inserts and binds the same. *)
FeedbackStamp == 0
RunRevisions(s) == {n \in 1..HeadRevision(map[s]) : map[s].revisions[n].run \in learned /\ map[s].revisions[n].ready}

Observe(s, run) ==
  /\ bound[s] # {} /\ run \notin learned
  /\ learned' = learned \cup {run}
  /\ \E ready \in BOOLEAN : map' = [map EXCEPT ![s] = LearnFrom(@, run, ready)]
  /\ UNCHANGED <<clientVars, spoolVars, lists, bound, calls, faults>>

InsertObserved(s) ==
  /\ \E n \in RunRevisions(s) :
       /\ Stored(s, n) = {}
       /\ lists' = [lists EXCEPT ![s] = @ \cup {[revision |-> n, stamp |-> FeedbackStamp]}]
  /\ UNCHANGED <<clientVars, spoolVars, map, learned, bound, calls, faults>>

BindObserved(s) ==
  /\ \E n \in RunRevisions(s) \ bound[s] :
       /\ [revision |-> n, stamp |-> FeedbackStamp] \in lists[s]
       /\ bound' = [bound EXCEPT ![s] = @ \cup {n}]
  /\ UNCHANGED <<clientVars, spoolVars, map, learned, lists, calls, faults>>

-------------------------------------------------------------------------------
(* Failures; the retry of a failed delivery is the loop's next run.         *)

Fault == faults < MaxFaults /\ faults' = faults + 1
InFlight == Stages \ {"free", "done"}

(* A request, a statement or a response fails: the delivery has thrown. *)
CallFails(c) ==
  /\ Fault
  /\ calls[c].stage \in InFlight
  /\ calls' = [calls EXCEPT ![c] = Finished]
  /\ loop' = [t \in Tabs |-> IF Waits(t, c) THEN IdleLoop ELSE loop[t]]
  /\ UNCHANGED <<tab, counter, session, policy, notice, pointer, docs, spoolVars, serverVars>>

(* The service worker stops: a document that awaits one of its answers sees
   an error; the server goes on with what it has received. *)
Interrupted(d) ==
  CASE d.capture = "asked" -> [d EXCEPT !.capture = "off"]
    [] d.draft # NoLayer -> [d EXCEPT !.capture = "silent", !.draft = NoLayer]
    [] OTHER -> d

Unheard == [c \in CallIds |-> IF calls[c].stage \in InFlight THEN [calls[c] EXCEPT !.heard = FALSE] ELSE calls[c]]

WorkerStops ==
  /\ Fault
  /\ \E hit \in SUBSET Tabs :
       /\ {t \in Tabs : loop[t].at = "wait"} \subseteq hit
       /\ tab' = [t \in Tabs |-> IF t \in hit THEN Interrupted(tab[t]) ELSE tab[t]]
       /\ loop' = [t \in Tabs |-> IF t \in hit THEN IdleLoop ELSE loop[t]]
  /\ calls' = Unheard
  /\ UNCHANGED <<counter, session, policy, notice, pointer, docs, spoolVars, serverVars>>

Discard(gone) ==
  /\ spool' = spool \ gone
  /\ dropped' = dropped \cup {r.layer : r \in gone}
  /\ UNCHANGED <<arrivals, enqueued>>

(* purgeExpired: a record has been there for its TTL. *)
Expire ==
  /\ Fault
  /\ \E r \in spool : Discard({r})
  /\ UNCHANGED <<clientVars, serverVars, calls>>

(* removeMatching: the user deletes the pending layers of a scope. *)
RemoveMatching(s) ==
  /\ Fault
  /\ \E r \in spool : r.layer.scope = s
  /\ Discard({r \in spool : r.layer.scope = s})
  /\ UNCHANGED <<clientVars, serverVars, calls>>

(* storage.session goes with the browser session, and with it the counters
   and the key of the spool, whose ciphertext is then removed. *)
BrowserRestart ==
  /\ Fault
  /\ session < MaxSessions
  /\ session' = session + 1
  /\ counter' = [s \in Scopes |-> 0]
  /\ pointer' = [s \in Scopes |-> 0]
  /\ tab' = [t \in Tabs |-> Document(tab[t].scope, "none", FALSE)]
  /\ loop' = [t \in Tabs |-> IdleLoop]
  /\ notice' = [t \in Tabs |-> "none"]
  /\ calls' = Unheard
  /\ Discard(spool)
  /\ UNCHANGED <<policy, docs, serverVars>>

-------------------------------------------------------------------------------
InDocument(t) ==
  \/ \E s \in Scopes, carried \in BOOLEAN : Navigate(t, s, carried)
  \/ Start(t) \/ Attach(t) \/ DrawNumber(t) \/ Enqueue(t) \/ PolicyEvent(t)

InLoop(t) == TakeOldest(t) \/ CheckPolicy(t) \/ Send(t) \/ Receive(t)

InServer(c) ==
  Load(c) \/ Parse(c) \/ Apply(c) \/ Project(c) \/ InsertCandidate(c) \/ Bind(c) \/ Reply(c)

Feedback(s) == (\E run \in Runs : Observe(s, run)) \/ InsertObserved(s) \/ BindObserved(s)

Failure ==
  \/ \E c \in CallIds : CallFails(c)
  \/ WorkerStops \/ Expire \/ BrowserRestart
  \/ \E s \in Scopes : RemoveMatching(s)

Next ==
  \/ \E t \in Tabs : InDocument(t) \/ InLoop(t)
  \/ \E c \in CallIds : InServer(c)
  \/ \E s \in Scopes : Feedback(s) \/ \E allowed \in BOOLEAN : DecidePolicy(s, allowed)
  \/ Failure

Spec == Init /\ [][Next]_vars

-------------------------------------------------------------------------------
(* Properties.                                                              *)

ClientOK ==
  /\ tab \in [Tabs -> Tab]
  /\ loop \in [Tabs -> Loop]
  /\ counter \in [Scopes -> 0..MaxSeq]
  /\ session \in 1..MaxSessions
  /\ policy \in [Scopes -> [revision : Nat, allowed : BOOLEAN]]
  /\ notice \in [Tabs -> {"none", "allowed", "revoked"}]
  /\ pointer \in [Scopes -> Nat]
  /\ docs \in Nat
SpoolOK ==
  /\ spool \subseteq SpoolRecord
  /\ arrivals \in Nat
  /\ enqueued \subseteq Layer
  /\ dropped \subseteq Layer
StoreOK ==
  /\ map \in [Scopes -> Scope]
  /\ learned \subseteq Runs
  /\ lists \in [Scopes -> SUBSET [revision : Nat, stamp : Stamps \cup {FeedbackStamp}]]
  /\ bound \in [Scopes -> SUBSET Nat]

(* Every variable keeps its shape: the documents and their delivery loops, the
   spool, the deliveries and the rows of the store. *)
TypeOK == ClientOK /\ SpoolOK /\ StoreOK /\ calls \in [CallIds -> Call] /\ faults \in Nat

AcceptedIn(m) == {r.input.request.layer : r \in {x \in m.receipts : x.status \in Accepted}}
AcceptedLayers == UNION {AcceptedIn(map[s]) : s \in Scopes}

(* No layer is lost on the way: a layer that a document has spooled is still
   in the spool, has a stored receipt that accepts it, or was given up by its
   TTL, its user or the end of the session.  The spool deletes on a receipt
   read from a message; retries, restarts and other documents race with it. *)
LayerAccountedFor ==
  \A l \in enqueued : (\E r \in spool : r.layer = l) \/ l \in AcceptedLayers \/ l \in dropped

(* A layer is decided once: deliveries of it may overlap, repeat one another
   after a lost answer and be computed on different heads of the map, and at
   most one stored receipt accepts it. *)
LayerDecidedOnce ==
  \A s \in Scopes : \A q, r \in map[s].receipts :
    (/\ q.status \in Accepted /\ r.status \in Accepted
     /\ q.input.request.layer = r.input.request.layer) => q = r

(* The extension is only told of a candidate that can be reviewed: its map
   revision exists, it is stored, and it is bound to that revision. *)
CandidateToldIsBound ==
  \A s \in Scopes : pointer[s] # 0 =>
    /\ pointer[s] \in bound[s]
    /\ pointer[s] \in 1..HeadRevision(map[s])
    /\ \E e \in lists[s] : e.revision = pointer[s]

(* Every layer after the first of its scope has the observation that completed
   it (contract, section 3).  Not so: a document that nobody navigated to from
   an observed one, a second tab or a typed address, draws the next number of
   the scope for an initial layer that has none. *)
LaterLayerObserved == \A l \in enqueued : l.seq > 1 => l.observed

(* The action map of a scope as LayerLog sees it. *)
LogEntry(r) == [layer |-> IF r.layer = NoLayer THEN 0 ELSE r.layer.seq, run |-> r.run, base |-> r.base]
LogOf(m) == [n \in 1..HeadRevision(m) |-> LogEntry(m.revisions[n])]
Log ==
  INSTANCE LayerLog WITH
    Numbers <- 1..MaxSeq,
    log <- [s \in Scopes |-> LogOf(map[s])],
    frontier <- [s \in Scopes |-> map[s].last]

(* The rows of the store are the append-only log of LayerLog: a revision is
   computed from the one before it, layers are accepted in the order of their
   numbers and each once, a run gives one revision, whatever deliveries and
   observations interleave and whenever they stop. *)
ImplementsLog == Log!Spec
===============================================================================
