--------------------------- MODULE CandidateReview ---------------------------
(***************************************************************************)
(* The review and publication of the candidates of one ambient scope:      *)
(* the handlers of server/internal/api/candidate_review.go and of          *)
(* POST /v1/run-observations, the store calls they make one after the      *)
(* other, and what the extension keeps of the answers.                     *)
(*                                                                         *)
(* A handler is not a transaction: it reads what its gate needs, then      *)
(* writes, and every store call of registry.go and runtime_feedback.go is  *)
(* one.  Handlers run concurrently, and one that dies between two calls    *)
(* leaves what it had done.                                                *)
(*                                                                         *)
(* The candidate of map revision r is revision r of the scope's list, so   *)
(* one number names the map revision, the list revision, its digest and    *)
(* the only binding it can have; a request that names a wrong digest is    *)
(* refused at its first comparison and is not a step here.                 *)
(***************************************************************************)
EXTENDS Naturals, Sequences, SequencesExt, FiniteSets

CONSTANTS
  Handlers,    \* requests that may be in flight together
  Runs,        \* run identifiers of terminal observations
  MaxRev,      \* bound: map revisions appended
  MaxPolicies, \* bound: policy decisions recorded
  MaxReplays   \* bound: replay reports recorded

ASSUME ReviewAssumption == MaxRev \in Nat \ {0} /\ MaxPolicies \in Nat /\ MaxReplays \in Nat

VARIABLES
  head,      \* action_map_scopes.head_revision
  rows,      \* action_list_revisions of the scope's list
  bound,     \* action_list_candidate_bindings
  policies,  \* policy_decisions, by order of creation
  replays,   \* replay_reports, by order of creation
  reviews,   \* action_list_reviews: the decisions recorded for a revision
  pubs,      \* action_list_publications
  observed,  \* run_observations: the revision a run was observed on
  fed,       \* runtime_feedback_runs: the map revision a run appended
  reqs,      \* the request each handler is working on
  pointer    \* the extension's session record of the candidate, 0 for none

vars == <<head, rows, bound, policies, replays, reviews, pubs, observed, fed, reqs, pointer>>

Revs == 1 .. MaxRev
Unpublished == [policy |-> 0, replay |-> 0]

\* stage: what the handler does next.
Request(kind, stage, rev) ==
  [kind |-> kind, stage |-> stage, rev |-> rev, policy |-> 0, replay |-> 0, run |-> "none"]
Idle == Request("none", "idle", 0)

Answered(h) == reqs' = [reqs EXCEPT ![h] = Idle]
Advance(h, stage) == reqs' = [reqs EXCEPT ![h].stage = stage]

Init ==
  /\ head = 0 /\ rows = {} /\ bound = {}
  /\ policies = <<>> /\ replays = <<>>
  /\ reviews = [r \in Revs |-> {}]
  /\ pubs = [r \in Revs |-> Unpublished]
  /\ observed = [run \in Runs |-> 0]
  /\ fed = [run \in Runs |-> 0]
  /\ reqs = [h \in Handlers |-> Idle]
  /\ pointer = 0

Published(r) == pubs[r] # Unpublished

\* GetCandidateReviewState: a rejection outweighs the publication join.
Status(r) ==
  IF "reject" \in reviews[r] THEN "rejected" ELSE IF Published(r) THEN "published" ELSE "candidate"

\* The newest record of a revision, 0 when it has none.
Newest(records, r) == SelectLastInSeq(records, LAMBDA e : e.rev = r)

-----------------------------------------------------------------------------
(* What the reviewer's popup sends: the candidate it shows is the one the   *)
(* pointer names, and only while the server's head and binding agree.       *)

CurrentReviewCandidate == pointer # 0 /\ pointer = head /\ pointer \in bound /\ Status(pointer) = "candidate"

Evidenced(req) ==
  [req EXCEPT !.policy = Newest(policies, req.rev), !.replay = Newest(replays, req.rev)]

SubmitReview(h, kind) ==
  /\ reqs[h] = Idle /\ CurrentReviewCandidate
  /\ LET req == Request(kind, "gate", pointer) IN
     reqs' = [reqs EXCEPT ![h] = IF kind = "approve" THEN Evidenced(req) ELSE req]
  /\ UNCHANGED <<head, rows, bound, policies, replays, reviews, pubs, observed, fed, pointer>>

\* The report of the replay is posted under the gate this repeats.
StartReplay(h) ==
  /\ reqs[h] = Idle /\ CurrentReviewCandidate
  /\ reqs' = [reqs EXCEPT ![h] = Request("replay", "write", pointer)]
  /\ UNCHANGED <<head, rows, bound, policies, replays, reviews, pubs, observed, fed, pointer>>

\* Any client behind the extension boundary may publish by the generic route,
\* naming the records it knows of.
AskGenericPublish(h) ==
  /\ reqs[h] = Idle
  /\ \E r \in rows :
       reqs' = [reqs EXCEPT ![h] = Evidenced(Request("generic", "gate", r))]
  /\ UNCHANGED <<head, rows, bound, policies, replays, reviews, pubs, observed, fed, pointer>>

-----------------------------------------------------------------------------
(* The gate of each handler; what it read may be stale by the write.        *)

GateOpen(req) ==
  CASE req.kind \in {"policy", "replay", "approve"} ->
         req.rev \in bound /\ Status(req.rev) = "candidate" /\ head = req.rev
    [] req.kind = "reject" -> req.rev \in bound
    [] req.kind = "generic" -> TRUE

Gate(req) ==
  CASE req.kind \in {"policy", "replay", "approve"} ->
         req.rev \in bound /\ Status(req.rev) = "candidate" /\ head = req.rev
    [] req.kind = "reject" -> req.rev \in bound
    [] req.kind = "generic" -> req.rev \notin bound

\* A request for a policy record carries nothing that could be stale, so it
\* is asked for when its gate is passed.
AskPolicy(h) ==
  /\ reqs[h] = Idle
  /\ \E r \in rows :
       /\ Gate(Request("policy", "gate", r))
       /\ reqs' = [reqs EXCEPT ![h] = Request("policy", "write", r)]
  /\ UNCHANGED <<head, rows, bound, policies, replays, reviews, pubs, observed, fed, pointer>>

PassGate(h) ==
  /\ reqs[h].stage = "gate"
  /\ IF Gate(reqs[h]) THEN Advance(h, "write") ELSE Answered(h)
  /\ UNCHANGED <<head, rows, bound, policies, replays, reviews, pubs, observed, fed, pointer>>

\* materializeCandidatePolicy: consent to learn, never to execute.
SavePolicyDecision(h) ==
  /\ reqs[h].stage = "write" /\ reqs[h].kind = "policy" /\ Len(policies) < MaxPolicies
  /\ \E decision \in {"allowed", "denied"} :
       policies' = Append(policies,
         [rev |-> reqs[h].rev, decision |-> decision, execution |-> FALSE, live |-> TRUE])
  /\ Answered(h)
  /\ UNCHANGED <<head, rows, bound, replays, reviews, pubs, observed, fed, pointer>>

\* The separate execution authority, which calls the store directly.
AuthorizeExecution(r) ==
  /\ r \in rows /\ Len(policies) < MaxPolicies
  /\ policies' = Append(policies, [rev |-> r, decision |-> "allowed", execution |-> TRUE, live |-> TRUE])
  /\ UNCHANGED <<head, rows, bound, replays, reviews, pubs, observed, fed, reqs, pointer>>

\* The expiry of any other policy changes nothing that is read here.
PolicyExpires(i) ==
  /\ policies[i].live /\ policies[i].execution
  /\ policies' = [policies EXCEPT ![i].live = FALSE]
  /\ UNCHANGED <<head, rows, bound, replays, reviews, pubs, observed, fed, reqs, pointer>>

\* replayCandidate: sanitizePassedReplay decides between the two statuses.
SaveReplayReport(h) ==
  /\ reqs[h].stage = "write" /\ reqs[h].kind = "replay" /\ Len(replays) < MaxReplays
  /\ \E status \in {"passed", "failed"} :
       replays' = Append(replays, [rev |-> reqs[h].rev, status |-> status])
  /\ Answered(h)
  /\ UNCHANGED <<head, rows, bound, policies, reviews, pubs, observed, fed, pointer>>

\* PublishActionList, one serializable transaction.
PolicyAllows(i, r) ==
  /\ i \in DOMAIN policies /\ policies[i].rev = r
  /\ policies[i].decision = "allowed" /\ policies[i].live /\ policies[i].execution
ReplayPassed(i, r) == i \in DOMAIN replays /\ replays[i] = [rev |-> r, status |-> "passed"]
BindingUnchecked(r) == TRUE

BindingCurrent(r) == r \in bound => head = r

Publishable(req) ==
  /\ reviews[req.rev] = {}
  /\ BindingCurrent(req.rev)
  /\ PolicyAllows(req.policy, req.rev)
  /\ ReplayPassed(req.replay, req.rev)

PublishActionList(h) ==
  LET req == reqs[h] IN
  /\ req.stage = "write" /\ req.kind \in {"approve", "generic"}
  /\ IF Publishable(req)
     THEN /\ reviews' = [reviews EXCEPT ![req.rev] = @ \cup {"approve"}]
          /\ pubs' = [pubs EXCEPT ![req.rev] = [policy |-> req.policy, replay |-> req.replay]]
          /\ IF req.kind = "approve" THEN Advance(h, "approved") ELSE Answered(h)
     ELSE Answered(h) /\ UNCHANGED <<reviews, pubs>>
  /\ UNCHANGED <<head, rows, bound, policies, replays, observed, fed, pointer>>

RejectableOnce(r) == "reject" \notin reviews[r]

\* RecordCandidateRejection, one serializable transaction.
Rejectable(r) == reviews[r] = {} /\ ~Published(r)

RecordCandidateRejection(h) ==
  LET req == reqs[h] IN
  /\ req.stage = "write" /\ req.kind = "reject"
  /\ reviews' = IF Rejectable(req.rev) THEN [reviews EXCEPT ![req.rev] = @ \cup {"reject"}] ELSE reviews
  /\ Answered(h)
  /\ UNCHANGED <<head, rows, bound, policies, replays, pubs, observed, fed, pointer>>

\* SUBMIT_CANDIDATE_REVIEW forgets the candidate once the answer is in.
ForgetCandidate(h) ==
  /\ reqs[h].stage = "approved"
  /\ pointer' = 0
  /\ Answered(h)
  /\ UNCHANGED <<head, rows, bound, policies, replays, reviews, pubs, observed, fed>>

-----------------------------------------------------------------------------
(* New map revisions, and the candidate projected from each.                *)

\* An ambient layer was applied; AmbientDelivery models how.
ApplyLayer(h) ==
  /\ reqs[h] = Idle /\ head < MaxRev
  /\ head' = head + 1
  /\ reqs' = [reqs EXCEPT ![h] = Request("layer", "insert", head + 1)]
  /\ UNCHANGED <<rows, bound, policies, replays, reviews, pubs, observed, fed, pointer>>

\* The extension delivers an applied layer again after a lost answer.
RepeatLayer(h) ==
  /\ reqs[h] = Idle
  /\ \E r \in 1 .. head :
       /\ \A run \in Runs : fed[run] # r
       /\ reqs' = [reqs EXCEPT ![h] = Request("layer", "insert", r)]
  /\ UNCHANGED <<head, rows, bound, policies, replays, reviews, pubs, observed, fed, pointer>>

\* RecordRunObservation: once per run, and only of a published list.
RecordObservation(h, run) ==
  /\ reqs[h] = Idle
  /\ \E r \in Revs :
       /\ Published(r) /\ observed[run] \in {0, r}
       /\ observed' = [observed EXCEPT ![run] = r]
       /\ reqs' = [reqs EXCEPT ![h] = [Request("feedback", "apply", r) EXCEPT !.run = run]]
  /\ UNCHANGED <<head, rows, bound, policies, replays, reviews, pubs, fed, pointer>>

FeedbackAgain(h) ==
  /\ reqs[h].stage = "apply"
  /\ IF reqs[h].rev \in bound
     THEN /\ head < MaxRev
          /\ head' = head + 1
          /\ fed' = [fed EXCEPT ![reqs[h].run] = head + 1]
          /\ reqs' = [reqs EXCEPT ![h].stage = "insert", ![h].rev = head + 1]
     ELSE Answered(h) /\ UNCHANGED <<head, fed>>
  /\ UNCHANGED <<rows, bound, policies, replays, reviews, pubs, observed, pointer>>

\* ApplyRunObservationFeedback: claims the run and appends a revision, or
\* returns the one the run appended before.
ApplyFeedback(h) ==
  LET run == reqs[h].run
      first == fed[run] = 0
      result == IF first THEN head + 1 ELSE fed[run]
  IN
  /\ reqs[h].stage = "apply"
  /\ IF reqs[h].rev \in bound
     THEN /\ result <= MaxRev
          /\ head' = IF first THEN result ELSE head
          /\ fed' = [fed EXCEPT ![run] = result]
          /\ reqs' = [reqs EXCEPT ![h].stage = "insert", ![h].rev = result]
     ELSE Answered(h) /\ UNCHANGED <<head, fed>>
  /\ UNCHANGED <<rows, bound, policies, replays, reviews, pubs, observed, pointer>>

InsertForgotten(h) ==
  /\ reqs[h].stage = "insert"
  /\ Advance(h, "bind")
  /\ UNCHANGED <<head, rows, bound, policies, replays, reviews, pubs, observed, fed, pointer>>

InsertAnswered(h) ==
  /\ reqs[h].stage = "insert"
  /\ rows' = rows \cup {reqs[h].rev}
  /\ Advance(h, "tell")
  /\ UNCHANGED <<head, bound, policies, replays, reviews, pubs, observed, fed, pointer>>

\* InsertActionListRevision, or the row that is there already.
InsertCandidate(h) ==
  /\ reqs[h].stage = "insert"
  /\ rows' = rows \cup {reqs[h].rev}
  /\ Advance(h, "bind")
  /\ UNCHANGED <<head, bound, policies, replays, reviews, pubs, observed, fed, pointer>>

\* The map has no action to project, or a retried layer compiles another
\* digest than the row has.
NotProjected(h) ==
  /\ reqs[h].stage = "insert"
  /\ Answered(h)
  /\ UNCHANGED <<head, rows, bound, policies, replays, reviews, pubs, observed, fed, pointer>>

BindCandidate(h) ==
  /\ reqs[h].stage = "bind"
  /\ bound' = bound \cup {reqs[h].rev}
  /\ IF Published(reqs[h].rev) THEN Answered(h) ELSE Advance(h, "tell")
  /\ UNCHANGED <<head, rows, policies, replays, reviews, pubs, observed, fed, pointer>>

\* saveCandidate and createObservationSink keep a candidate of the answer,
\* whatever they kept before; one already published is not kept.
ReceiveCandidate(h) ==
  /\ reqs[h].stage = "tell"
  /\ pointer' = reqs[h].rev
  /\ Answered(h)
  /\ UNCHANGED <<head, rows, bound, policies, replays, reviews, pubs, observed, fed>>

\* The handler dies, or its answer is lost; the browser restarts.
Lost(h) ==
  /\ reqs[h] # Idle
  /\ Answered(h)
  /\ UNCHANGED <<head, rows, bound, policies, replays, reviews, pubs, observed, fed, pointer>>

BrowserRestarts ==
  /\ pointer # 0 /\ pointer' = 0
  /\ UNCHANGED <<head, rows, bound, policies, replays, reviews, pubs, observed, fed, reqs>>

Next ==
  \/ \E h \in Handlers :
       \/ SubmitReview(h, "approve") \/ SubmitReview(h, "reject") \/ StartReplay(h)
       \/ AskPolicy(h) \/ AskGenericPublish(h)
       \/ PassGate(h)
       \/ SavePolicyDecision(h) \/ SaveReplayReport(h)
       \/ PublishActionList(h) \/ RecordCandidateRejection(h) \/ ForgetCandidate(h)
       \/ ApplyLayer(h) \/ RepeatLayer(h)
       \/ \E run \in Runs : RecordObservation(h, run)
       \/ ApplyFeedback(h) \/ InsertCandidate(h) \/ NotProjected(h) \/ BindCandidate(h)
       \/ ReceiveCandidate(h) \/ Lost(h)
  \/ \E r \in Revs : AuthorizeExecution(r)
  \/ \E i \in DOMAIN policies : PolicyExpires(i)
  \/ BrowserRestarts

Spec == Init /\ [][Next]_vars

-----------------------------------------------------------------------------
(* Every record belongs to a revision of the list, and every binding to a   *)
(* revision the map has had.                                                *)
TypeOK ==
  /\ head \in 0 .. MaxRev
  /\ bound \subseteq rows /\ rows \subseteq 1 .. head
  /\ \A i \in DOMAIN policies : policies[i].rev \in rows
  /\ \A i \in DOMAIN replays : replays[i].rev \in bound
  /\ reviews \in [Revs -> SUBSET {"approve", "reject"}]
  /\ pubs \in [Revs -> [policy : 0 .. Len(policies), replay : 0 .. Len(replays)]]
  /\ observed \in [Runs -> 0 .. MaxRev] /\ fed \in [Runs -> 0 .. head]
  /\ pointer \in 0 .. head
  /\ \A h \in Handlers : reqs[h].rev \in 0 .. head

(* A published revision was approved and never rejected, on a policy for    *)
(* execution and a replay that passed, both recorded for that very          *)
(* revision: rejection and approval of the same candidate serialize         *)
(* whichever handler read it first.                                         *)
PublishedIsReviewed ==
  \A r \in Revs : Published(r) =>
    /\ reviews[r] = {"approve"}
    /\ policies[pubs[r].policy].rev = r /\ policies[pubs[r].policy].execution
    /\ policies[pubs[r].policy].decision = "allowed"
    /\ replays[pubs[r].replay] = [rev |-> r, status |-> "passed"]

(* The extension only ever remembers a candidate whose binding is durable,  *)
(* although the insertion, the binding and the answer are three steps any   *)
(* of which may be the last.                                                *)
PointerIsBound == pointer # 0 => pointer \in bound

(* A candidate projected from a map revision is published only while that   *)
(* revision is the head: a layer or a run's feedback that moves the head    *)
(* after the handler checked it is noticed by the transaction.              *)
PublishedOnHead == [][\A r \in Revs : Published(r)' /\ ~Published(r) => head = r]_vars

(* The generic publication route never publishes a candidate that is bound  *)
(* to a map, not even one bound after the route looked.                     *)
BoundOnlyThroughReview ==
  [][\A h \in Handlers : reqs[h].kind = "generic" => UNCHANGED pubs \/ reqs'[h] = reqs[h]]_vars

(* A run is counted once: its observation, delivered again or twice at the  *)
(* same time, never moves the head a second time, and two runs never share  *)
(* a revision.                                                              *)
FeedbackOnce ==
  [][\A run \in Runs :
       /\ fed'[run] = fed[run] \/ (fed[run] = 0 /\ fed'[run] = head' /\ head' > head)
       /\ \A h \in Handlers :
            reqs[h].stage = "apply" /\ reqs[h].run = run /\ fed[run] # 0 /\ reqs'[h] # reqs[h] => head' = head]_vars
=============================================================================
