---------------------------- MODULE SourceBridge ----------------------------
(***************************************************************************)
(* extension/source/bootstrap.js, createSourceBridge: the calls a page's   *)
(* agent makes, carried to the coordinator over a port that drops and is   *)
(* opened again.  The registration of the tools is ToolRegistration.       *)
(*                                                                         *)
(* The bridge is one record, and the functions of the closure are          *)
(* operators from a bridge to the bridge they leave; a handler is one step *)
(* because none of them awaits.  `ok` says whether runtime.connect         *)
(* succeeds in the step.  The coordinator is external: its durable run of  *)
(* each request, the port it has bound, and the envelopes it replays       *)
(* (RunCoordinator has the rest of it).                                    *)
(***************************************************************************)
EXTENDS Naturals, FiniteSets, Sequences, SequencesExt

CONSTANTS
  Reqs,          \* calls the agent makes
  MaxReconnect,  \* maxReconnectAttempts
  MaxDrops       \* times a port is lost (bounds the model)

ASSUME BridgeAssumption ==
  IsFiniteSet(Reqs) /\ MaxReconnect \in Nat /\ MaxDrops \in Nat

VARIABLES
  bridge,    \* the closure of createSourceBridge
  toWorker,  \* posted on the current port, not handled by the worker
  toPage,    \* posted by the worker, not handled by the page
  bound,     \* the coordinator has the port in sourcePorts
  run,       \* the coordinator's durable run of each request
  drops      \* ports lost so far

vars == <<bridge, toWorker, toPage, bound, run, drops>>

(* A message names its request; a terminal envelope and run.accepted carry
   the coordinator's sequence number. *)
Up == [type : {"connect", "disconnect"}] \cup [type : {"request", "cancel", "ack"}, req : Reqs]
Down == [type : {"accepted", "ok", "error"}, req : Reqs, seq : {2, 3}]
Outbound == [type : {"request", "cancel"}, req : Reqs]

Local == {"cancelled", "transport", "refused"}
Promises == {"none", "pending", "resolved", "failed"} \cup Local

Bridge ==
  [requests : SUBSET Reqs,          \* the keys of requests
   asked    : SUBSET Reqs,          \* cancelRequested
   known    : SUBSET Reqs,          \* runId is set
   seen     : [Reqs -> 1..3],       \* lastSequence
   promise  : [Reqs -> Promises],
   outbox   : SUBSET Outbound,
   port     : BOOLEAN,
   attempts : 0..MaxReconnect,      \* reconnectAttempts
   timer    : BOOLEAN,              \* reconnectTimer is set
   hidden   : BOOLEAN,              \* pageHidden
   stopped  : BOOLEAN,
   sent     : Seq(Up)]              \* posted in this step

Run == [status : {"none", "created", "accepted"}, end : {"none", "ok", "error"},
        dispatched : BOOLEAN]
NoRun == [status |-> "none", end |-> "none", dispatched |-> FALSE]

TypeOK ==
  /\ bridge \in Bridge
  /\ toWorker \in Seq(Up) /\ toPage \in Seq(Down)
  /\ bound \in BOOLEAN
  /\ run \in [Reqs -> Run]
  /\ drops \in 0..MaxDrops

Msg(type, r) == [type |-> type, req |-> r]

----------------------------------------------------------------------------
(* The functions of the closure. *)

(* cleanupRequest *)
Cleanup(b, gone) ==
  [b EXCEPT !.requests = @ \ gone, !.outbox = {m \in @ : m.req \notin gone}]

SettleAgain(b, who, answer) ==
  [b EXCEPT !.promise = [r \in Reqs |-> IF r \in who THEN answer ELSE @[r]]]

(* settleRequest: the first settlement counts. *)
Settle(b, who, answer) ==
  [b EXCEPT !.promise = [r \in Reqs |-> IF r \in who /\ @[r] = "pending" THEN answer ELSE @[r]]]

FailTransport(b) ==
  Cleanup(Settle(b, b.requests, "transport"), b.requests)

ReconnectForEver(b) ==
  IF b.timer \/ b.stopped \/ (b.outbox = {} /\ b.requests = {}) THEN b
  ELSE [b EXCEPT !.attempts = @ + 1, !.timer = TRUE]

GiveUpSilently(b) ==
  IF b.timer \/ b.stopped \/ (b.outbox = {} /\ b.requests = {}) THEN b
  ELSE IF b.attempts >= MaxReconnect THEN b
  ELSE [b EXCEPT !.attempts = @ + 1, !.timer = TRUE]

ScheduleReconnect(b) ==
  IF b.timer \/ b.stopped \/ (b.outbox = {} /\ b.requests = {}) THEN b
  ELSE IF b.attempts >= MaxReconnect THEN FailTransport(b)
  ELSE [b EXCEPT !.attempts = @ + 1, !.timer = TRUE]

(* connectPort: the new port carries the whole outbox. *)
ConnectPort(b, ok) ==
  IF b.port \/ b.stopped THEN b
  ELSE IF ok THEN
    [b EXCEPT !.port = TRUE,
              !.sent = <<[type |-> "connect"]>> \o SetToSeq(b.outbox)]
  ELSE ScheduleReconnect(b)

(* sendEnvelope for each of a set of messages. *)
SendEnvelopes(b, messages, ok) ==
  LET kept == [b EXCEPT !.outbox = @ \cup messages]
      open == ConnectPort(kept, ok) IN
  IF messages = {} THEN b
  ELSE IF open.port THEN [open EXCEPT !.sent = @ \o SetToSeq(messages)]
  ELSE open

(* cancelRequest for each of a set of requests: the promise is rejected at
   once and the record kept until the run ends; without a runId nothing is
   sent before run.accepted. *)
CancelRequests(b, who, ok) ==
  LET fresh == who \ b.asked
      rejected == Settle([b EXCEPT !.asked = @ \cup fresh], fresh, "cancelled") IN
  SendEnvelopes(rejected, {Msg("cancel", r) : r \in fresh \cap b.known}, ok)

(* validCoordinatorEnvelope: the request is known and the sequence new. *)
Valid(b, m) == m.req \in b.requests /\ m.seq > b.seen[m.req]

AcceptedForgetsCancel(b, m) ==
  LET r == m.req
      heard == [b EXCEPT !.attempts = 0, !.seen[r] = m.seq, !.known = @ \cup {r}] IN
  IF ~Valid(b, m) THEN b
  ELSE IF m.type = "accepted" THEN [heard EXCEPT !.outbox = @ \ {Msg("request", r)}]
  ELSE
    Cleanup(Settle([heard EXCEPT !.sent = <<Msg("ack", r)>>], {r},
                   IF m.type = "ok" THEN "resolved" ELSE "failed"), {r})

EveryEnvelopeAcknowledged(b, m) ==
  LET r == m.req
      heard == [b EXCEPT !.attempts = 0, !.seen[r] = m.seq, !.known = @ \cup {r},
                         !.sent = <<Msg("ack", r)>>] IN
  IF ~Valid(b, m) THEN b
  ELSE IF m.type = "accepted" THEN [heard EXCEPT !.outbox = @ \ {Msg("request", r)}]
  ELSE Cleanup(Settle(heard, {r}, IF m.type = "ok" THEN "resolved" ELSE "failed"), {r})

(* handlePortMessage *)
HandlePortMessage(b, m) ==
  LET r == m.req
      heard == [b EXCEPT !.attempts = 0, !.seen[r] = m.seq, !.known = @ \cup {r}] IN
  IF ~Valid(b, m) THEN b
  ELSE IF m.type = "accepted" THEN
    LET taken == [heard EXCEPT !.outbox = @ \ {Msg("request", r)}] IN
    SendEnvelopes(taken, {Msg("cancel", q) : q \in {r} \cap b.asked}, TRUE)
  ELSE
    Cleanup(Settle([heard EXCEPT !.sent = <<Msg("ack", r)>>], {r},
                   IF m.type = "ok" THEN "resolved" ELSE "failed"), {r})

(* invoke, past the local checks. *)
Invoked(b, r, ok) ==
  SendEnvelopes([b EXCEPT !.requests = @ \cup {r}, !.promise[r] = "pending"],
                {Msg("request", r)}, ok)

----------------------------------------------------------------------------
(* The page. *)

Init ==
  /\ bridge = [requests |-> {}, asked |-> {}, known |-> {}, seen |-> [r \in Reqs |-> 1],
               promise |-> [r \in Reqs |-> "none"], outbox |-> {}, port |-> TRUE,
               attempts |-> 0, timer |-> FALSE, hidden |-> FALSE, stopped |-> FALSE,
               sent |-> <<>>]
  /\ toWorker = <<[type |-> "connect"]>> /\ toPage = <<>>
  /\ bound = FALSE
  /\ run = [r \in Reqs |-> NoRun]
  /\ drops = 0

(* Take the bridge a function left and put what it posted on the wire. *)
Step(b) ==
  /\ bridge' = [b EXCEPT !.sent = <<>>]
  /\ toWorker' = toWorker \o b.sent
  /\ UNCHANGED <<bound, run, drops>>

Running == ~bridge.hidden /\ ~bridge.stopped
Own(b) == Step(b) /\ UNCHANGED toPage

Invoke(r) ==
  /\ Running /\ bridge.promise[r] = "none"
  /\ \/ \E ok \in BOOLEAN : Own(Invoked(bridge, r, ok))
     \/ \E answer \in {"refused", "cancelled"} :
          Own([bridge EXCEPT !.promise[r] = answer])

(* The agent aborts one call. *)
Abort(r) ==
  /\ Running /\ r \in bridge.requests
  /\ \E ok \in BOOLEAN : Own(CancelRequests(bridge, {r}, ok))

(* cancelForNavigation, and applyActionLists for the calls whose tool is
   not in the new lists. *)
Withdraw(who) ==
  /\ Running /\ who # {} /\ who \subseteq bridge.requests
  /\ \E ok \in BOOLEAN : Own(CancelRequests(bridge, who, ok))

PageHide ==
  /\ Running
  /\ \E ok \in BOOLEAN :
       Own(CancelRequests([bridge EXCEPT !.hidden = TRUE], bridge.requests, ok))

PageShow ==
  /\ bridge.hidden /\ ~bridge.stopped
  /\ Own([bridge EXCEPT !.hidden = FALSE])

(* stop: stopped is set first, so that no port is opened for the cancels;
   what is posted on an open port arrives before its end. *)
Stop ==
  /\ ~bridge.stopped
  /\ LET cancelled == CancelRequests([bridge EXCEPT !.stopped = TRUE], bridge.requests, FALSE)
         closing == IF bridge.port THEN <<[type |-> "disconnect"]>> ELSE <<>> IN
     Step([Cleanup(cancelled, bridge.requests) EXCEPT
             !.outbox = {}, !.timer = FALSE, !.port = FALSE, !.sent = @ \o closing])
  /\ toPage' = <<>>

Receive ==
  /\ Running /\ toPage # <<>>
  /\ Step(HandlePortMessage(bridge, Head(toPage)))
  /\ toPage' = Tail(toPage)

ReconnectTimer ==
  /\ Running /\ bridge.timer
  /\ \E ok \in BOOLEAN : Own(ConnectPort([bridge EXCEPT !.timer = FALSE], ok))

(* The worker is suspended or the port fails; handlePortDisconnect. *)
PortLost ==
  /\ bridge.port /\ drops < MaxDrops
  /\ bridge' = ScheduleReconnect([bridge EXCEPT !.port = FALSE])
  /\ toWorker' = <<>> /\ toPage' = <<>> /\ bound' = FALSE
  /\ drops' = drops + 1
  /\ UNCHANGED run

----------------------------------------------------------------------------
(* The coordinator (external). *)

Exists(r) == run[r].status # "none"
Open(r) == Exists(r) /\ run[r].end = "none"
Accepted(r) == [type |-> "accepted", req |-> r, seq |-> 2]
Terminal(r, runs) ==
  [type |-> runs[r].end, req |-> r, seq |-> IF runs[r].status = "accepted" THEN 3 ELSE 2]

Unheard(r) == run[r].end # "none" /\ ~run[r].dispatched

(* replayKnownState for a request that came again, resumeSource for a port. *)
Replay(r) ==
  IF Unheard(r) THEN {Terminal(r, run)}
  ELSE IF run[r].status = "accepted" THEN {Accepted(r)}
  ELSE {}
Resume == UNION {Replay(r) : r \in {q \in Reqs : Unheard(q) \/ run[q].end = "none"}}

Post(ms) == toPage' = IF bound /\ bridge.port THEN toPage \o SetToSeq(ms) ELSE toPage

EndRun(r, end) ==
  /\ run' = [run EXCEPT ![r].end = end]
  /\ Post({Terminal(r, run')})

WorkerReceive ==
  /\ toWorker # <<>>
  /\ toWorker' = Tail(toWorker)
  /\ UNCHANGED <<bridge, drops>>
  /\ LET m == Head(toWorker) IN
     \/ /\ m.type = "connect"
        /\ bound' = TRUE
        /\ toPage' = SetToSeq(Resume)
        /\ UNCHANGED run
     \/ /\ m.type = "disconnect"
        /\ bound' = FALSE
        /\ UNCHANGED <<run, toPage>>
     \/ /\ m.type = "request" /\ UNCHANGED bound
        /\ IF Exists(m.req) THEN Post(Replay(m.req)) /\ UNCHANGED run
           ELSE run' = [run EXCEPT ![m.req].status = "created"] /\ UNCHANGED toPage
     \/ /\ m.type = "cancel" /\ UNCHANGED bound
        /\ IF Open(m.req) THEN EndRun(m.req, "error") ELSE UNCHANGED <<run, toPage>>
     \/ /\ m.type = "ack" /\ UNCHANGED <<bound, toPage>>
        /\ run' = [run EXCEPT ![m.req].dispatched = TRUE]

(* sendAccepted *)
Accept(r) ==
  /\ run[r].status = "created" /\ run[r].end = "none"
  /\ run' = [run EXCEPT ![r].status = "accepted"]
  /\ Post({Accepted(r)})
  /\ UNCHANGED <<bridge, toWorker, bound, drops>>

(* complete, fail, the deadline, the grace period of a lost port. *)
Finish(r, end) ==
  /\ Open(r) /\ (end = "ok" => run[r].status = "accepted")
  /\ EndRun(r, end)
  /\ UNCHANGED <<bridge, toWorker, bound, drops>>

Next ==
  \/ \E r \in Reqs : Invoke(r) \/ Abort(r) \/ Accept(r) \/ Finish(r, "ok") \/ Finish(r, "error")
  \/ \E who \in SUBSET Reqs : Withdraw(who)
  \/ PageHide \/ PageShow \/ Stop \/ Receive \/ ReconnectTimer \/ PortLost \/ WorkerReceive

(* The event loops of the page and of the worker take what has arrived, a
   timer that is set fires, and a run ends by its deadline.  That is what
   RunCoordinator's Settles says of every run but those that a recovery which
   threw has given up: of their calls Answered says nothing.  The agent, the
   user and the fate of the port are not fair. *)
Fairness ==
  /\ WF_vars(Receive) /\ WF_vars(ReconnectTimer) /\ WF_vars(WorkerReceive)
  /\ \A r \in Reqs : WF_vars(Accept(r)) /\ WF_vars(Finish(r, "error"))

Spec == Init /\ [][Next]_vars
FairSpec == Spec /\ Fairness

----------------------------------------------------------------------------
(* The properties. *)

outcome == [r \in Reqs |-> run[r].end]
I == INSTANCE Invocation WITH promise <- bridge.promise

(* The bridge answers each call once, with the outcome of the call's own run
   or with a failure of its own, whatever is posted twice, replayed on a new
   port or arrives after the call was cancelled. *)
ImplementsInvocation == I!Spec

(* A cancellation outlives what comes between it and the run: while the
   bridge waits for the end of a cancelled run, either its run.cancel or,
   before run.accepted, the run.request whose acceptance releases the cancel
   is kept in the outbox, to be posted again on every new port. *)
CancelNotLost ==
  \A r \in bridge.asked \cap bridge.requests :
    Msg(IF r \in bridge.known THEN "cancel" ELSE "request", r) \in bridge.outbox

(* The coordinator forgets an outcome (terminal.dispatched) only when the
   call has its answer: no acknowledgement runs ahead of the promise. *)
ForgottenIsAnswered ==
  \A r \in Reqs : run[r].dispatched => bridge.promise[r] \notin {"none", "pending"}

(* Every call is answered, over lost ports, replays and exhausted attempts. *)
Answered ==
  \A r \in Reqs : bridge.promise[r] = "pending" ~> bridge.promise[r] # "pending"

(* A call fails with TRANSPORT_DISCONNECTED only when the channel could not
   recover, that is when an attempt to open a port has failed, not when an
   open port is lost once more. *)
TransportFailureMeansUnrecovered ==
  [][\A r \in Reqs : bridge.promise[r] = "pending" /\ bridge'.promise[r] = "transport"
        => ~bridge.port]_vars
=============================================================================
