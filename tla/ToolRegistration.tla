-------------------------- MODULE ToolRegistration --------------------------
(***************************************************************************)
(* extension/source/bootstrap.js: discovery of the published lists of the  *)
(* page's URL and their registration as WebMCP tools.                      *)
(*                                                                         *)
(* A discovery asks the worker, queues what it got, and is applied in its  *)
(* turn; an application awaits registerTool for one action after another   *)
(* while navigation, pagehide and stop go on.  refreshGeneration and the   *)
(* URL of the discovery's token decide what is still current.  The calls   *)
(* an application or a navigation cancels are SourceBridge's Withdraw.     *)
(***************************************************************************)
EXTENDS Naturals, FiniteSets, Sequences, SequencesExt

CONSTANTS
  Urls,         \* values of location.href
  Home,         \* the URL the document was loaded at
  Catalogs,     \* what the registry publishes, one set of lists after another
  MaxRetry,     \* maxDiscoveryRetryAttempts
  Slots,        \* discoveries in flight (bounds the model)
  MaxMoves,     \* navigations, pagehides and pageshows (bounds the model)
  MaxFails      \* failed discoveries and registrations (bounds the model)

(* A list names the URLs of its site.routePatterns, whether its publication
   and policy let it be injected, and its policy scopes; an action the URLs
   of its precondition, its tool name and the scope its safety asks for. *)
Scopes == {"read", "write", "danger"}
IsAction(a) == a.urls \subseteq Urls /\ a.scope \in Scopes
IsList(l) ==
  /\ l.routes \subseteq Urls /\ l.allowed \in BOOLEAN /\ l.scopes \subseteq Scopes
  /\ \A a \in l.actions : IsAction(a)

ASSUME RegistrationAssumption ==
  /\ Home \in Urls
  /\ Len(Catalogs) \in Nat \ {0} /\ DOMAIN Catalogs = 1..Len(Catalogs)
  /\ \A v \in DOMAIN Catalogs : \A l \in Catalogs[v] : IsList(l)
  /\ MaxRetry \in Nat /\ MaxMoves \in Nat /\ MaxFails \in Nat

VARIABLES
  greeted,     \* REFRESH_ADAPTERS has come
  url,         \* location.href
  seenUrl,     \* currentUrl
  hidden, stopped,
  generation,  \* refreshGeneration
  lists,       \* actionLists: the version of the catalog applied last, 0 none
  tools,       \* registrationControllers: keys registered or being registered, oldest first
  fetches,     \* discoveries that wait for the worker's answer
  queue,       \* registrationQueue: discoveries with their answer
  task,        \* the application that awaits registerTool
  timer,       \* discoveryRetryTimer is set
  retries,     \* discoveryRetryAttempts
  version,     \* the catalog the registry has published
  moves, fails,
  left,        \* history: what removals that were to take it have left registered
  spoiled      \* history: why a route may stay without its tools

pageVars == <<greeted, url, seenUrl, hidden, stopped>>
retryVars == <<timer, retries>>
boundVars == <<version, moves, fails>>
vars == <<pageVars, generation, lists, tools, left, fetches, queue, task, retryVars, boundVars,
          spoiled>>

Versions == DOMAIN Catalogs
Moves == 0..MaxMoves
Generations == Nat

(* listIsEligible, actionIsEligible, eligibleActions: a tool name two
   eligible actions share registers neither. *)
Offers(v, u) ==
  {[digest |-> l.digest, action |-> a] :
     l \in {l \in Catalogs[v] : l.allowed /\ u \in l.routes},
     a \in UNION {l.actions : l \in Catalogs[v]}}
Eligible(v, u) ==
  {o \in Offers(v, u) : \E l \in Catalogs[v] :
     /\ l.digest = o.digest /\ o.action \in l.actions
     /\ u \in o.action.urls /\ o.action.scope \in l.scopes}
(* The registration key {listDigest, actionId, actionVersion} is the offer. *)
EligibleActions ==
  [v \in Versions, u \in Urls |->
     {o \in Eligible(v, u) :
        \A p \in Eligible(v, u) : p.action.name = o.action.name => p = o}]
Desired(v, u) == IF v = 0 THEN {} ELSE EligibleActions[v, u]
Keys == UNION {Desired(v, u) : v \in Versions, u \in Urls}

Kinds == {"refresh", "adapters"}
Fetch == [slot : Slots, kind : Kinds, gen : Generations, url : Urls, since : Versions]
Answered == [kind : Kinds, gen : Generations, url : Urls, version : Versions]
NoTask == [kind |-> "none"]
Task == {NoTask} \cup
  [kind : Kinds, gen : Generations, url : Urls, todo : SUBSET Keys, current : Keys]

TypeOK ==
  /\ greeted \in BOOLEAN /\ url \in Urls /\ seenUrl \in Urls /\ hidden \in BOOLEAN /\ stopped \in BOOLEAN
  /\ generation \in Generations
  /\ lists \in Versions \cup {0}
  /\ tools \in Seq(Keys) /\ left \subseteq Keys
  /\ fetches \subseteq Fetch
  /\ queue \in Seq(Answered)
  /\ task \in Task
  /\ timer \in BOOLEAN /\ retries \in 0..MaxRetry
  /\ version \in Versions /\ moves \in Moves /\ fails \in 0..MaxFails
  /\ spoiled \subseteq {"overtaken", "refused", "exhausted"}

Init ==
  /\ greeted = FALSE /\ url = Home /\ seenUrl = Home /\ hidden = FALSE /\ stopped = FALSE
  /\ generation = 0 /\ lists = 0 /\ tools = <<>> /\ left = {}
  /\ fetches = {} /\ queue = <<>> /\ task = NoTask
  /\ timer = FALSE /\ retries = 0
  /\ version = 1 /\ moves = 0 /\ fails = 0
  /\ spoiled = {}

----------------------------------------------------------------------------
Visible == ~hidden /\ ~stopped

(* The discovery token of a new request to the worker; a free slot bounds
   how many are in flight. *)
FreeSlots == Slots \ {f.slot : f \in fetches}
Discover(kind, gen, u) ==
  \E s \in FreeSlots : fetches' = fetches \cup
    {[slot |-> s, kind |-> kind, gen |-> gen, url |-> u, since |-> version]}

RetryForEver ==
  IF timer \/ ~Visible THEN UNCHANGED <<retryVars, spoiled>>
  ELSE timer' = TRUE /\ retries' = retries + 1 /\ UNCHANGED spoiled

(* scheduleDiscoveryRetry *)
ScheduleRetry ==
  IF timer \/ ~Visible THEN UNCHANGED <<retryVars, spoiled>>
  ELSE IF retries >= MaxRetry THEN spoiled' = spoiled \cup {"exhausted"} /\ UNCHANGED retryVars
  ELSE timer' = TRUE /\ retries' = retries + 1 /\ UNCHANGED spoiled

(* removeRegistration as the callback of a forEach over the registered keys in
   K: it takes the index for expectedController.  The index 0 is none, and the
   oldest registration goes; any other index is not its controller, and the
   rest stay registered. *)
RemoveOldest(registered, K) ==
  IF ToSet(registered) \cap K = {} THEN registered
  ELSE RemoveAt(registered, CHOOSE i \in DOMAIN registered :
         registered[i] \in K /\ \A j \in 1..(i - 1) : registered[j] \notin K)

(* unregisterAll.  What an application awaits it removes itself later. *)
UnregisterAll ==
  /\ tools' = RemoveOldest(tools, Keys)
  /\ left' = ToSet(tools') \ (IF task = NoTask THEN {} ELSE {task.current})

(* The loop of applyActionLists from one await to the next: the next action
   whose key is not registered, in place of one with its name, or the end of
   the application.  It has passed some of those that are registered. *)
Proceed(t, registered, gen) ==
  LET todo == t.todo \ ToSet(registered) IN
  IF todo # {} THEN
    \E k \in todo : \E ahead \in SUBSET (t.todo \ {k}) :
      /\ todo \ {k} \subseteq ahead
      /\ tools' = Append(RemoveOldest(registered, {q \in Keys : q.action.name = k.action.name}), k)
      /\ task' = [t EXCEPT !.todo = ahead, !.current = k]
      /\ UNCHANGED <<retryVars, spoiled>>
  ELSE
    /\ tools' = registered /\ task' = NoTask
    /\ IF t.kind = "refresh" THEN timer' = FALSE /\ retries' = 0 ELSE UNCHANGED retryVars
    /\ spoiled' = IF t.kind = "refresh" /\ t.gen # gen THEN spoiled \cup {"overtaken"}
                  ELSE spoiled

----------------------------------------------------------------------------
(* pageReady has the worker send REFRESH_ADAPTERS: registerAdapters. *)
RegisterAdapters ==
  /\ ~hidden /\ ~greeted
  /\ greeted' = TRUE
  /\ Discover("adapters", generation, url)
  /\ UNCHANGED <<url, seenUrl, hidden, stopped, generation, lists, tools, left, queue, task, retryVars, boundVars, spoiled>>

RetryTimer ==
  /\ Visible /\ timer
  /\ timer' = FALSE
  /\ Discover("refresh", generation, url)
  /\ UNCHANGED <<pageVars, generation, lists, tools, left, queue, task, retries, boundVars, spoiled>>

(* history.pushState or a link inside the document; the event comes later. *)
Navigate(u) ==
  /\ ~hidden /\ url = seenUrl /\ u # url /\ moves < MaxMoves
  /\ url' = u /\ moves' = moves + 1
  /\ UNCHANGED <<greeted, seenUrl, hidden, stopped, generation, lists, tools, left, fetches, queue, task,
                 retryVars, version, fails, spoiled>>

(* cancelForNavigation *)
NavigationSeen ==
  /\ ~hidden /\ url # seenUrl
  /\ seenUrl' = url
  /\ generation' = generation + 1
  /\ lists' = 0 /\ UnregisterAll
  /\ timer' = FALSE /\ retries' = 0 /\ spoiled' = {}
  /\ IF stopped THEN UNCHANGED fetches ELSE Discover("refresh", generation', url)
  /\ UNCHANGED <<greeted, url, hidden, stopped, queue, task, boundVars>>

PageHide ==
  /\ Visible /\ moves < MaxMoves
  /\ hidden' = TRUE /\ generation' = generation + 1 /\ timer' = FALSE
  /\ moves' = moves + 1
  /\ UNCHANGED <<greeted, url, seenUrl, stopped, lists, tools, left, fetches, queue, task, retries, version,
                 fails, spoiled>>

(* resumeAfterPageShow at the same URL; at another one it goes on as
   NavigationSeen does. *)
PageShow ==
  /\ hidden /\ ~stopped
  /\ hidden' = FALSE /\ spoiled' = {}
  /\ IF url = seenUrl THEN Discover("refresh", generation, url) ELSE UNCHANGED fetches
  /\ UNCHANGED <<greeted, url, seenUrl, stopped, generation, lists, tools, left, queue, task, retryVars,
                 boundVars>>

Stop ==
  /\ ~stopped /\ moves < MaxMoves
  /\ stopped' = TRUE /\ generation' = generation + 1 /\ UnregisterAll /\ timer' = FALSE
  /\ moves' = moves + 1
  /\ UNCHANGED <<greeted, url, seenUrl, hidden, lists, fetches, queue, task, retries, version, fails,
                 spoiled>>

(* The answer is what was published at some time since the request. *)
FetchAnswered(f) ==
  /\ ~hidden
  /\ fetches' = fetches \ {f}
  /\ \E v \in f.since..version :
       queue' = Append(queue, [kind |-> f.kind, gen |-> f.gen, url |-> f.url, version |-> v])
  /\ UNCHANGED <<pageVars, generation, lists, tools, left, task, retryVars, boundVars, spoiled>>

FailureNotRetried(f) ==
  /\ ~hidden /\ fails < MaxFails
  /\ fetches' = fetches \ {f} /\ fails' = fails + 1
  /\ UNCHANGED <<pageVars, generation, lists, tools, left, queue, task, retryVars, spoiled, version,
                 moves>>

FetchFails(f) ==
  /\ ~hidden /\ fails < MaxFails
  /\ fetches' = fetches \ {f} /\ fails' = fails + 1
  /\ IF f.kind = "adapters" \/ (f.gen = generation /\ f.url = url) THEN ScheduleRetry
     ELSE UNCHANGED <<retryVars, spoiled>>
  /\ UNCHANGED <<pageVars, generation, lists, tools, left, queue, task, version, moves>>

ApplyWithoutGeneration ==
  /\ ~hidden /\ task = NoTask /\ queue # <<>>
  /\ queue' = Tail(queue)
  /\ UNCHANGED <<pageVars, fetches, boundVars>>
  /\ LET d == Head(queue)
         desired == Desired(d.version, url)
         t == [kind |-> d.kind, gen |-> generation + 1, url |-> d.url, todo |-> desired,
               current |-> CHOOSE k \in Keys : TRUE] IN
     IF stopped \/ d.url # url
     THEN UNCHANGED <<generation, lists, tools, left, task, retryVars, spoiled>>
     ELSE /\ generation' = generation + 1
          /\ lists' = d.version
          /\ Proceed(t, RemoveOldest(tools, Keys \ desired), generation + 1)
          /\ left' = ToSet(tools') \ desired

(* registerDiscoveredActionLists in its turn: stale, or applyActionLists. *)
ApplyNext ==
  /\ ~hidden /\ task = NoTask /\ queue # <<>>
  /\ queue' = Tail(queue)
  /\ UNCHANGED <<pageVars, fetches, boundVars>>
  /\ LET d == Head(queue)
         desired == Desired(d.version, url)
         t == [kind |-> d.kind, gen |-> generation + 1, url |-> d.url, todo |-> desired,
               current |-> CHOOSE k \in Keys : TRUE] IN
     IF stopped \/ d.gen # generation \/ d.url # url
     THEN UNCHANGED <<generation, lists, tools, left, task, retryVars, spoiled>>
     ELSE /\ generation' = generation + 1
          /\ lists' = d.version
          /\ Proceed(t, RemoveOldest(tools, Keys \ desired), generation + 1)
          /\ left' = ToSet(tools') \ desired

RegisteredUnchecked ==
  /\ ~hidden /\ task # NoTask
  /\ Proceed(task, tools, generation) /\ left' = left \cap ToSet(tools')
  /\ UNCHANGED <<pageVars, generation, lists, fetches, queue, boundVars>>

(* registerTool resolves. *)
Registered ==
  /\ ~hidden /\ task # NoTask
  /\ Proceed(task, IF task.gen # generation THEN RemoveOldest(tools, {task.current}) ELSE tools,
             generation)
  /\ left' = left \cap ToSet(tools')
  /\ UNCHANGED <<pageVars, generation, lists, fetches, queue, boundVars>>

(* registerTool rejects: the application throws, and refreshRegistrations
   compares its token's generation, which the application has passed. *)
RegisterFails ==
  /\ ~hidden /\ task # NoTask /\ fails < MaxFails
  /\ fails' = fails + 1
  /\ tools' = RemoveOldest(tools, {task.current}) /\ task' = NoTask
  /\ left' = left \cap ToSet(tools')
  /\ IF task.kind = "refresh" /\ task.gen - 1 = generation /\ task.url = url
     THEN ScheduleRetry
     ELSE spoiled' = spoiled \cup {"refused"} /\ UNCHANGED retryVars
  /\ UNCHANGED <<pageVars, generation, lists, fetches, queue, version, moves>>

Publish ==
  /\ version + 1 \in Versions
  /\ version' = version + 1
  /\ UNCHANGED <<pageVars, generation, lists, tools, left, fetches, queue, task, retryVars, moves,
                 fails, spoiled>>

Next ==
  \/ RegisterAdapters \/ RetryTimer \/ NavigationSeen \/ PageHide \/ PageShow \/ Stop
  \/ ApplyNext \/ Registered \/ RegisterFails \/ Publish
  \/ \E u \in Urls : Navigate(u)
  \/ \E f \in fetches : FetchAnswered(f) \/ FetchFails(f)

(* The worker answers or refuses every request, the browser settles every
   registerTool, and the events of the page's own loop are handled. *)
Fairness ==
  /\ WF_vars(RegisterAdapters) /\ WF_vars(RetryTimer) /\ WF_vars(NavigationSeen)
  /\ WF_vars(\E f \in fetches : FetchAnswered(f) \/ FetchFails(f))
  /\ WF_vars(ApplyNext) /\ WF_vars(Registered \/ RegisterFails)

Spec == Init /\ [][Next]_vars
FairSpec == Spec /\ Fairness

----------------------------------------------------------------------------
(* The properties. *)

(* A tool of an overtaken application is offered at most while its own
   registerTool is awaited: once the page has seen a navigation, everything
   else that is registered is eligible in the lists applied last, or was
   registered before and is what a removal has left. *)
OvertakenIsPending ==
  url = seenUrl => \A k \in ToSet(tools) :
    \/ k \in Desired(lists, url) \cup left
    \/ task # NoTask /\ task.current = k /\ task.gen # generation

(* system-contract.md, invariant 8: "A policy decision other than current,
   explicit `allowed` prevents tool registration"; bootstrap.test.js:517: "URL,
   policy, and digest changes unregister or refresh tools".  Once an application
   has finished, the page offers nothing that its lists do not offer. *)
WithdrawnIsUnregistered ==
  lists # 0 /\ task = NoTask /\ url = seenUrl => ToSet(tools) \subseteq Desired(lists, url)

(* No discovery, however late its answer, takes the page back to lists older
   than the ones it has applied. *)
NoListRegression == [][lists' # 0 => lists' >= lists]_vars

(* A visible page gets the tools of its route, over failed discoveries and
   navigations; unless registerTool has refused one, the retries are used
   up, or an application overtaken by a navigation has finished and stopped
   the retry of the route that followed. *)
Settled == Visible /\ url = seenUrl
RouteToolsOffered ==
  Settled ~> \/ ~Settled
             \/ lists # 0 /\ Desired(lists, url) \subseteq ToSet(tools)
             \/ spoiled # {}
=============================================================================
