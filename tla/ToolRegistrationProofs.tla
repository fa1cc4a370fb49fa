------------------------ MODULE ToolRegistrationProofs ------------------------
(* Theorems about ToolRegistration, for every catalog, set of URLs and number
   of discoveries in flight, retries, navigations and failures. *)
EXTENDS ToolRegistration, SequenceTheorems, WellFoundedInduction, TLAPS

-------------------------------------------------------------------------------
(* The inductive invariant *)

\* The lists applied last were published, and what still has the generation of
\* the page, in flight or answered, was published no earlier.
InFlightOK ==
  /\ lists <= version
  /\ \A f \in fetches : f.gen <= generation /\ (f.gen = generation => lists <= f.since)
  /\ \A i \in 1 .. Len(queue) :
       /\ queue[i].gen <= generation /\ queue[i].version <= version
       /\ queue[i].gen = generation => lists <= queue[i].version

\* An application that is still current registers what the lists applied last offer.
TaskOK ==
  task # NoTask =>
    /\ task.gen <= generation
    /\ url = seenUrl /\ task.gen = generation =>
         task.todo \cup {task.current} \subseteq Desired(lists, url)

\* A key is registered once, so that removing the oldest of one key removes it.
Unique(s) == \A i, j \in 1 .. Len(s) : s[i] = s[j] => i = j

RegistrationInv == TypeOK /\ InFlightOK /\ TaskOK /\ Unique(tools) /\ OvertakenIsPending

-------------------------------------------------------------------------------
(* The registered keys *)

\* A removal takes at most one key away; of a single key it leaves nothing.
LEMMA Removed ==
  ASSUME NEW s \in Seq(Keys), Unique(s), NEW K
  PROVE  /\ RemoveOldest(s, K) \in Seq(Keys) /\ Unique(RemoveOldest(s, K))
         /\ ToSet(RemoveOldest(s, K)) \subseteq ToSet(s)
         /\ \A k : K = {k} => k \notin ToSet(RemoveOldest(s, K))
  <1>0. Len(s) \in Nat /\ DOMAIN s = 1 .. Len(s) /\ ToSet(s) = {s[i] : i \in 1 .. Len(s)}
        /\ \A i \in 1 .. Len(s) : s[i] \in Keys
    BY LenProperties, ElementOfSeq DEF ToSet
  <1>1. CASE ToSet(s) \cap K = {}
    <2>1. RemoveOldest(s, K) = s
      BY <1>1 DEF RemoveOldest
    <2> QED BY <1>1, <2>1
  <1>2. CASE ToSet(s) \cap K # {}
    <2> DEFINE least(i) == s[i] \in K /\ \A j \in 1..(i - 1) : s[j] \notin K
               m == CHOOSE i \in DOMAIN s : least(i)
               T == {i \in 1 .. Len(s) : s[i] \in K}
    <2>1. \E i \in DOMAIN s : least(i)
      <3>1. T # {} /\ T \subseteq Nat
        BY <1>0, <1>2
      <3>2. \E x \in T : \A y \in T : ~ (<<y, x>> \in OpToRel(<, Nat))
        BY <3>1, NatLessThanWellFounded, WFMin
      <3>3. \E x \in T : \A y \in T : ~ (y < x)
        BY <3>1, <3>2 DEF OpToRel
      <3> QED BY <1>0, <3>3
    <2>2. m \in 1 .. Len(s) /\ s[m] \in K
      BY <1>0, <2>1
    <2>3. RemoveOldest(s, K) = SubSeq(s, 1, m - 1) \o SubSeq(s, m + 1, Len(s))
      BY <1>2 DEF RemoveOldest, RemoveAt
    <2> HIDE DEF m
    <2> DEFINE a == SubSeq(s, 1, m - 1)
               b == SubSeq(s, m + 1, Len(s))
               r == RemoveOldest(s, K)
    <2>4. /\ a \in Seq(Keys) /\ Len(a) = m - 1
          /\ \A i \in 1 .. m - 1 : a[i] = s[i]
      <3>1. m - 1 \in Int /\ m - 1 >= 0 /\ \A i \in 1 .. m - 1 : s[i] \in Keys
        BY <1>0, <2>2
      <3> HIDE DEF a
      <3>2. a = SubSeq(s, 1, m - 1)
        BY DEF a
      <3>3. /\ a \in Seq(Keys) /\ Len(a) = IF 1 <= m - 1 THEN m - 1 - 1 + 1 ELSE 0
            /\ \A i \in 1 .. m - 1 - 1 + 1 : a[i] = s[1 + i - 1]
        BY <3>1, <3>2, SubSeqProperties
      <3> QED BY <2>2, <1>0, <3>1, <3>3
    <2>5. /\ b \in Seq(Keys) /\ Len(b) = Len(s) - m
          /\ \A i \in 1 .. Len(s) - m : b[i] = s[m + i]
      <3>1. m + 1 \in Int /\ Len(s) \in Int /\ \A i \in m + 1 .. Len(s) : s[i] \in Keys
        BY <1>0, <2>2
      <3> HIDE DEF b
      <3>2. b = SubSeq(s, m + 1, Len(s))
        BY DEF b
      <3>3. /\ b \in Seq(Keys) /\ Len(b) = IF m + 1 <= Len(s) THEN Len(s) - (m + 1) + 1 ELSE 0
            /\ \A i \in 1 .. Len(s) - (m + 1) + 1 : b[i] = s[m + 1 + i - 1]
        BY <3>1, <3>2, SubSeqProperties
      <3>4. Len(b) = Len(s) - m
        <4>1. m \in Nat /\ Len(s) \in Nat /\ m <= Len(s)
          BY <1>0, <2>2
        <4>2. CASE m + 1 <= Len(s)
          BY <3>3, <4>1, <4>2
        <4>3. CASE ~(m + 1 <= Len(s))
          BY <3>3, <4>1, <4>3
        <4> QED BY <4>2, <4>3
      <3>5. ASSUME NEW i \in 1 .. Len(s) - m
            PROVE  b[i] = s[m + i]
        <4>1. i \in 1 .. Len(s) - (m + 1) + 1 /\ m + 1 + i - 1 = m + i
          BY <1>0, <2>2
        <4>2. b[i] = s[m + 1 + i - 1]
          BY <3>3, <4>1
        <4> QED BY <4>1, <4>2
      <3> QED BY <3>3, <3>4, <3>5
    <2>6. r = a \o b
      BY <2>3
    <2> HIDE DEF a, b, r
    <2>7. /\ r \in Seq(Keys) /\ Len(r) = Len(s) - 1
          /\ \A i \in 1 .. Len(r) : r[i] = IF i < m THEN s[i] ELSE s[i + 1]
      <3>1. /\ r \in Seq(Keys) /\ Len(r) = Len(a) + Len(b)
            /\ \A i \in 1 .. Len(a) + Len(b) :
                 r[i] = IF i <= Len(a) THEN a[i] ELSE b[i - Len(a)]
        BY <2>4, <2>5, <2>6, ConcatProperties
      <3>2. Len(r) = Len(s) - 1
        BY <1>0, <2>2, <2>4, <2>5, <3>1
      <3>3. ASSUME NEW i \in 1 .. Len(r)
            PROVE  r[i] = IF i < m THEN s[i] ELSE s[i + 1]
        <4>1. CASE i < m
          BY <1>0, <2>2, <2>4, <2>5, <3>1, <3>2, <4>1
        <4>2. CASE ~(i < m)
          <5>1. r[i] = b[i - (m - 1)] /\ i - (m - 1) \in 1 .. Len(s) - m
            BY <1>0, <2>2, <2>4, <2>5, <3>1, <3>2, <4>2
          <5>2. b[i - (m - 1)] = s[m + (i - (m - 1))] /\ m + (i - (m - 1)) = i + 1
            BY <1>0, <2>2, <2>5, <3>2, <5>1
          <5> QED BY <4>2, <5>1, <5>2
        <4> QED BY <4>1, <4>2
      <3> QED BY <3>1, <3>2, <3>3
    <2>8. Len(r) \in Nat /\ DOMAIN r = 1 .. Len(r) /\ ToSet(r) = {r[i] : i \in 1 .. Len(r)}
      BY <2>7, LenProperties DEF ToSet
    <2>9. \A i \in 1 .. Len(r) : \E x \in 1 .. Len(s) :
            r[i] = s[x] /\ x # m /\ x = IF i < m THEN i ELSE i + 1
      BY <1>0, <2>2, <2>7, <2>8
    <2>10. Unique(r)
      <3> SUFFICES ASSUME NEW i \in 1 .. Len(r), NEW j \in 1 .. Len(r), r[i] = r[j]
                   PROVE  i = j
        BY DEF Unique
      <3>1. PICK x \in 1 .. Len(s) : r[i] = s[x] /\ x = IF i < m THEN i ELSE i + 1
        BY <2>9
      <3>2. PICK y \in 1 .. Len(s) : r[j] = s[y] /\ y = IF j < m THEN j ELSE j + 1
        BY <2>9
      <3>3. x = y
        BY <3>1, <3>2 DEF Unique
      <3> QED BY <2>2, <2>8, <1>0, <3>1, <3>2, <3>3
    <2>11. ToSet(r) \subseteq ToSet(s)
      BY <1>0, <2>8, <2>9
    <2>12. ASSUME NEW k, K = {k}
           PROVE  k \notin ToSet(r)
      <3> SUFFICES ASSUME NEW i \in 1 .. Len(r), r[i] = k PROVE FALSE
        BY <2>8
      <3>1. PICK x \in 1 .. Len(s) : r[i] = s[x] /\ x # m
        BY <2>9
      <3> QED BY <2>2, <2>12, <3>1 DEF Unique
    <2> QED BY <2>7, <2>10, <2>11, <2>12 DEF r
  <1> QED BY <1>1, <1>2

LEMMA Registers ==
  ASSUME NEW s \in Seq(Keys), Unique(s), NEW k \in Keys, k \notin ToSet(s)
  PROVE  /\ Append(s, k) \in Seq(Keys) /\ Unique(Append(s, k))
         /\ ToSet(Append(s, k)) = ToSet(s) \cup {k}
  <1>0. Len(s) \in Nat /\ DOMAIN s = 1 .. Len(s) /\ ToSet(s) = {s[i] : i \in 1 .. Len(s)}
    BY LenProperties DEF ToSet
  <1> DEFINE r == Append(s, k)
  <1>1. /\ r \in Seq(Keys) /\ Len(r) = Len(s) + 1 /\ r[Len(s) + 1] = k
        /\ \A i \in 1 .. Len(s) : r[i] = s[i]
    BY AppendProperties
  <1>2. DOMAIN r = 1 .. Len(r) /\ ToSet(r) = {r[i] : i \in 1 .. Len(r)}
    BY <1>1, LenProperties DEF ToSet
  <1> HIDE DEF r
  <1>3. Unique(r)
    <2> SUFFICES ASSUME NEW i \in 1 .. Len(r), NEW j \in 1 .. Len(r), r[i] = r[j]
                 PROVE  i = j
      BY DEF Unique
    <2>1. CASE i \in 1 .. Len(s) /\ j \in 1 .. Len(s)
      BY <1>1, <2>1 DEF Unique
    <2>2. CASE i \in 1 .. Len(s) /\ j = Len(s) + 1
      BY <1>0, <1>1, <2>2
    <2>3. CASE i = Len(s) + 1 /\ j \in 1 .. Len(s)
      BY <1>0, <1>1, <2>3
    <2> QED BY <1>0, <1>1, <2>1, <2>2, <2>3
  <1>4. ToSet(r) = ToSet(s) \cup {k}
    <2>1. \A i \in 1 .. Len(r) : i \in 1 .. Len(s) \/ i = Len(s) + 1
      BY <1>0, <1>1
    <2>2. 1 .. Len(s) \subseteq 1 .. Len(r) /\ Len(s) + 1 \in 1 .. Len(r)
      BY <1>0, <1>1
    <2> QED BY <1>0, <1>1, <1>2, <2>1, <2>2
  <1> QED BY <1>1, <1>3, <1>4 DEF r

-------------------------------------------------------------------------------
(* What the steps have in common *)

Running == [kind : Kinds, gen : Generations, url : Urls, todo : SUBSET Keys, current : Keys]

LEMMA RunningTask ==
  ASSUME TypeOK, task # NoTask
  PROVE  task \in Running
  BY DEF TypeOK, Task, Running

LEMMA DesiredKeys ==
  ASSUME NEW v \in Versions \cup {0}, NEW u \in Urls
  PROVE  Desired(v, u) \subseteq Keys
  <1>1. CASE v = 0
    BY <1>1 DEF Desired
  <1>2. CASE v \in Versions
    BY <1>2 DEF Keys
  <1> QED BY <1>1, <1>2

LEMMA VersionsAreNat == Versions = 1 .. Len(Catalogs) /\ 1 \in Versions /\ Versions \subseteq Nat
  BY RegistrationAssumption DEF Versions

\* A new request carries the generation, and what is published from now on.
LEMMA Discovered ==
  ASSUME TypeOK, NEW kind \in Kinds, NEW gen \in Nat, NEW u \in Urls, Discover(kind, gen, u)
  PROVE  \E f \in Fetch : f.gen = gen /\ f.since = version /\ fetches' = fetches \cup {f}
  <1>1. PICK s \in Slots :
          fetches' = fetches \cup
            {[slot |-> s, kind |-> kind, gen |-> gen, url |-> u, since |-> version]}
    BY DEF Discover, FreeSlots
  <1> DEFINE f == [slot |-> s, kind |-> kind, gen |-> gen, url |-> u, since |-> version]
  <1>2. f \in Fetch
    BY DEF Fetch, Generations, TypeOK
  <1> QED BY <1>1, <1>2

\* One round of the loop of an application: it ends, or it awaits the next key.
LEMMA Proceeds ==
  ASSUME TypeOK, NEW t, NEW kind \in Kinds, NEW gen \in Nat, NEW u \in Urls,
         NEW todo \in SUBSET Keys, NEW c,
         t = [kind |-> kind, gen |-> gen, url |-> u, todo |-> todo, current |-> c],
         NEW registered \in Seq(Keys), Unique(registered), NEW now, Proceed(t, registered, now)
  PROVE  /\ timer' \in BOOLEAN /\ retries' \in 0 .. MaxRetry
         /\ spoiled' \subseteq {"overtaken", "refused", "exhausted"}
         /\ tools' \in Seq(Keys) /\ Unique(tools')
         /\ \/ task' = NoTask /\ ToSet(tools') \subseteq ToSet(registered)
            \/ \E k \in todo :
                 /\ task' \in Running /\ task'.gen = gen /\ task'.current = k
                 /\ task'.todo \subseteq todo
                 /\ ToSet(tools') \subseteq ToSet(registered) \cup {k}
  <1>0. t.kind = kind /\ t.gen = gen /\ t.todo = todo
    OBVIOUS
  <1>1. CASE todo \ ToSet(registered) # {}
    <2> DEFINE new == todo \ ToSet(registered)
               kept(k) == RemoveOldest(registered, {q \in Keys : q.action.name = k.action.name})
    <2>0. \E k \in new : \E ahead \in SUBSET (todo \ {k}) :
            /\ tools' = Append(kept(k), k)
            /\ task' = [t EXCEPT !.todo = ahead, !.current = k]
            /\ UNCHANGED <<retryVars, spoiled>>
      BY <1>0, <1>1, Zenon DEF Proceed
    <2>a. PICK k \in new : \E ahead \in SUBSET (todo \ {k}) :
            /\ tools' = Append(kept(k), k)
            /\ task' = [t EXCEPT !.todo = ahead, !.current = k]
            /\ UNCHANGED <<retryVars, spoiled>>
      BY <2>0
    <2>1. PICK ahead \in SUBSET (todo \ {k}) :
            /\ tools' = Append(kept(k), k)
            /\ task' = [t EXCEPT !.todo = ahead, !.current = k]
            /\ UNCHANGED <<retryVars, spoiled>>
      BY <2>a
    <2>2. task' = [kind |-> kind, gen |-> gen, url |-> u, todo |-> ahead, current |-> k]
      BY <2>1
    <2>3. task' \in Running /\ task'.gen = gen /\ task'.current = k /\ task'.todo \subseteq todo
      BY <2>2 DEF Running, Generations
    <2> DEFINE r == kept(k)
    <2>4. r \in Seq(Keys) /\ Unique(r) /\ ToSet(r) \subseteq ToSet(registered)
      BY Removed
    <2>5. tools' = Append(r, k) /\ k \in Keys /\ k \notin ToSet(registered) /\ k \in todo
      BY <2>1
    <2> HIDE DEF r
    <2>6. tools' \in Seq(Keys) /\ Unique(tools') /\ ToSet(tools') = ToSet(r) \cup {k}
      BY <2>4, <2>5, Registers
    <2>7. /\ timer' \in BOOLEAN /\ retries' \in 0 .. MaxRetry
          /\ spoiled' \subseteq {"overtaken", "refused", "exhausted"}
      BY <2>1 DEF TypeOK, retryVars
    <2> QED BY <2>3, <2>4, <2>5, <2>6, <2>7
  <1>2. CASE todo \ ToSet(registered) = {}
    <2>1. /\ tools' = registered /\ task' = NoTask
          /\ IF kind = "refresh" THEN timer' = FALSE /\ retries' = 0 ELSE UNCHANGED retryVars
          /\ spoiled' = IF kind = "refresh" /\ gen # now THEN spoiled \cup {"overtaken"}
                        ELSE spoiled
      BY <1>0, <1>2 DEF Proceed
    <2>2. timer' \in BOOLEAN
      BY <2>1 DEF TypeOK, retryVars
    <2>4. retries' \in 0 .. MaxRetry
      <3>1. retries' \in {0, retries}
        BY <2>1 DEF retryVars
      <3> QED BY <3>1, RegistrationAssumption DEF TypeOK
    <2>3. spoiled' \subseteq {"overtaken", "refused", "exhausted"}
      BY <2>1 DEF TypeOK
    <2>5. tools' \in Seq(Keys) /\ Unique(tools') /\ ToSet(tools') = ToSet(registered)
      BY <2>1
    <2> QED BY <2>1, <2>2, <2>3, <2>4, <2>5
  <1> QED BY <1>1, <1>2

LEMMA RetryScheduled ==
  ASSUME TypeOK, ScheduleRetry
  PROVE  /\ timer' \in BOOLEAN /\ retries' \in 0 .. MaxRetry
         /\ spoiled' \subseteq {"overtaken", "refused", "exhausted"}
  <1>1. timer' \in BOOLEAN /\ spoiled' \subseteq {"overtaken", "refused", "exhausted"}
    BY DEF TypeOK, ScheduleRetry, retryVars
  <1>2. retries' = retries \/ (retries < MaxRetry /\ retries' = retries + 1)
    <2>1. UNCHANGED <<retryVars, spoiled>> => retries' = retries
      BY DEF retryVars
    <2>2. UNCHANGED retryVars => retries' = retries
      BY DEF retryVars
    <2>3. timer \/ ~Visible => UNCHANGED <<retryVars, spoiled>>
      BY Zenon DEF ScheduleRetry
    <2>4. ~(timer \/ ~Visible) /\ retries >= MaxRetry => UNCHANGED retryVars
      BY DEF ScheduleRetry
    <2>5. ~(timer \/ ~Visible) /\ ~(retries >= MaxRetry) => retries' = retries + 1
      BY DEF ScheduleRetry
    <2>6. retries' = retries \/ (~(retries >= MaxRetry) /\ retries' = retries + 1)
      BY <2>1, <2>2, <2>3, <2>4, <2>5
    <2> QED BY <2>6, RegistrationAssumption DEF TypeOK
  <1> QED BY <1>1, <1>2, RegistrationAssumption DEF TypeOK

-------------------------------------------------------------------------------
(* Each step *)

\* A step that leaves the application, the registry and what is in flight alone.
LEMMA Undisturbed ==
  ASSUME RegistrationInv, TypeOK',
         UNCHANGED <<url, seenUrl, generation, lists, tools, left, fetches, queue, task, version>>
  PROVE  RegistrationInv'
  BY DEF RegistrationInv, InFlightOK, TaskOK, OvertakenIsPending

\* Only a request to the worker goes out.
LEMMA RequestOK ==
  ASSUME RegistrationInv, TypeOK', NEW f \in Fetch, f.gen = generation, f.since = version,
         fetches' = fetches \cup {f},
         UNCHANGED <<url, seenUrl, generation, lists, tools, left, queue, task, version>>
  PROVE  RegistrationInv'
  <1>1. f.gen <= generation /\ lists <= f.since
    BY DEF RegistrationInv, InFlightOK, TypeOK, Generations
  <1> QED BY <1>1 DEF RegistrationInv, InFlightOK, TaskOK, OvertakenIsPending

LEMMA RegisterAdaptersOK ==
  ASSUME RegistrationInv, RegisterAdapters
  PROVE  RegistrationInv'
  <1>1. TypeOK /\ "adapters" \in Kinds /\ generation \in Nat /\ url \in Urls
    BY DEF RegistrationInv, TypeOK, Generations, Kinds
  <1>2. PICK f \in Fetch : f.gen = generation /\ f.since = version /\ fetches' = fetches \cup {f}
    BY <1>1, Discovered DEF RegisterAdapters
  <1>3. TypeOK'
    BY <1>1, <1>2 DEF RegisterAdapters, TypeOK, retryVars, boundVars
  <1> QED BY <1>2, <1>3, RequestOK DEF RegisterAdapters, boundVars

LEMMA RetryTimerOK ==
  ASSUME RegistrationInv, RetryTimer
  PROVE  RegistrationInv'
  <1>1. TypeOK /\ "refresh" \in Kinds /\ generation \in Nat /\ url \in Urls
    BY DEF RegistrationInv, TypeOK, Generations, Kinds
  <1>2. PICK f \in Fetch : f.gen = generation /\ f.since = version /\ fetches' = fetches \cup {f}
    BY <1>1, Discovered DEF RetryTimer
  <1>3. TypeOK'
    BY <1>1, <1>2 DEF RetryTimer, TypeOK, pageVars, boundVars
  <1> QED BY <1>2, <1>3, RequestOK DEF RetryTimer, pageVars, boundVars

LEMMA NavigateOK ==
  ASSUME RegistrationInv, NEW u \in Urls, Navigate(u)
  PROVE  RegistrationInv'
  <1>1. moves' \in Moves
    BY RegistrationAssumption DEF RegistrationInv, TypeOK, Moves, Navigate
  <1>2. TypeOK'
    BY <1>1 DEF RegistrationInv, TypeOK, Navigate, retryVars
  <1>3. url' # seenUrl'
    BY DEF Navigate
  <1>4. UNCHANGED <<generation, lists, tools, fetches, queue, task, version>>
    BY DEF Navigate
  <1> QED BY <1>2, <1>3, <1>4 DEF RegistrationInv, InFlightOK, TaskOK, OvertakenIsPending

LEMMA AllRemoved ==
  ASSUME TypeOK, Unique(tools), UnregisterAll
  PROVE  tools' \in Seq(Keys) /\ Unique(tools') /\ left' \subseteq Keys
  <1>1. tools' \in Seq(Keys) /\ Unique(tools')
    BY Removed DEF TypeOK, UnregisterAll
  <1>2. ToSet(tools') \subseteq Keys
    BY <1>1, LenProperties, ElementOfSeq DEF ToSet
  <1>3. left' \subseteq ToSet(tools')
    BY DEF UnregisterAll
  <1> QED BY <1>1, <1>2, <1>3

\* The generation moves on: nothing in flight and no application has it yet.
LEMMA GenerationMoves ==
  ASSUME RegistrationInv, TypeOK', generation' = generation + 1, lists' \in {0, lists},
         \/ UnregisterAll
         \/ UNCHANGED <<lists, tools, left, seenUrl>>,
         fetches' = fetches \/
           \E f \in Fetch : f.gen = generation' /\ f.since = version /\ fetches' = fetches \cup {f},
         UNCHANGED <<url, queue, task, version>>
  PROVE  RegistrationInv'
  <1>1. /\ generation \in Nat /\ version \in Nat /\ lists \in Nat /\ lists <= version
        /\ \A f \in fetches : f.gen \in Nat /\ f.gen <= generation
        /\ \A i \in 1 .. Len(queue) : queue[i].gen \in Nat /\ queue[i].gen <= generation
    <2>1. version \in Versions /\ lists \in Versions \cup {0} /\ generation \in Nat
          /\ fetches \subseteq Fetch /\ queue \in Seq(Answered)
      BY DEF RegistrationInv, TypeOK, Generations
    <2>2. \A i \in 1 .. Len(queue) : queue[i] \in Answered
      BY <2>1, ElementOfSeq
    <2> QED BY <2>1, <2>2, VersionsAreNat
         DEF RegistrationInv, InFlightOK, Fetch, Answered, Generations
  <1>2. InFlightOK'
    <2>1. ASSUME NEW f \in fetches'
          PROVE  f.gen <= generation' /\ (f.gen = generation' => lists' <= f.since)
      BY <1>1, <2>1
    <2>2. ASSUME NEW i \in 1 .. Len(queue)
          PROVE  queue[i].gen <= generation' /\ queue[i].gen # generation' /\ queue[i].version <= version
      BY <1>1, <2>2 DEF RegistrationInv, InFlightOK
    <2> QED BY <1>1, <2>1, <2>2 DEF InFlightOK
  <1>3. task # NoTask => task.gen <= generation' /\ task.gen # generation'
    <2>1. task # NoTask => task.gen \in Nat /\ task.gen <= generation
      BY RunningTask DEF RegistrationInv, TaskOK, Running, Generations
    <2> QED BY <1>1, <2>1
  <1>4. Unique(tools') /\ OvertakenIsPending'
    <2>1. CASE UnregisterAll
      BY <1>3, <2>1, AllRemoved DEF RegistrationInv, OvertakenIsPending, UnregisterAll
    <2>2. CASE UNCHANGED <<lists, tools, left, seenUrl>>
      BY <2>2, <1>3 DEF RegistrationInv, OvertakenIsPending
    <2> QED BY <2>1, <2>2
  <1> QED BY <1>2, <1>3, <1>4 DEF RegistrationInv, TaskOK

LEMMA NavigationSeenOK ==
  ASSUME RegistrationInv, NavigationSeen
  PROVE  RegistrationInv'
  <1>1. TypeOK /\ "refresh" \in Kinds /\ generation' = generation + 1 /\ generation' \in Nat
        /\ url \in Urls
    BY DEF RegistrationInv, TypeOK, Generations, Kinds, NavigationSeen
  <1>2. \/ fetches' = fetches
        \/ \E f \in Fetch : f.gen = generation' /\ f.since = version /\ fetches' = fetches \cup {f}
    <2>1. \A g \in Nat : Discover("refresh", g, url) =>
            \E f \in Fetch : f.gen = g /\ f.since = version /\ fetches' = fetches \cup {f}
      BY <1>1, Discovered
    <2>2. fetches' = fetches \/ Discover("refresh", generation', url)
      BY DEF NavigationSeen
    <2> QED BY <1>1, <2>1, <2>2
  <1>3. fetches' \subseteq Fetch /\ retries' \in 0 .. MaxRetry
    <2>1. fetches' \subseteq Fetch
      BY <1>1, <1>2 DEF TypeOK
    <2>2. retries' = 0
      BY DEF NavigationSeen
    <2> QED BY <2>1, <2>2, RegistrationAssumption
  <1>5. UnregisterAll /\ tools' \in Seq(Keys) /\ left' \subseteq Keys
    BY AllRemoved DEF RegistrationInv, NavigationSeen
  <1>4. TypeOK'
    BY <1>1, <1>3, <1>5 DEF NavigationSeen, TypeOK, Generations, boundVars
  <1>7. lists' \in {0, lists} /\ UNCHANGED <<url, queue, task, version>>
    BY DEF NavigationSeen, boundVars
  <1> DEFINE G == \E f \in Fetch : f.gen = generation' /\ f.since = version
                               /\ fetches' = fetches \cup {f}
  <1>6. generation' = generation + 1 /\ (fetches' = fetches \/ G)
    BY <1>1, <1>2
  <1> HIDE DEF G
  <1> QED BY <1>4, <1>5, <1>6, <1>7, GenerationMoves DEF G

LEMMA PageHideOK ==
  ASSUME RegistrationInv, PageHide
  PROVE  RegistrationInv'
  <1>1. moves' \in Moves /\ generation' \in Generations
    BY RegistrationAssumption DEF RegistrationInv, TypeOK, Moves, Generations, PageHide
  <1>2. TypeOK'
    BY <1>1 DEF RegistrationInv, TypeOK, PageHide
  <1> QED BY <1>2, GenerationMoves DEF PageHide

LEMMA StopOK ==
  ASSUME RegistrationInv, Stop
  PROVE  RegistrationInv'
  <1>1. moves' \in Moves /\ generation' \in Generations
    BY RegistrationAssumption DEF RegistrationInv, TypeOK, Moves, Generations, Stop
  <1>2. UnregisterAll /\ tools' \in Seq(Keys) /\ left' \subseteq Keys
    BY AllRemoved DEF RegistrationInv, Stop
  <1>3. TypeOK'
    BY <1>1, <1>2 DEF RegistrationInv, TypeOK, Stop
  <1> QED BY <1>2, <1>3, GenerationMoves DEF Stop

LEMMA PageShowOK ==
  ASSUME RegistrationInv, PageShow
  PROVE  RegistrationInv'
  <1>1. TypeOK /\ "refresh" \in Kinds /\ generation \in Nat /\ url \in Urls
    BY DEF RegistrationInv, TypeOK, Generations, Kinds
  <1>2. CASE url = seenUrl
    <2>1. PICK f \in Fetch : f.gen = generation /\ f.since = version /\ fetches' = fetches \cup {f}
      BY <1>1, <1>2, Discovered DEF PageShow
    <2>2. TypeOK'
      BY <1>1, <2>1 DEF PageShow, TypeOK, retryVars, boundVars
    <2> QED BY <2>1, <2>2, RequestOK DEF PageShow, boundVars
  <1>3. CASE url # seenUrl
    <2>1. TypeOK'
      BY <1>1, <1>3 DEF PageShow, TypeOK, retryVars, boundVars
    <2> QED BY <1>3, <2>1, Undisturbed DEF PageShow, boundVars
  <1> QED BY <1>2, <1>3

LEMMA PublishOK ==
  ASSUME RegistrationInv, Publish
  PROVE  RegistrationInv'
  <1>1. version' = version + 1 /\ version' \in Versions
        /\ UNCHANGED <<url, seenUrl, generation, lists, tools, left, fetches, queue, task>>
    BY DEF Publish, pageVars
  <1>2. TypeOK'
    BY <1>1 DEF RegistrationInv, TypeOK, Publish, pageVars, retryVars
  <1>3. lists <= version' /\ \A i \in 1 .. Len(queue) : queue[i].version <= version'
    <2>1. lists <= version /\ lists \in Nat /\ version \in Nat /\ queue \in Seq(Answered)
      BY VersionsAreNat DEF RegistrationInv, InFlightOK, TypeOK
    <2>2. \A i \in 1 .. Len(queue) : queue[i].version \in Nat /\ queue[i].version <= version
      <3>1. \A i \in 1 .. Len(queue) : queue[i] \in Answered
        BY <2>1, ElementOfSeq
      <3> QED BY <3>1, VersionsAreNat DEF RegistrationInv, InFlightOK, Answered
    <2> QED BY <1>1, <2>1, <2>2
  <1> QED BY <1>1, <1>2, <1>3 DEF RegistrationInv, InFlightOK, TaskOK, OvertakenIsPending

\* The answer is queued for its turn, with the generation of its request.
LEMMA FetchAnsweredOK ==
  ASSUME RegistrationInv, NEW f \in fetches, FetchAnswered(f)
  PROVE  RegistrationInv'
  <1>1. PICK v \in f.since .. version :
          queue' = Append(queue, [kind |-> f.kind, gen |-> f.gen, url |-> f.url, version |-> v])
    BY DEF FetchAnswered
  <1> DEFINE d == [kind |-> f.kind, gen |-> f.gen, url |-> f.url, version |-> v]
  <1>2. /\ f \in Fetch /\ version \in Versions /\ queue \in Seq(Answered) /\ lists \in Nat
        /\ f.gen <= generation /\ (f.gen = generation => lists <= f.since)
    BY VersionsAreNat DEF RegistrationInv, TypeOK, InFlightOK
  <1>3. v \in Versions /\ f.since <= v /\ v <= version /\ f.since \in Nat /\ v \in Nat
    <2>1. f.since \in Nat /\ version \in Nat /\ f.since >= 1 /\ version <= Len(Catalogs)
          /\ Len(Catalogs) \in Nat
      BY <1>2, VersionsAreNat, RegistrationAssumption DEF Fetch
    <2>2. v \in 1 .. Len(Catalogs) /\ f.since <= v /\ v <= version /\ v \in Nat
      BY <2>1
    <2> QED BY <2>1, <2>2, VersionsAreNat
  <1>4. d \in Answered /\ d.gen = f.gen /\ d.version = v
    BY <1>2, <1>3 DEF Fetch, Answered
  <1> HIDE DEF d
  <1>5. /\ queue' \in Seq(Answered) /\ Len(queue') = Len(queue) + 1 /\ Len(queue) \in Nat
        /\ queue'[Len(queue) + 1] = d /\ \A i \in 1 .. Len(queue) : queue'[i] = queue[i]
    <2>1. queue' = Append(queue, d)
      BY <1>1 DEF d
    <2> QED BY <1>2, <1>4, <2>1, AppendProperties, LenProperties
  <1>6. fetches' = fetches \ {f}
        /\ UNCHANGED <<pageVars, generation, lists, tools, left, task, retryVars, boundVars, spoiled>>
    BY DEF FetchAnswered
  <1>7. TypeOK'
    BY <1>5, <1>6 DEF RegistrationInv, TypeOK, pageVars, retryVars, boundVars
  <1>8. InFlightOK'
    <2>1. ASSUME NEW i \in 1 .. Len(queue')
          PROVE  /\ queue'[i].gen <= generation /\ queue'[i].version <= version
                 /\ queue'[i].gen = generation => lists <= queue'[i].version
      <3>1. CASE i \in 1 .. Len(queue)
        BY <1>5, <3>1 DEF RegistrationInv, InFlightOK
      <3>2. CASE i = Len(queue) + 1
        BY <1>2, <1>3, <1>4, <1>5, <3>2
      <3> QED BY <1>5, <3>1, <3>2
    <2> QED BY <1>6, <2>1 DEF RegistrationInv, InFlightOK, boundVars
  <1> QED BY <1>6, <1>7, <1>8 DEF RegistrationInv, TaskOK, OvertakenIsPending, pageVars

LEMMA FetchFailsOK ==
  ASSUME RegistrationInv, NEW f \in fetches, FetchFails(f)
  PROVE  RegistrationInv'
  <1>1. /\ fetches' = fetches \ {f} /\ fails' \in 0 .. MaxFails
        /\ UNCHANGED <<pageVars, generation, lists, tools, left, queue, task, version, moves>>
    BY RegistrationAssumption DEF FetchFails, RegistrationInv, TypeOK
  <1>2. ScheduleRetry \/ UNCHANGED <<retryVars, spoiled>>
    BY DEF FetchFails
  <1>3. /\ timer' \in BOOLEAN /\ retries' \in 0 .. MaxRetry
        /\ spoiled' \subseteq {"overtaken", "refused", "exhausted"}
    BY <1>2, RetryScheduled DEF RegistrationInv, TypeOK, retryVars
  <1>4. TypeOK'
    BY <1>1, <1>3 DEF RegistrationInv, TypeOK, pageVars
  <1> QED BY <1>1, <1>4 DEF RegistrationInv, InFlightOK, TaskOK, OvertakenIsPending, pageVars

\* An answer that is stale is dropped; another one replaces the lists.
LEMMA ApplyNextOK ==
  ASSUME RegistrationInv, ApplyNext
  PROVE  RegistrationInv' /\ (lists' = lists \/ lists' >= lists)
  <1> DEFINE d == Head(queue)
             desired == Desired(d.version, url)
             c == CHOOSE k \in Keys : TRUE
             t == [kind |-> d.kind, gen |-> generation + 1, url |-> d.url, todo |-> desired,
                   current |-> c]
  <1>0. TypeOK /\ queue \in Seq(Answered) /\ queue # <<>> /\ task = NoTask /\ generation \in Nat
        /\ url \in Urls /\ lists \in Versions \cup {0} /\ version \in Versions
    BY DEF ApplyNext, RegistrationInv, TypeOK, Generations
  <1>1. /\ queue' = Tail(queue) /\ UNCHANGED <<pageVars, fetches, boundVars>>
        /\ IF stopped \/ d.gen # generation \/ d.url # url
           THEN UNCHANGED <<generation, lists, tools, left, task, retryVars, spoiled>>
           ELSE /\ generation' = generation + 1
                /\ lists' = d.version
                /\ Proceed(t, RemoveOldest(tools, Keys \ desired), generation + 1)
                /\ left' = ToSet(tools') \ desired
    BY DEF ApplyNext
  <1>2. /\ Len(queue) \in Nat /\ Len(queue) > 0 /\ d = queue[1] /\ d \in Answered
        /\ queue' \in Seq(Answered) /\ Len(queue') = Len(queue) - 1
        /\ \A i \in 1 .. Len(queue') : queue'[i] = queue[i + 1] /\ i + 1 \in 1 .. Len(queue)
        /\ \A i \in 1 .. Len(queue) : queue[i] \in Answered
    <2>1. Len(queue) \in Nat /\ Len(queue) > 0 /\ \A i \in 1 .. Len(queue) : queue[i] \in Answered
      BY <1>0, EmptySeq, LenProperties, ElementOfSeq
    <2>2. queue' \in Seq(Answered) /\ Len(queue') = Len(queue) - 1
          /\ \A i \in 1 .. Len(queue') : queue'[i] = queue[i + 1]
      BY <1>0, <1>1, HeadTailProperties
    <2>3. d = queue[1]
      BY <1>0, <2>1
    <2> QED BY <2>1, <2>2, <2>3
  <1>3. \A i \in 1 .. Len(queue) :
          /\ queue[i].gen <= generation /\ queue[i].version <= version
          /\ queue[i].gen = generation => lists <= queue[i].version
    BY DEF RegistrationInv, InFlightOK
  <1>4. d.kind \in Kinds /\ d.gen \in Nat /\ d.url \in Urls /\ d.version \in Versions
        /\ d.version \in Nat /\ lists \in Nat
    BY <1>0, <1>2, VersionsAreNat DEF Answered, Generations
  <1>5. CASE stopped \/ d.gen # generation \/ d.url # url
    <2>1. UNCHANGED <<generation, lists, tools, left, task, retryVars, spoiled>>
      BY <1>1, <1>5
    <2>2. TypeOK'
      BY <1>0, <1>1, <1>2, <2>1 DEF TypeOK, pageVars, retryVars, boundVars
    <2>3. InFlightOK'
      BY <1>1, <1>2, <1>3, <2>1 DEF RegistrationInv, InFlightOK, boundVars
    <2> QED BY <1>1, <2>1, <2>2, <2>3 DEF RegistrationInv, TaskOK, OvertakenIsPending, pageVars
  <1>6. CASE ~(stopped \/ d.gen # generation \/ d.url # url)
    <2>1. /\ generation' = generation + 1 /\ lists' = d.version
          /\ Proceed(t, RemoveOldest(tools, Keys \ desired), generation + 1)
          /\ left' = ToSet(tools') \ desired
          /\ d.gen = generation /\ d.url = url
      BY <1>1, <1>6
    <2>2. desired \subseteq Keys /\ desired = Desired(lists', url)
      BY <1>0, <1>4, <2>1, DesiredKeys
    <2>3. lists <= lists'
      BY <1>2, <1>3, <2>1
    <2>4. lists' <= version
      <3>1. d.version <= version
        BY <1>2, <1>3
      <3> QED BY <2>1, <3>1
    <2> DEFINE reg == RemoveOldest(tools, Keys \ desired)
               g == generation + 1
    <2>5. reg \in Seq(Keys) /\ Unique(reg) /\ g \in Nat
      <3>1. tools \in Seq(Keys) /\ Unique(tools)
        BY DEF RegistrationInv, TypeOK
      <3> QED BY <1>0, <3>1, Removed
    <2>b. Proceed(t, reg, g) /\ reg \in Seq(Keys) /\ Unique(reg) /\ g \in Nat /\ desired \in SUBSET Keys
          /\ t = [kind |-> d.kind, gen |-> g, url |-> d.url, todo |-> desired, current |-> c]
      BY <2>1, <2>2, <2>5
    <2> HIDE DEF desired, c, d, t, reg, g
    <2>6. /\ timer' \in BOOLEAN /\ retries' \in 0 .. MaxRetry
          /\ spoiled' \subseteq {"overtaken", "refused", "exhausted"}
          /\ tools' \in Seq(Keys) /\ Unique(tools')
          /\ \/ task' = NoTask
             \/ \E k \in desired :
                  /\ task' \in Running /\ task'.gen = g /\ task'.current = k
                  /\ task'.todo \subseteq desired
      <3>1. TypeOK /\ d.kind \in Kinds /\ d.url \in Urls
        BY <1>0, <1>4
      <3> DEFINE kind == d.kind
                 u == d.url
      <3>2. Proceed(t, reg, g) /\ reg \in Seq(Keys) /\ Unique(reg) /\ g \in Nat /\ desired \in SUBSET Keys
            /\ t = [kind |-> kind, gen |-> g, url |-> u, todo |-> desired, current |-> c]
            /\ TypeOK /\ kind \in Kinds /\ u \in Urls
        BY <3>1, <2>b
      <3> HIDE DEF kind, u
      <3> QED BY <3>2, Proceeds
    <2>7. left' \subseteq Keys /\ ToSet(tools') \subseteq desired \cup left' /\ task' \in Task
          /\ (task' # NoTask => task'.gen = generation' /\ task'.todo \cup {task'.current} \subseteq desired)
      <3>1. ToSet(tools') \subseteq Keys
        BY <2>6, LenProperties, ElementOfSeq DEF ToSet
      <3> QED BY <2>1, <2>6, <3>1 DEF Running, Task, reg, g
    <2>8. TypeOK'
      BY <1>0, <1>1, <1>2, <1>4, <2>1, <2>2, <2>5, <2>6, <2>7
         DEF TypeOK, Generations, pageVars, boundVars
    <2>9. InFlightOK'
      <3>1. \A f \in fetches : f.gen <= generation' /\ f.gen # generation'
        BY <1>0, <2>1 DEF RegistrationInv, TypeOK, InFlightOK, Fetch, Generations
      <3>2. ASSUME NEW i \in 1 .. Len(queue')
            PROVE  queue'[i].gen <= generation' /\ queue'[i].gen # generation' /\ queue'[i].version <= version
        <4>1. queue'[i] \in Answered /\ queue'[i].gen <= generation /\ queue'[i].version <= version
          BY <1>2, <1>3
        <4>2. queue'[i].gen \in Nat
          BY <4>1 DEF Answered, Generations
        <4> QED BY <1>0, <2>1, <4>1, <4>2
      <3> QED BY <1>1, <2>4, <3>1, <3>2 DEF InFlightOK, boundVars
    <2>10. TaskOK' /\ Unique(tools') /\ OvertakenIsPending'
      BY <1>0, <1>1, <2>1, <2>2, <2>6, <2>7 DEF TaskOK, OvertakenIsPending, pageVars
    <2> QED BY <2>3, <2>8, <2>9, <2>10, <1>4, <2>1 DEF RegistrationInv
  <1> QED BY <1>5, <1>6

\* The loop goes on: what an overtaken application leaves was its own key.
LEMMA RegisteredOK ==
  ASSUME RegistrationInv, Registered
  PROVE  RegistrationInv'
  <1> DEFINE reg == IF task.gen # generation THEN RemoveOldest(tools, {task.current}) ELSE tools
  <1>0. /\ TypeOK /\ task \in Running /\ task # NoTask /\ task.gen <= generation
        /\ Proceed(task, reg, generation) /\ generation \in Nat
        /\ left' = left \cap ToSet(tools')
        /\ UNCHANGED <<pageVars, generation, lists, fetches, queue, boundVars>>
        /\ task.kind \in Kinds /\ task.gen \in Nat /\ task.url \in Urls
        /\ task.todo \in SUBSET Keys
    BY RunningTask DEF RegistrationInv, TaskOK, Registered, TypeOK, Running, Generations
  <1>1. /\ reg \in Seq(Keys) /\ Unique(reg) /\ ToSet(reg) \subseteq ToSet(tools)
        /\ task.gen # generation => task.current \notin ToSet(reg)
    <2>1. tools \in Seq(Keys) /\ Unique(tools)
      BY DEF RegistrationInv, TypeOK
    <2> QED BY <2>1, Removed
  <1>2. task = [kind |-> task.kind, gen |-> task.gen, url |-> task.url, todo |-> task.todo,
                current |-> task.current]
    BY <1>0 DEF Running
  <1>3. url = seenUrl => ToSet(reg) \subseteq Desired(lists, url) \cup left
    BY <1>0, <1>1 DEF RegistrationInv, OvertakenIsPending
  <1>4. url = seenUrl /\ task.gen = generation => task.todo \subseteq Desired(lists, url)
    BY <1>0 DEF RegistrationInv, TaskOK
  <1> HIDE DEF reg
  <1>5. /\ timer' \in BOOLEAN /\ retries' \in 0 .. MaxRetry
        /\ spoiled' \subseteq {"overtaken", "refused", "exhausted"}
        /\ tools' \in Seq(Keys) /\ Unique(tools')
        /\ \/ task' = NoTask /\ ToSet(tools') \subseteq ToSet(reg)
           \/ \E k \in task.todo :
                /\ task' \in Running /\ task'.gen = task.gen /\ task'.current = k
                /\ task'.todo \subseteq task.todo
                /\ ToSet(tools') \subseteq ToSet(reg) \cup {k}
    BY <1>0, <1>1, <1>2, Proceeds
  <1>6. left' \subseteq Keys /\ task' \in Task
    BY <1>0, <1>5 DEF Task, Running, TypeOK
  <1>7. TypeOK'
    BY <1>0, <1>5, <1>6 DEF TypeOK, pageVars, boundVars
  <1>8. TaskOK' /\ OvertakenIsPending'
    <2>1. CASE task' = NoTask /\ ToSet(tools') \subseteq ToSet(reg)
      BY <1>0, <1>3, <2>1 DEF TaskOK, OvertakenIsPending, pageVars
    <2>2. ASSUME NEW k \in task.todo, task' \in Running, task'.gen = task.gen, task'.current = k,
                 task'.todo \subseteq task.todo, ToSet(tools') \subseteq ToSet(reg) \cup {k}
          PROVE  TaskOK' /\ OvertakenIsPending'
      <3>1. task' # NoTask
        BY <2>2 DEF Running, NoTask, Kinds
      <3>2. TaskOK'
        BY <1>0, <1>4, <2>2 DEF TaskOK, pageVars
      <3>3. OvertakenIsPending'
        BY <1>0, <1>3, <1>4, <2>2, <3>1 DEF OvertakenIsPending, pageVars
      <3> QED BY <3>2, <3>3
    <2> QED BY <1>5, <2>1, <2>2
  <1> QED BY <1>0, <1>5, <1>7, <1>8 DEF RegistrationInv, InFlightOK, boundVars

LEMMA RegisterFailsOK ==
  ASSUME RegistrationInv, RegisterFails
  PROVE  RegistrationInv'
  <1>1. /\ fails' \in 0 .. MaxFails /\ task' = NoTask
        /\ tools' = RemoveOldest(tools, {task.current}) /\ left' = left \cap ToSet(tools')
        /\ UNCHANGED <<pageVars, generation, lists, fetches, queue, version, moves>>
    BY RegistrationAssumption DEF RegisterFails, RegistrationInv, TypeOK
  <1>2. \/ ScheduleRetry
        \/ spoiled' = spoiled \cup {"refused"} /\ UNCHANGED retryVars
    BY DEF RegisterFails
  <1>3. /\ timer' \in BOOLEAN /\ retries' \in 0 .. MaxRetry
        /\ spoiled' \subseteq {"overtaken", "refused", "exhausted"}
    BY <1>2, RetryScheduled DEF RegistrationInv, TypeOK, retryVars
  <1>5. /\ tools' \in Seq(Keys) /\ Unique(tools') /\ ToSet(tools') \subseteq ToSet(tools)
        /\ task.current \notin ToSet(tools')
    <2>1. tools \in Seq(Keys) /\ Unique(tools)
      BY DEF RegistrationInv, TypeOK
    <2> QED BY <1>1, <2>1, Removed
  <1>4. TypeOK'
    BY <1>1, <1>3, <1>5 DEF RegistrationInv, TypeOK, Task, pageVars
  <1>6. OvertakenIsPending'
    BY <1>1, <1>5 DEF RegistrationInv, OvertakenIsPending, pageVars
  <1> QED BY <1>1, <1>4, <1>5, <1>6 DEF RegistrationInv, InFlightOK, TaskOK, pageVars

-------------------------------------------------------------------------------
(* The theorems *)

LEMMA RegistrationInit == Init => RegistrationInv
  <1> SUFFICES ASSUME Init PROVE RegistrationInv
    OBVIOUS
  <1>1. /\ queue \in Seq(Answered) /\ Len(queue) = 0
        /\ tools \in Seq(Keys) /\ Len(tools) = 0 /\ ToSet(tools) = {}
    <2>1. \A S : <<>> \in Seq(S) /\ Len(<<>>) = 0
      OBVIOUS
    <2>2. ToSet(<<>>) = {}
      BY DEF ToSet
    <2> QED BY <2>1, <2>2 DEF Init
  <1>2. version \in Versions /\ lists <= version
    BY VersionsAreNat DEF Init
  <1>3. retries \in 0 .. MaxRetry /\ fails \in 0 .. MaxFails /\ moves \in Moves
    BY RegistrationAssumption DEF Init, Moves
  <1>4. TypeOK
    BY <1>1, <1>2, <1>3, RegistrationAssumption DEF Init, TypeOK, Task, Generations
  <1>5. InFlightOK
    BY <1>1, <1>2 DEF Init, InFlightOK
  <1>6. Unique(tools)
    BY <1>1 DEF Unique
  <1> QED BY <1>1, <1>4, <1>5, <1>6 DEF Init, RegistrationInv, TaskOK, OvertakenIsPending

LEMMA RegistrationStep == RegistrationInv /\ [Next]_vars => RegistrationInv'
  <1> SUFFICES ASSUME RegistrationInv, [Next]_vars PROVE RegistrationInv'
    OBVIOUS
  <1>1. CASE UNCHANGED vars
    <2>1. UNCHANGED <<pageVars, generation, lists, tools, left, fetches, queue, task, retryVars,
                      boundVars, spoiled>>
      BY <1>1 DEF vars
    <2>2. TypeOK'
      BY <2>1 DEF RegistrationInv, TypeOK, pageVars, retryVars, boundVars
    <2> QED BY <2>1, <2>2, Undisturbed DEF pageVars, boundVars
  <1>2. CASE Next
    BY <1>2, RegisterAdaptersOK, RetryTimerOK, NavigationSeenOK, PageHideOK, PageShowOK, StopOK,
       ApplyNextOK, RegisteredOK, RegisterFailsOK, PublishOK, NavigateOK, FetchAnsweredOK,
       FetchFailsOK
    DEF Next
  <1> QED BY <1>1, <1>2

\* The registry of tools is of the published keys, whatever is in flight.
THEOREM RegistrationTypes == Spec => []TypeOK
  <1>1. RegistrationInv => TypeOK
    BY DEF RegistrationInv
  <1> QED BY <1>1, RegistrationInit, RegistrationStep, PTL DEF Spec

\* However refreshes and navigations overtake each other, they add no tool of
\* their own: once a navigation is seen, a registered tool is one the lists
\* applied last offer at this URL, the one whose registerTool an overtaken
\* application awaits, or one that unregisterAll or applyActionLists was to
\* remove and, passing an index for the controller, has left registered.
THEOREM NothingOvertakenOffered == Spec => []OvertakenIsPending
  <1>1. RegistrationInv => OvertakenIsPending
    BY DEF RegistrationInv
  <1> QED BY <1>1, RegistrationInit, RegistrationStep, PTL DEF Spec

\* However many discoveries are in flight, and in whatever order they are
\* answered, the lists a page has applied are replaced by none that is older
\* (the generation of the discovery's token).
THEOREM ListsNeverRegress == Spec => NoListRegression
  <1>1. RegistrationInv /\ [Next]_vars => [lists' # 0 => lists' >= lists]_vars
    <2> SUFFICES ASSUME RegistrationInv, Next, lists' # 0 PROVE lists' >= lists
      OBVIOUS
    <2>1. ~ApplyNext => lists' \in {0, lists}
      BY DEF Next, RegisterAdapters, RetryTimer, NavigationSeen, PageHide, PageShow, Stop,
             Registered, RegisterFails, Publish, Navigate, FetchAnswered, FetchFails
    <2>2. lists \in Nat
      BY VersionsAreNat DEF RegistrationInv, TypeOK
    <2> QED BY <2>1, <2>2, ApplyNextOK
  <1> QED BY <1>1, RegistrationInit, RegistrationStep, PTL DEF Spec, NoListRegression
==============================================================================
