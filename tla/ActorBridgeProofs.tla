--------------------------- MODULE ActorBridgeProofs ---------------------------
(* Theorems about ActorBridge, for every set of plans, number of documents and
   number of lost ports. *)
EXTENDS ActorBridge, SequenceTheorems, TLAPS

-------------------------------------------------------------------------------
(* The inductive invariant *)

Statuses == {"opening", "page", "effect", "navigation", "confirm", "completed", "failed"}
Run == [plan : Plans, status : Statuses, step : Nat, cmd : Nat, pend : 0 .. MaxDocs,
        last : [Docs -> Nat], exec : 0 .. MaxDocs, nav : Nat, approved : BOOLEAN,
        attest : BOOLEAN, bound : [doc : 0 .. MaxDocs, seq : Nat, nav : Nat]]

\* What goes up to the worker, and down to the document.
Up == [type : {"page", "completed", "failed", "replaced"}, seq : Nat, nav : Nat, cmd : Nat]
Down == [type : {"binding"}, last : Nat, nav : Nat] \cup [type : {"command"}, cmd : Nat, step : Nat]
Wire == [open : BOOLEAN, down : Seq(Down), up : Seq(Up)]

\* Bindings and executions have names of any kind: the proofs compare them only.
Execution(I) == [id : I, cmd : Nat, step : Nat, phase : {"detecting", "waiting"}]
Binding(I) == [id : I, last : Nat, nav : Nat]

Types ==
  /\ run \in Run /\ doc \in Docs /\ wire \in [Docs -> Wire]
  /\ \E I, J : bridge \in [started : BOOLEAN, binding : Binding(I), active : J, seq : Nat]
  /\ \A a \in announcing : \E I : a \in Binding(I)
  /\ \A e \in execs : \E I : e \in Execution(I)
  /\ performed \in [Steps -> Nat]

Items(q) == {q[i] : i \in 1 .. Len(q)}

\* A command is pending exactly while its effect is awaited.
RunOK(R) ==
  /\ R.step \in 1 .. Len(R.plan.ops)
  /\ R.status \in Pending =>
       /\ R.cmd = R.step /\ R.exec \in Docs
       /\ R.plan.ops[R.step] = IF R.status = "navigation" THEN "navigate" ELSE "act"
  /\ R.status \notin Pending => R.cmd = 0

\* Who reports a command has performed it; the document has one execution at a
\* time, the active one.
MessagesOK ==
  /\ \A d \in Docs : d # doc => wire[d].down = <<>>
  /\ \A d \in Docs : \A m \in Items(wire[d].up) :
       /\ m.cmd \in 0 .. Len(Ops)
       /\ m.type = "completed" => m.cmd \in Steps /\ performed[m.cmd] > 0
  /\ \A d \in Docs : \A m \in Items(wire[d].down) :
       m.type = "command" => m.cmd = m.step /\ m.step \in Steps

ExecsOK ==
  \A e \in execs :
    /\ e.cmd = e.step /\ e.step \in Steps /\ e.id = bridge.active
    /\ e.phase = "waiting" => performed[e.step] > 0
    /\ \A f \in execs : f = e

\* Message i to the document is the command of step s.
Ordered(s, i) ==
  /\ i \in 1 .. Len(wire[doc].down)
  /\ wire[doc].down[i].type = "command" /\ wire[doc].down[i].step = s

\* No command of step s was prepared yet.
Unordered(R, s) == s > R.step \/ (s = R.step /\ R.status \in {"opening", "page", "confirm"})

\* The command of a step that may not be repeated is in one place at a time.
OnceOK ==
  ~run.plan.safe => \A s \in Steps :
    /\ performed[s] <= 1
    /\ \A e \in execs : e.step = s /\ e.phase = "detecting" => performed[s] = 0
    /\ \A i \in Nat : Ordered(s, i) =>
         /\ performed[s] = 0 /\ \A e \in execs : e.step # s
         /\ \A j \in Nat : Ordered(s, j) => j = i
    /\ Unordered(run, s) =>
         performed[s] = 0 /\ (\A e \in execs : e.step # s) /\ \A i \in Nat : ~Ordered(s, i)

ActorInv == Types /\ RunOK(run) /\ MessagesOK /\ ExecsOK /\ OnceOK /\ TakenStepsWerePerformed

-------------------------------------------------------------------------------
(* Sequences and wires *)

LEMMA Indices ==
  ASSUME NEW S, NEW q \in Seq(S)
  PROVE  Len(q) \in Nat /\ \A i \in 1 .. Len(q) : q[i] \in S
  BY LenProperties, ElementOfSeq

LEMMA AppendItems ==
  ASSUME NEW S, NEW q \in Seq(S), NEW x \in S
  PROVE  /\ Append(q, x) \in Seq(S) /\ Len(Append(q, x)) = Len(q) + 1
         /\ Append(q, x)[Len(q) + 1] = x
         /\ \A i \in 1 .. Len(q) : Append(q, x)[i] = q[i]
         /\ Items(Append(q, x)) = Items(q) \cup {x}
  <1>1. /\ Append(q, x) \in Seq(S) /\ Len(Append(q, x)) = Len(q) + 1
        /\ Append(q, x)[Len(q) + 1] = x
        /\ \A i \in 1 .. Len(q) : Append(q, x)[i] = q[i]
        /\ Len(q) \in Nat
    BY AppendProperties, LenProperties
  <1>2. Items(Append(q, x)) \subseteq Items(q) \cup {x}
    <2> SUFFICES ASSUME NEW i \in 1 .. Len(q) + 1
                 PROVE  Append(q, x)[i] \in Items(q) \cup {x}
      BY <1>1 DEF Items
    <2> QED BY <1>1 DEF Items
  <1>3. Items(q) \cup {x} \subseteq Items(Append(q, x))
    <2>1. ASSUME NEW i \in 1 .. Len(q)
          PROVE  q[i] \in Items(Append(q, x))
      BY <1>1 DEF Items
    <2>2. x \in Items(Append(q, x))
      BY <1>1 DEF Items
    <2> QED BY <2>1, <2>2 DEF Items
  <1> QED BY <1>1, <1>2, <1>3

LEMMA TailItems ==
  ASSUME NEW S, NEW q \in Seq(S), q # <<>>
  PROVE  /\ Tail(q) \in Seq(S) /\ Len(Tail(q)) = Len(q) - 1 /\ Len(q) \in Nat /\ Len(q) >= 1
         /\ \A i \in 1 .. Len(Tail(q)) : Tail(q)[i] = q[i + 1]
         /\ Items(Tail(q)) \subseteq Items(q)
         /\ Head(q) = q[1] /\ Head(q) \in Items(q) /\ Head(q) \in S
  <1>1. /\ Tail(q) \in Seq(S) /\ Len(Tail(q)) = Len(q) - 1 /\ Len(q) \in Nat /\ Len(q) >= 1
        /\ \A i \in 1 .. Len(Tail(q)) : Tail(q)[i] = q[i + 1]
        /\ Head(q) = q[1] /\ Head(q) \in S
    BY HeadTailProperties, LenProperties, EmptySeq
  <1>2. Head(q) \in Items(q)
    BY <1>1 DEF Items
  <1>3. Items(Tail(q)) \subseteq Items(q)
    <2> SUFFICES ASSUME NEW i \in 1 .. Len(Tail(q)) PROVE Tail(q)[i] \in Items(q)
      BY DEF Items
    <2> QED BY <1>1 DEF Items
  <1> QED BY <1>1, <1>2, <1>3

LEMMA PrefixItems ==
  ASSUME NEW S, NEW q \in Seq(S), NEW n \in 0 .. Len(q)
  PROVE  SubSeq(q, 1, n) \in Seq(S) /\ Items(SubSeq(q, 1, n)) \subseteq Items(q)
  <1>1. /\ Len(q) \in Nat /\ n \in Nat /\ n <= Len(q)
        /\ \A i \in 1 .. Len(q) : q[i] \in S
    BY Indices
  <1>2. SubSeq(q, 1, n) = [i \in 1 .. n |-> q[i]]
    BY <1>1
  <1>3. SubSeq(q, 1, n) \in Seq(S) /\ Len(SubSeq(q, 1, n)) = n
    BY <1>1, <1>2
  <1> QED BY <1>1, <1>2, <1>3 DEF Items

LEMMA NothingItems == (\A S : <<>> \in Seq(S)) /\ Items(<<>>) = {} /\ Len(<<>>) = 0
  BY DEF Items

LEMMA ClosedWire == Closed \in Wire /\ Closed.down = <<>> /\ Closed.up = <<>>
  BY NothingItems DEF Closed, Wire

\* postEnvelope adds at most the one message, numbered.
LEMMA Enveloped ==
  ASSUME NEW w \in Wire, NEW b, b.seq \in Nat, NEW m, m.nav \in Nat, m.cmd \in Nat,
         m.type \in {"page", "completed", "failed", "replaced"}
  PROVE  /\ PostEnvelope(b, w, m) \in Wire /\ PostEnvelope(b, w, m).down = w.down
         /\ \A x \in Items(PostEnvelope(b, w, m).up) :
              x \in Items(w.up) \/ (x.type = m.type /\ x.cmd = m.cmd)
  <1> DEFINE x == [type |-> m.type, seq |-> b.seq + 1, nav |-> m.nav, cmd |-> m.cmd]
             v == [w EXCEPT !.up = Append(w.up, x)]
  <1>1. x \in Up /\ x.type = m.type /\ x.cmd = m.cmd
    BY DEF Up
  <1>2. PostEnvelope(b, w, m) = w \/ PostEnvelope(b, w, m) = v
    BY DEF PostEnvelope
  <1> HIDE DEF x
  <1>3. w.up \in Seq(Up) /\ Append(w.up, x) \in Seq(Up) /\ Items(Append(w.up, x)) = Items(w.up) \cup {x}
    BY <1>1, AppendItems DEF Wire
  <1>4. v \in Wire /\ v.down = w.down /\ v.up = Append(w.up, x)
    BY <1>3 DEF Wire
  <1> HIDE DEF v
  <1> QED BY <1>1, <1>2, <1>3, <1>4

-------------------------------------------------------------------------------
(* The record of the run: what one step of the coordinator makes of it *)

\* The pending command has an end: a page shows a navigation, or it is reported.
Advance(R, S, done) ==
  /\ S \in Run /\ RunOK(S) /\ S.plan = R.plan
  /\ \/ S.step = R.step /\ S.status = R.status /\ S.cmd = R.cmd
     \/ S.step = R.step /\ S.status = "failed"
     \/ S.step = R.step /\ R.status \in {"opening", "confirm"} /\ S.status = "page"
     \/ S.step = R.step /\ R.status = "page" /\ S.status \in Pending \cup {"confirm"}
     \/ /\ R.status \in Pending /\ (R.status = "navigation" \/ done)
        /\ \/ S.step = R.step /\ S.status = "completed" /\ R.step = Len(R.plan.ops)
           \/ S.step = R.step + 1 /\ S.status \in Pending \cup {"confirm"}

LEMMA PlanSteps ==
  ASSUME NEW R \in Run
  PROVE  /\ Len(R.plan.ops) \in Nat /\ Len(R.plan.ops) >= 1
         /\ \A s \in 1 .. Len(R.plan.ops) : R.plan.ops[s] \in {"act", "navigate"}
         /\ R.plan.safe \in BOOLEAN
  <1>1. R.plan \in Plan
    BY ActorAssumption DEF Run
  <1>2. R.plan.ops \in Seq({"act", "navigate"}) /\ R.plan.ops # <<>> /\ R.plan.safe \in BOOLEAN
    BY <1>1 DEF Plan
  <1> QED BY <1>2, Indices, EmptySeq

LEMMA FailedOK ==
  ASSUME NEW R \in Run, RunOK(R)
  PROVE  /\ Failed(R) \in Run /\ RunOK(Failed(R)) /\ Failed(R).plan = R.plan
         /\ Failed(R).step = R.step /\ Failed(R).status = "failed"
  <1> DEFINE S == Failed(R)
  <1>1. S \in Run /\ S.plan = R.plan /\ S.step = R.step /\ S.status = "failed" /\ S.cmd = 0
    BY DEF Failed, Run, Statuses
  <1> HIDE DEF S
  <1>2. RunOK(S)
    BY <1>1 DEF RunOK, Pending
  <1> QED BY <1>1, <1>2 DEF S

LEMMA PrepareOK ==
  ASSUME NEW R \in Run, R.plan = run.plan, R.step \in Steps, R.exec \in Docs
  PROVE  /\ Prepare(R) \in Run /\ RunOK(Prepare(R)) /\ Prepare(R).plan = R.plan
         /\ Prepare(R).step = R.step /\ Prepare(R).status \in Pending \cup {"confirm"}
  <1>0. Ops[R.step] \in {"act", "navigate"} /\ R.plan.ops = Ops
    BY PlanSteps DEF Ops, Steps
  <1>1. CASE AwaitsConfirmation(R)
    <2> DEFINE S == [R EXCEPT !.status = "confirm", !.bound = PageOf(R), !.cmd = 0]
    <2>1. PageOf(R) \in [doc : 0 .. MaxDocs, seq : Nat, nav : Nat]
      BY DEF PageOf, Run
    <2>2. S \in Run /\ S.plan = R.plan /\ S.step = R.step /\ S.status = "confirm" /\ S.cmd = 0
      BY <2>1 DEF Run, Statuses
    <2>3. Prepare(R) = S
      BY <1>1 DEF Prepare
    <2> HIDE DEF S
    <2>4. RunOK(S)
      BY <1>0, <2>2 DEF RunOK, Pending, Steps
    <2> QED BY <2>2, <2>3, <2>4
  <1>2. CASE ~AwaitsConfirmation(R)
    <2> DEFINE x == IF Ops[R.step] = "navigate" THEN "navigation" ELSE "effect"
               S == [R EXCEPT !.cmd = R.step, !.pend = R.exec, !.attest = FALSE, !.status = x]
    <2>1. x \in Statuses /\ x \in Pending /\ (x = "navigation" <=> Ops[R.step] = "navigate")
      BY DEF Statuses, Pending
    <2>2. Prepare(R) = S
      BY <1>2 DEF Prepare, NextCommand
    <2> HIDE DEF x
    <2>3. /\ S \in Run /\ S.plan = R.plan /\ S.step = R.step /\ S.status = x /\ S.cmd = R.step
          /\ S.exec = R.exec
      BY <2>1 DEF Run
    <2> HIDE DEF S
    <2>4. RunOK(S)
      BY <1>0, <2>1, <2>3 DEF RunOK, Steps
    <2> QED BY <2>1, <2>2, <2>3, <2>4
  <1> QED BY <1>1, <1>2

\* A run that goes on with its next step, or ends.
LEMMA CompletePendingOK ==
  ASSUME NEW R \in Run, R.plan = run.plan, R.step \in Steps, R.exec \in Docs
  PROVE  /\ CompletePending(R) \in Run /\ RunOK(CompletePending(R))
         /\ CompletePending(R).plan = R.plan
         /\ \/ /\ CompletePending(R).step = R.step /\ CompletePending(R).status = "completed"
               /\ R.step = Len(R.plan.ops)
            \/ /\ CompletePending(R).step = R.step + 1
               /\ CompletePending(R).status \in Pending \cup {"confirm"}
  <1>0. Len(Ops) \in Nat /\ R.step \in Nat /\ R.plan.ops = Ops
    BY PlanSteps DEF Ops, Run
  <1>1. CASE R.step = Len(Ops)
    <2> DEFINE S == [R EXCEPT !.status = "completed", !.cmd = 0]
    <2>1. S \in Run /\ S.plan = R.plan /\ S.step = R.step /\ S.status = "completed" /\ S.cmd = 0
      BY DEF Run, Statuses
    <2>2. CompletePending(R) = S
      BY <1>1 DEF CompletePending
    <2> HIDE DEF S
    <2>3. RunOK(S)
      BY <1>0, <2>1 DEF RunOK, Pending, Steps
    <2> QED BY <1>0, <1>1, <2>1, <2>2, <2>3
  <1>2. CASE R.step # Len(Ops)
    <2> DEFINE S == [R EXCEPT !.step = R.step + 1, !.cmd = 0]
    <2>0. R.step + 1 \in Nat
      BY <1>0
    <2>1. S \in Run
      BY <2>0 DEF Run
    <2>4. S.plan = R.plan /\ S.step = R.step + 1 /\ S.exec = R.exec
      BY <2>0 DEF Run
    <2>2. CompletePending(R) = Prepare(S)
      BY <1>2 DEF CompletePending
    <2> HIDE DEF S
    <2>3. S.step \in Steps
      <3>1. R.step >= 1 /\ R.step < Len(Ops)
        BY <1>0, <1>2 DEF Steps
      <3>2. R.step + 1 \in Steps
        BY <1>0, <3>1 DEF Steps
      <3> QED BY <2>4, <3>2
    <2> QED BY <2>1, <2>2, <2>3, <2>4, PrepareOK
  <1> QED BY <1>1, <1>2

\* A page event moves the run only as Advance says.
LEMMA HandlePageOK ==
  ASSUME NEW R \in Run, RunOK(R), R.plan = run.plan, NEW d \in Docs, NEW m \in Up,
         NEW good \in BOOLEAN, NEW moved \in BOOLEAN
  PROVE  Advance(R, HandlePage(R, d, m, good, moved), FALSE)
  <1> DEFINE here == [R EXCEPT !.exec = d, !.nav = m.nav]
             H == HandlePage(R, d, m, good, moved)
  <1>1. /\ here \in Run /\ here.plan = R.plan /\ here.step = R.step /\ here.cmd = R.cmd
        /\ here.status = R.status /\ here.exec = d
    <2>1. d \in 0 .. MaxDocs /\ m.nav \in Nat
      BY ActorAssumption DEF Docs, Up
    <2>2. here \in Run
      BY <2>1 DEF Run
    <2> QED BY <2>1, <2>2 DEF Run
  <1>2. \/ H = Failed(here) \/ H = R
        \/ R.status = "navigation" /\ H = CompletePending(here)
        \/ R.status = "page" /\ H = Prepare([here EXCEPT !.attest = FALSE])
        \/ H = here
    BY DEF HandlePage
  <1> DEFINE asked == [here EXCEPT !.attest = FALSE]
  <1>3. /\ asked \in Run /\ asked.plan = R.plan /\ asked.step = R.step /\ asked.exec = d
    BY <1>1 DEF Run
  <1>a. H \in {Failed(here), R, here} \/ (R.status = "navigation" /\ H = CompletePending(here))
        \/ (R.status = "page" /\ H = Prepare(asked))
    BY <1>2
  <1> HIDE DEF here, asked, H
  <1>4. RunOK(here) /\ R.step \in Steps
    BY <1>1 DEF RunOK, Steps, Ops
  <1>5. CASE H \in {Failed(here), R, here}
    <2>1. Advance(R, Failed(here), FALSE)
      BY <1>1, <1>4, FailedOK DEF Advance
    <2>2. Advance(R, R, FALSE) /\ Advance(R, here, FALSE)
      BY <1>1, <1>4 DEF Advance
    <2> QED BY <1>5, <2>1, <2>2 DEF H
  <1>6. CASE R.status = "navigation" /\ H = CompletePending(here)
    <2>1. Advance(R, CompletePending(here), FALSE)
      BY <1>1, <1>4, <1>6, CompletePendingOK DEF Advance, Pending
    <2> QED BY <1>6, <2>1 DEF H
  <1>7. CASE R.status = "page" /\ H = Prepare(asked)
    <2>1. Advance(R, Prepare(asked), FALSE)
      BY <1>3, <1>4, <1>7, PrepareOK DEF Advance
    <2> QED BY <1>7, <2>1 DEF H
  <1> QED BY <1>a, <1>5, <1>6, <1>7

\* So does a report; it ends a step only as the completion of its command.
LEMMA HandleReportOK ==
  ASSUME NEW R \in Run, RunOK(R), R.plan = run.plan, NEW d \in Docs, NEW m \in Up, m.type # "page"
  PROVE  Advance(R, HandleReport(R, d, m), m.type = "completed" /\ m.cmd = R.step)
  <1> DEFINE H == HandleReport(R, d, m)
             done == m.type = "completed" /\ m.cmd = R.step
  <1>1. \/ H = R \/ H = Failed(R)
        \/ /\ m.type = "completed" /\ m.cmd = R.cmd /\ R.status \in Pending
           /\ H = CompletePending(R)
    BY DEF HandleReport, Up
  <1> HIDE DEF H
  <1>2. R.status \in Pending => R.cmd = R.step /\ R.exec \in Docs
    BY DEF RunOK
  <1>3. R.step \in Steps
    BY DEF RunOK, Steps, Ops
  <1>4. Advance(R, R, done) /\ Advance(R, Failed(R), done)
    BY FailedOK DEF Advance
  <1>5. CASE /\ m.type = "completed" /\ m.cmd = R.cmd /\ R.status \in Pending
             /\ H = CompletePending(R)
    <2>1. Advance(R, CompletePending(R), done)
      BY <1>2, <1>3, <1>5, CompletePendingOK DEF Advance
    <2> QED BY <1>5, <2>1 DEF H
  <1> QED BY <1>1, <1>4, <1>5 DEF H

\* A step that is unordered afterwards was unordered before, and the step of a
\* command that is new was unordered before.
LEMMA AdvanceOrders ==
  ASSUME NEW R \in Run, RunOK(R), NEW S \in Run, NEW done, Advance(R, S, done)
  PROVE  /\ \A s \in Nat : Unordered(S, s) => Unordered(R, s)
         /\ S.cmd # 0 => S.status \in Pending /\ S.cmd = S.step /\ ~Unordered(S, S.step)
         /\ S.cmd # 0 /\ S.cmd # R.cmd => Unordered(R, S.step)
  <1>1. R.step \in Nat /\ S.step \in Nat
    BY DEF Run
  <1>2. S.cmd # 0 => S.status \in Pending /\ S.cmd = S.step
    BY DEF Advance, RunOK
  <1>3. ~Unordered(S, S.step) \/ S.status \notin Pending
    BY <1>1 DEF Unordered, Pending
  <1>4. \A s \in Nat : Unordered(S, s) => Unordered(R, s)
    BY <1>1 DEF Advance, Unordered, Pending
  <1>5. S.cmd # 0 /\ S.cmd # R.cmd => Unordered(R, S.step)
    BY <1>1, <1>2 DEF Advance, Unordered, Pending
  <1> QED BY <1>2, <1>3, <1>4, <1>5

-------------------------------------------------------------------------------
(* A step of the coordinator *)

LEMMA CoordinatorOK ==
  ASSUME ActorInv, NEW done, Advance(run, run', done), done => performed[run.step] > 0,
         wire' \in [Docs -> Wire], \A d \in Docs : d # doc => wire'[d].down = <<>>,
         \A d \in Docs : Items(wire'[d].up) \subseteq Items(wire[d].up),
         \A m \in Items(wire'[doc].down) :
           \/ m \in Items(wire[doc].down) \/ m.type # "command"
           \/ run'.cmd # 0 /\ m = CommandOf(run'),
         \E k : \A s \in Steps, i \in Nat : Ordered(s, i)' =>
           \/ Ordered(s, i) \/ run.plan.safe
           \/ s = run'.step /\ i = k /\ Unordered(run, s) /\ ~Unordered(run', s),
         UNCHANGED <<doc, bridge, execs, announcing, performed>>
  PROVE  ActorInv'
  <1> USE DEF ActorInv
  <1>0. /\ run \in Run /\ RunOK(run) /\ run' \in Run /\ RunOK(run)' /\ run'.plan = run.plan
        /\ Steps' = Steps /\ Ops' = Ops
    BY DEF Types, Advance, Steps, Ops, RunOK
  <1>1. /\ \A s \in Nat : Unordered(run', s) => Unordered(run, s)
        /\ run'.cmd # 0 => run'.cmd = run'.step
    BY <1>0, AdvanceOrders
  <1>2. /\ Len(Ops) \in Nat /\ run.step \in Steps /\ run'.step \in Steps /\ Steps \subseteq Nat
        /\ run.plan.ops = Ops
    BY <1>0, PlanSteps DEF RunOK, Steps, Ops
  <1>3. Types'
    BY <1>0 DEF Types
  <1>4. MessagesOK'
    <2>1. ASSUME NEW m \in Items(wire'[doc].down), m.type = "command"
          PROVE  m.cmd = m.step /\ m.step \in Steps
      <3>1. CASE run'.cmd # 0 /\ m = CommandOf(run')
        <4>1. m.cmd = run'.cmd /\ m.step = run'.step
          BY <3>1 DEF CommandOf
        <4> QED BY <1>1, <1>2, <3>1, <4>1
      <3>2. CASE m \in Items(wire[doc].down)
        BY <2>1, <3>2 DEF MessagesOK, Types
      <3> QED BY <2>1, <3>1, <3>2
    <2>2. ASSUME NEW d \in Docs, d # doc
          PROVE  Items(wire'[d].down) = {}
      BY <2>2, NothingItems
    <2>3. ASSUME NEW d \in Docs, NEW m \in Items(wire'[d].down), m.type = "command"
          PROVE  m.cmd = m.step /\ m.step \in Steps
      BY <2>1, <2>2, <2>3
    <2> QED BY <1>0, <2>3 DEF MessagesOK
  <1>5. ExecsOK'
    BY <1>0 DEF ExecsOK
  <1>6. OnceOK'
    <2> SUFFICES ASSUME ~run.plan.safe, NEW s \in Steps
                 PROVE  /\ performed[s] <= 1
                        /\ \A e \in execs : e.step = s /\ e.phase = "detecting" => performed[s] = 0
                        /\ \A i \in Nat : Ordered(s, i)' =>
                             /\ performed[s] = 0 /\ \A e \in execs : e.step # s
                             /\ \A j \in Nat : Ordered(s, j)' => j = i
                        /\ Unordered(run', s) =>
                             /\ performed[s] = 0 /\ (\A e \in execs : e.step # s)
                             /\ \A i \in Nat : ~Ordered(s, i)'
      BY <1>0 DEF OnceOK
    <2>1. /\ performed[s] <= 1
          /\ \A e \in execs : e.step = s /\ e.phase = "detecting" => performed[s] = 0
          /\ \A i \in Nat : Ordered(s, i) =>
               /\ performed[s] = 0 /\ \A e \in execs : e.step # s
               /\ \A j \in Nat : Ordered(s, j) => j = i
          /\ Unordered(run, s) =>
               performed[s] = 0 /\ (\A e \in execs : e.step # s) /\ \A i \in Nat : ~Ordered(s, i)
      BY DEF OnceOK
    <2>2. PICK k : \A i \in Nat : Ordered(s, i)' =>
            \/ Ordered(s, i)
            \/ s = run'.step /\ i = k /\ Unordered(run, s) /\ ~Unordered(run', s)
      OBVIOUS
    <2>3. Unordered(run', s) => Unordered(run, s)
      BY <1>1, <1>2
    <2>4. ASSUME NEW i \in Nat, Ordered(s, i)'
          PROVE  performed[s] = 0 /\ \A e \in execs : e.step # s
      BY <2>1, <2>2, <2>4
    <2>5. ASSUME NEW i \in Nat, Ordered(s, i)', NEW j \in Nat, Ordered(s, j)'
          PROVE  j = i
      BY <2>1, <2>2, <2>5
    <2>6. ASSUME Unordered(run', s), NEW i \in Nat
          PROVE  ~Ordered(s, i)'
      BY <2>1, <2>2, <2>3, <2>6
    <2> QED BY <2>1, <2>3, <2>4, <2>5, <2>6
  <1>7. TakenStepsWerePerformed'
    <2> SUFFICES ASSUME NEW s \in Steps, Ops[s] = "act", run'.step > s \/ run'.status = "completed"
                 PROVE  performed[s] > 0
      BY <1>0 DEF TakenStepsWerePerformed
    <2>1. run.step > s \/ run.status = "completed" => performed[s] > 0
      BY DEF TakenStepsWerePerformed
    <2>2. run.status = "navigation" => s # run.step
      BY <1>2 DEF RunOK, Pending
    <2>3. CASE run'.step = run.step /\ run'.status # "completed"
      BY <2>1, <2>3
    <2>4. CASE run'.step = run.step /\ run'.status = "completed"
      <3>1. \/ run.status = "completed"
            \/ (run.status = "navigation" \/ done) /\ run.step = Len(Ops)
        BY <1>2, <2>4 DEF Advance, Pending
      <3>2. s <= Len(Ops) /\ s \in Nat
        BY <1>2 DEF Steps
      <3> QED BY <1>2, <2>1, <2>2, <3>1, <3>2
    <2>5. CASE run'.step # run.step
      <3>1. run'.step = run.step + 1 /\ (run.status = "navigation" \/ done)
            /\ run'.status # "completed"
        BY <2>5 DEF Advance, Pending
      <3>2. s = run.step \/ s < run.step
        BY <1>2, <3>1
      <3> QED BY <1>2, <2>1, <2>2, <3>1, <3>2
    <2> QED BY <2>3, <2>4, <2>5
  <1> QED BY <1>0, <1>3, <1>4, <1>5, <1>6, <1>7

LEMMA ActorFacts ==
  ASSUME ActorInv
  PROVE  /\ run \in Run /\ RunOK(run) /\ doc \in Docs /\ wire \in [Docs -> Wire]
         /\ wire[doc] \in Wire /\ Advance(run, run, FALSE) /\ Advance(run, Failed(run), FALSE)
         /\ \A d \in Docs : d # doc => wire[d].down = <<>>
  <1>1. run \in Run /\ RunOK(run) /\ doc \in Docs /\ wire \in [Docs -> Wire]
    BY DEF ActorInv, Types
  <1> QED BY <1>1, FailedOK DEF Advance, ActorInv, MessagesOK

LEMMA BindingDown ==
  ASSUME NEW R \in Run, NEW d \in Docs
  PROVE  BindingOf(R, d) \in Down /\ BindingOf(R, d).type = "binding"
  <1> DEFINE l == R.last[d]
             n == IF R.exec = 0 THEN 0 ELSE IF R.exec = d THEN R.nav ELSE R.nav + 1
  <1>1. l \in Nat /\ n \in Nat
    BY DEF Run
  <1>2. BindingOf(R, d) = [type |-> "binding", last |-> l, nav |-> n]
    BY DEF BindingOf
  <1> HIDE DEF l, n
  <1> QED BY <1>1, <1>2 DEF Down

LEMMA CommandDown ==
  ASSUME NEW R \in Run
  PROVE  /\ CommandOf(R) \in Down /\ CommandOf(R).type = "command"
         /\ CommandOf(R).cmd = R.cmd /\ CommandOf(R).step = R.step
  BY DEF CommandOf, Down, Run

\* A port whose messages to the document are the ones of before, or none.
LEMMA Bound ==
  ASSUME ActorInv, NEW R \in Run, NEW w \in Wire, w.down = wire[doc].down \/ w.down = <<>>,
         Items(w.up) \subseteq Items(wire[doc].up),
         NEW b, b = [w EXCEPT !.down = Append(@, BindingOf(R, doc))],
         wire' = [wire EXCEPT ![doc] = b], UNCHANGED doc
  PROVE  /\ wire' \in [Docs -> Wire] /\ \A d \in Docs : d # doc => wire'[d].down = <<>>
         /\ \A d \in Docs : Items(wire'[d].up) \subseteq Items(wire[d].up)
         /\ \A m \in Items(wire'[doc].down) : m \in Items(wire[doc].down) \/ m.type # "command"
         /\ \A s \in Steps, i \in Nat : Ordered(s, i)' => Ordered(s, i)
  <1> DEFINE m == BindingOf(R, doc)
  <1>0. doc \in Docs /\ wire \in [Docs -> Wire] /\ \A d \in Docs : d # doc => wire[d].down = <<>>
    BY ActorFacts
  <1>1. m \in Down /\ m.type = "binding"
    BY <1>0, BindingDown
  <1> DEFINE q == Append(w.down, m)
  <1>2. b = [w EXCEPT !.down = q] /\ w.down \in Seq(Down)
    BY DEF Wire
  <1> HIDE DEF m
  <1>a. /\ q \in Seq(Down) /\ Len(q) = Len(w.down) + 1 /\ q[Len(w.down) + 1] = m
        /\ \A i \in 1 .. Len(w.down) : q[i] = w.down[i]
        /\ Items(q) = Items(w.down) \cup {m} /\ Len(w.down) \in Nat
    BY <1>1, <1>2, AppendItems, LenProperties
  <1> HIDE DEF q
  <1>b. b \in Wire /\ b.up = w.up /\ b.down = q
    BY <1>2, <1>a DEF Wire
  <1>3. /\ b \in Wire /\ b.up = w.up /\ Items(b.down) = Items(w.down) \cup {m}
        /\ Len(b.down) = Len(w.down) + 1 /\ Len(w.down) \in Nat /\ b.down[Len(w.down) + 1] = m
        /\ \A i \in 1 .. Len(w.down) : b.down[i] = w.down[i]
    BY <1>a, <1>b
  <1>4. /\ wire' \in [Docs -> Wire] /\ wire'[doc] = b
        /\ \A d \in Docs : d # doc => wire'[d] = wire[d]
    BY <1>0, <1>3
  <1>5. \A d \in Docs : d # doc => wire'[d].down = <<>>
    BY <1>0, <1>4
  <1>6. \A d \in Docs : Items(wire'[d].up) \subseteq Items(wire[d].up)
    BY <1>3, <1>4
  <1>7. \A x \in Items(wire'[doc].down) : x \in Items(wire[doc].down) \/ x.type # "command"
    BY <1>1, <1>3, <1>4, NothingItems
  <1>8. ASSUME NEW s \in Steps, NEW i \in Nat, Ordered(s, i)'
        PROVE  Ordered(s, i)
    <2>1. i \in 1 .. Len(b.down) /\ b.down[i].type = "command" /\ b.down[i].step = s
      BY <1>4, <1>8 DEF Ordered
    <2>2. i \in 1 .. Len(w.down)
      BY <1>1, <1>3, <2>1
    <2> QED BY <1>3, <2>1, <2>2, NothingItems DEF Ordered
  <1> QED BY <1>4, <1>5, <1>6, <1>7, <1>8

\* resumeExecutionTab of a record the run may take.
LEMMA ResumeOK ==
  ASSUME ActorInv, NEW R, Advance(run, R, FALSE), R.step = run.step, NEW w \in Wire,
         w.down = wire[doc].down \/ w.down = <<>>, Items(w.up) \subseteq Items(wire[doc].up),
         Resume(R, w), UNCHANGED <<doc, bridge, execs, announcing, performed>>
  PROVE  ActorInv'
  <1> DEFINE b == [w EXCEPT !.down = Append(@, BindingOf(R, doc))]
  <1>0. R \in Run /\ RunOK(R) /\ doc \in Docs /\ R.plan = run.plan /\ wire \in [Docs -> Wire]
        /\ \A d \in Docs : d # doc => wire[d].down = <<>>
    BY ActorFacts DEF Advance
  <1>1. /\ run' \in {R, Failed(R)}
        /\ \/ wire' = [wire EXCEPT ![doc] = b]
           \/ /\ run' = R /\ R.status = "effect" /\ R.plan.safe
              /\ wire' = [wire EXCEPT ![doc] = [b EXCEPT !.down = Append(@, CommandOf(R))]]
    BY DEF Resume
  <1>2. Advance(run, run', FALSE)
    <2>1. Advance(run, Failed(R), FALSE)
      BY <1>0, FailedOK DEF Advance
    <2> QED BY <1>1, <2>1
  <1>3. CASE wire' = [wire EXCEPT ![doc] = b]
    <2>1. /\ wire' \in [Docs -> Wire] /\ \A d \in Docs : d # doc => wire'[d].down = <<>>
          /\ \A d \in Docs : Items(wire'[d].up) \subseteq Items(wire[d].up)
          /\ \A m \in Items(wire'[doc].down) : m \in Items(wire[doc].down) \/ m.type # "command"
          /\ \A s \in Steps, i \in Nat : Ordered(s, i)' => Ordered(s, i)
      BY <1>0, <1>3, Bound
    <2> QED BY <1>2, <2>1, CoordinatorOK
  <1>4. CASE /\ run' = R /\ R.status = "effect" /\ R.plan.safe
             /\ wire' = [wire EXCEPT ![doc] = [b EXCEPT !.down = Append(@, CommandOf(R))]]
    <2> DEFINE c == CommandOf(R)
               y == BindingOf(R, doc)
               q == Append(w.down, y)
               r == Append(q, c)
               v == [b EXCEPT !.down = Append(@, c)]
    <2>1. y \in Down /\ y.type = "binding" /\ c \in Down /\ w.down \in Seq(Down)
      BY <1>0, BindingDown, CommandDown DEF Wire
    <2>2. b = [w EXCEPT !.down = q]
      OBVIOUS
    <2> HIDE DEF c, b, y
    <2>3. /\ q \in Seq(Down) /\ Items(q) = Items(w.down) \cup {y}
          /\ r \in Seq(Down) /\ Items(r) = Items(w.down) \cup {y, c}
      <3>1. q \in Seq(Down) /\ Items(q) = Items(w.down) \cup {y}
        BY <2>1, AppendItems
      <3> HIDE DEF q
      <3> QED BY <2>1, <3>1, AppendItems
    <2>b. b \in Wire /\ b.up = w.up /\ b.down = q
      BY <2>2, <2>3 DEF Wire
    <2>a. v = [b EXCEPT !.down = r]
      BY <2>b
    <2> HIDE DEF v, q, r
    <2>4. v \in Wire /\ v.up = w.up /\ Items(v.down) = Items(w.down) \cup {y, c}
      BY <2>3, <2>a, <2>b DEF Wire
    <2>5. wire' = [wire EXCEPT ![doc] = v]
      BY <1>4 DEF c, v
    <2>6. /\ wire' \in [Docs -> Wire] /\ wire'[doc] = v
          /\ \A d \in Docs : d # doc => wire'[d] = wire[d]
      BY <1>0, <2>4, <2>5
    <2>7. \A d \in Docs : d # doc => wire'[d].down = <<>>
      BY <1>0, <2>6
    <2>8. \A d \in Docs : Items(wire'[d].up) \subseteq Items(wire[d].up)
      BY <2>4, <2>6
    <2>9. run'.cmd # 0 /\ run.plan.safe
      BY <1>0, <1>4 DEF RunOK, Pending
    <2>10. ASSUME NEW m \in Items(wire'[doc].down)
           PROVE  m \in Items(wire[doc].down) \/ m.type # "command" \/ m = CommandOf(run')
      BY <1>4, <2>1, <2>4, <2>6, <2>10, NothingItems DEF c
    <2> QED BY <1>2, <2>6, <2>7, <2>8, <2>9, <2>10, CoordinatorOK
  <1> QED BY <1>1, <1>3, <1>4

\* The wires stay as they are, and the run moves.
LEMMA RunMoves ==
  ASSUME ActorInv, Advance(run, run', FALSE),
         UNCHANGED <<doc, wire, bridge, execs, announcing, performed>>
  PROVE  ActorInv'
  <1>1. wire' \in [Docs -> Wire] /\ \A d \in Docs : d # doc => wire'[d].down = <<>>
    BY ActorFacts
  <1>2. \A s \in Steps, i \in Nat : Ordered(s, i)' => Ordered(s, i)
    BY DEF Ordered
  <1> QED BY <1>1, <1>2, CoordinatorOK

LEMMA OpenTabOK ==
  ASSUME ActorInv, OpenTab
  PROVE  ActorInv'
  <1> DEFINE S == [run EXCEPT !.status = "page"]
  <1>1. run.status = "opening" /\ run' = S
        /\ UNCHANGED <<doc, wire, bridge, execs, announcing, performed>>
    BY DEF OpenTab, history
  <1>2. S \in Run /\ S.plan = run.plan /\ S.step = run.step /\ S.cmd = run.cmd /\ S.status = "page"
    BY ActorFacts DEF Run, Statuses
  <1> HIDE DEF S
  <1>3. RunOK(S)
    BY <1>1, <1>2, ActorFacts DEF RunOK, Pending
  <1>4. Advance(run, run', FALSE)
    BY <1>1, <1>2, <1>3 DEF Advance
  <1> QED BY <1>1, <1>4, RunMoves

LEMMA RunEndsOK ==
  ASSUME ActorInv, RunEnds
  PROVE  ActorInv'
  BY ActorFacts, RunMoves DEF RunEnds, history

LEMMA ResumeOpenedOK ==
  ASSUME ActorInv, ResumeOpened
  PROVE  ActorInv'
  <1>0. UNCHANGED <<doc, bridge, execs, announcing, performed>>
    BY DEF ResumeOpened, history
  <1>1. CASE Resume(run, wire[doc])
    BY <1>0, <1>1, ActorFacts, ResumeOK
  <1>2. CASE UNCHANGED <<run, wire>>
    BY <1>0, <1>2, ActorFacts, RunMoves
  <1> QED BY <1>1, <1>2 DEF ResumeOpened

LEMMA ConnectOK ==
  ASSUME ActorInv, Connect
  PROVE  ActorInv'
  <1>0. UNCHANGED <<doc, bridge, execs, announcing, performed>>
    BY DEF Connect, history
  <1>1. CASE Active
    <2> DEFINE w == [Closed EXCEPT !.open = TRUE]
    <2>1. w \in Wire /\ w.down = <<>> /\ w.up = <<>>
      BY ClosedWire DEF Wire, Closed
    <2>2. Resume(run, w)
      BY <1>1 DEF Connect
    <2> HIDE DEF w
    <2>3. Items(w.up) \subseteq Items(wire[doc].up)
      BY <2>1, NothingItems
    <2> QED BY <1>0, <2>1, <2>2, <2>3, ActorFacts, ResumeOK
  <1>2. CASE ~Active
    <2> DEFINE w == [wire[doc] EXCEPT !.open = TRUE]
    <2>1. run' = run /\ wire' = [wire EXCEPT ![doc] = w]
      BY <1>2 DEF Connect
    <2>2. w \in Wire /\ w.down = wire[doc].down /\ w.up = wire[doc].up
      BY ActorFacts DEF Wire
    <2> HIDE DEF w
    <2>3. /\ wire' \in [Docs -> Wire] /\ wire'[doc] = w
          /\ \A d \in Docs : d # doc => wire'[d] = wire[d]
      BY <2>1, <2>2, ActorFacts
    <2>4. \A d \in Docs : d # doc => wire'[d].down = <<>>
      BY <2>3, ActorFacts
    <2>5. \A d \in Docs : wire'[d].up = wire[d].up /\ wire'[d].down = wire[d].down
      BY <2>2, <2>3
    <2>6. \A s \in Steps, i \in Nat : Ordered(s, i)' => Ordered(s, i)
      BY <1>0, <2>5, ActorFacts DEF Ordered
    <2> QED BY <1>0, <2>1, <2>3, <2>4, <2>5, <2>6, ActorFacts, CoordinatorOK
  <1> QED BY <1>1, <1>2

LEMMA ApproveOK ==
  ASSUME ActorInv, Approve
  PROVE  ActorInv'
  <1> DEFINE R == [run EXCEPT !.status = "page", !.approved = TRUE, !.attest = TRUE]
  <1>0. run.status = "confirm" /\ UNCHANGED <<doc, bridge, execs, announcing, performed>>
        /\ \/ run' = Failed(run) /\ UNCHANGED wire
           \/ Resume(R, wire[doc])
           \/ run' = R /\ UNCHANGED wire
    BY DEF Approve, history
  <1>1. R \in Run /\ R.plan = run.plan /\ R.step = run.step /\ R.cmd = run.cmd /\ R.status = "page"
    BY ActorFacts DEF Run, Statuses
  <1> HIDE DEF R
  <1>2. RunOK(R)
    BY <1>0, <1>1, ActorFacts DEF RunOK, Pending
  <1>3. Advance(run, R, FALSE)
    BY <1>0, <1>1, <1>2 DEF Advance
  <1>4. CASE Resume(R, wire[doc])
    BY <1>0, <1>1, <1>3, <1>4, ActorFacts, ResumeOK
  <1>5. CASE run' \in {R, Failed(run)} /\ UNCHANGED wire
    BY <1>0, <1>3, <1>5, ActorFacts, RunMoves
  <1> QED BY <1>0, <1>4, <1>5

LEMMA ReceiveReportOK ==
  ASSUME ActorInv, NEW d \in Docs, ReceiveReport(d)
  PROVE  ActorInv'
  <1> DEFINE m == Head(wire[d].up)
             taken == [wire EXCEPT ![d].up = Tail(@)]
             q == Tail(wire[d].up)
             R == [run EXCEPT !.last[d] = m.seq]
  <1>0. UNCHANGED <<doc, bridge, execs, announcing, performed>> /\ doc \in Docs
    BY ActorFacts DEF ReceiveReport, history
  <1>1. wire[d].up # <<>> /\ wire[d].up \in Seq(Up) /\ wire \in [Docs -> Wire]
        /\ run \in Run /\ RunOK(run) /\ \A x \in Docs : x # doc => wire[x].down = <<>>
    BY ActorFacts DEF ReceiveReport, Wire
  <1>2. /\ q \in Seq(Up) /\ Items(q) \subseteq Items(wire[d].up)
        /\ m \in Up /\ m \in Items(wire[d].up)
    BY <1>1, TailItems
  <1>3. \/ run' = run /\ wire' = taken
        \/ \E good, moved \in BOOLEAN :
             /\ run' = IF m.type = "page" THEN HandlePage(R, d, m, good, moved)
                       ELSE HandleReport(R, d, m)
             /\ wire' = Posted(taken, run')
    BY DEF ReceiveReport
  <1>4. /\ R \in Run /\ R.plan = run.plan /\ R.step = run.step /\ R.status = run.status
        /\ R.cmd = run.cmd /\ R.exec = run.exec
    <2>1. m.seq \in Nat
      BY <1>2 DEF Up
    <2> HIDE DEF m
    <2> QED BY <1>1, <2>1 DEF Run
  <1>5. taken = [wire EXCEPT ![d] = [wire[d] EXCEPT !.up = q]]
    BY <1>1
  <1> DEFINE v == [wire[d] EXCEPT !.up = q]
  <1> HIDE DEF m, q, R, taken
  <1>6. v \in Wire /\ v.up = q /\ v.down = wire[d].down /\ v.open = wire[d].open
    BY <1>1, <1>2 DEF Wire
  <1>7. taken = [wire EXCEPT ![d] = v]
    BY <1>5
  <1> HIDE DEF v
  <1>8. /\ taken \in [Docs -> Wire] /\ taken[d] = v
        /\ \A x \in Docs : x # d => taken[x] = wire[x]
    BY <1>1, <1>6, <1>7
  <1>9. \A x \in Docs : taken[x].down = wire[x].down /\ Items(taken[x].up) \subseteq Items(wire[x].up)
    BY <1>2, <1>6, <1>8
  <1> DEFINE done == m.type = "completed" /\ m.cmd = run.step
  <1>10. Advance(run, run', done)
    <2>1. RunOK(R)
      BY <1>1, <1>4 DEF RunOK
    <2>2. \A good, moved \in BOOLEAN : Advance(R, HandlePage(R, d, m, good, moved), FALSE)
      BY <1>2, <1>4, <2>1, HandlePageOK
    <2>3. m.type # "page" => Advance(R, HandleReport(R, d, m), m.type = "completed" /\ m.cmd = R.step)
      BY <1>2, <1>4, <2>1, HandleReportOK
    <2>4. Advance(run, run, FALSE)
      BY ActorFacts
    <2>5. \A S : Advance(run, S, FALSE) => Advance(run, S, done)
      BY DEF Advance
    <2>6. \A S : Advance(R, S, FALSE) => Advance(run, S, done)
      BY <1>4 DEF Advance
    <2>7. \A S : Advance(R, S, m.type = "completed" /\ m.cmd = R.step) => Advance(run, S, done)
      BY <1>4 DEF Advance
    <2> QED BY <1>3, <2>2, <2>3, <2>4, <2>5, <2>6, <2>7
  <1>11. done => performed[run.step] > 0
    BY <1>2, <1>0 DEF ActorInv, MessagesOK
  <1> HIDE DEF done
  <1>12. wire' = taken \/ wire' = Posted(taken, run')
    BY <1>3
  <1>13. CASE wire' = taken
    <2>1. \A x \in Docs : x # doc => wire'[x].down = <<>>
      BY <1>1, <1>9, <1>13
    <2>2. \A s \in Steps, i \in Nat : Ordered(s, i)' => Ordered(s, i)
      BY <1>0, <1>9, <1>13 DEF Ordered
    <2>3. \A x \in Items(wire'[doc].down) : x \in Items(wire[doc].down)
      BY <1>0, <1>9, <1>13
    <2> QED BY <1>0, <1>8, <1>9, <1>10, <1>11, <1>13, <2>1, <2>2, <2>3, CoordinatorOK
  <1>14. CASE wire' = Posted(taken, run') /\ wire' # taken
    <2> DEFINE c == CommandOf(run')
               w == taken[doc]
               r == Append(w.down, c)
               u == [w EXCEPT !.down = r]
    <2>1. run'.cmd # 0 /\ run'.cmd # run.cmd /\ wire' = [taken EXCEPT ![doc].down = Append(@, c)]
      BY <1>0, <1>14 DEF Posted
    <2>2. run' \in Run
      BY <1>10 DEF Advance
    <2>3. c \in Down /\ c.type = "command" /\ c.step = run'.step
      BY <2>2, CommandDown
    <2>4. wire' = [taken EXCEPT ![doc] = u] /\ w \in Wire /\ w.down \in Seq(Down)
      BY <1>0, <1>8, <2>1 DEF Wire
    <2> HIDE DEF c
    <2>5. /\ r \in Seq(Down) /\ Items(r) = Items(w.down) \cup {c} /\ Len(r) = Len(w.down) + 1
          /\ r[Len(w.down) + 1] = c /\ Len(w.down) \in Nat
          /\ \A i \in 1 .. Len(w.down) : r[i] = w.down[i]
      BY <2>3, <2>4, AppendItems, LenProperties
    <2> HIDE DEF r, w
    <2>6. u \in Wire /\ u.down = r /\ u.up = w.up
      BY <2>4, <2>5 DEF Wire
    <2> HIDE DEF u
    <2>7. /\ wire' \in [Docs -> Wire] /\ wire'[doc] = u
          /\ \A x \in Docs : x # doc => wire'[x] = taken[x]
      BY <1>0, <1>8, <2>4, <2>6
    <2>8. w.down = wire[doc].down /\ Items(w.up) \subseteq Items(wire[doc].up)
      BY <1>0, <1>9 DEF w
    <2>9. \A x \in Docs : x # doc => wire'[x].down = <<>>
      BY <1>1, <1>9, <2>7
    <2>10. \A x \in Docs : Items(wire'[x].up) \subseteq Items(wire[x].up)
      BY <1>9, <2>6, <2>7, <2>8
    <2>11. \A x \in Items(wire'[doc].down) :
             x \in Items(wire[doc].down) \/ (run'.cmd # 0 /\ x = CommandOf(run'))
      BY <2>1, <2>5, <2>6, <2>7, <2>8 DEF c
    <2> DEFINE k == Len(w.down) + 1
    <2>12. ASSUME NEW s \in Steps, NEW i \in Nat, Ordered(s, i)'
           PROVE  \/ Ordered(s, i)
                  \/ s = run'.step /\ i = k /\ Unordered(run, s) /\ ~Unordered(run', s)
      <3>1. i \in 1 .. Len(r) /\ r[i].type = "command" /\ r[i].step = s
        BY <1>0, <2>6, <2>7, <2>12 DEF Ordered
      <3>2. CASE i \in 1 .. Len(w.down)
        BY <2>5, <2>8, <3>1, <3>2 DEF Ordered
      <3>3. CASE i = k
        <4>1. s = run'.step
          BY <2>3, <2>5, <3>1, <3>3
        <4> QED BY <1>1, <1>10, <2>1, <2>2, <3>3, <4>1, AdvanceOrders
      <3> QED BY <2>5, <3>1, <3>2, <3>3
    <2> HIDE DEF k
    <2>13. \E k1 : \A s \in Steps, i \in Nat : Ordered(s, i)' =>
             \/ Ordered(s, i) \/ run.plan.safe
             \/ s = run'.step /\ i = k1 /\ Unordered(run, s) /\ ~Unordered(run', s)
      BY <2>12
    <2>14. \A x \in Items(wire'[doc].down) :
             \/ x \in Items(wire[doc].down) \/ x.type # "command"
             \/ run'.cmd # 0 /\ x = CommandOf(run')
      BY <2>11
    <2>15. UNCHANGED <<doc, bridge, execs, announcing, performed>>
      BY <1>0
    <2>16. wire' \in [Docs -> Wire]
      BY <2>7
    <2> QED BY <1>10, <1>11, <2>9, <2>10, <2>13, <2>14, <2>15, <2>16, CoordinatorOK
  <1> QED BY <1>12, <1>13, <1>14

-------------------------------------------------------------------------------
(* A step of the actor *)

Bridged(b) == \E I, J : b \in [started : BOOLEAN, binding : Binding(I), active : J, seq : Nat]

\* The run stays as it is: what is left to show is who holds a command.
LEMMA ActorStep ==
  ASSUME ActorInv, UNCHANGED run, doc' \in Docs, wire' \in [Docs -> Wire], Bridged(bridge'),
         \A a \in announcing' : \E I : a \in Binding(I),
         \A e \in execs' : \E I : e \in Execution(I),
         performed' \in [Steps -> Nat], \A s \in Steps : performed'[s] >= performed[s],
         \A d \in Docs : d # doc' => wire'[d].down = <<>>,
         \A d \in Docs : Items(wire'[d].down) \subseteq Items(wire[d].down),
         \A d \in Docs : \A m \in Items(wire'[d].up) :
           \/ m \in Items(wire[d].up)
           \/ m.cmd \in 0 .. Len(Ops) /\ (m.type = "completed" => m.cmd \in Steps /\ performed[m.cmd] > 0),
         ExecsOK', OnceOK'
  PROVE  ActorInv'
  <1> USE DEF ActorInv
  <1>0. /\ Steps' = Steps /\ Ops' = Ops /\ performed \in [Steps -> Nat]
        /\ \A s \in Steps : performed[s] > 0 => performed'[s] > 0
    <2>1. Steps' = Steps /\ Ops' = Ops /\ performed \in [Steps -> Nat]
      BY DEF Steps, Ops, Types
    <2> QED BY <2>1
  <1>1. Types'
    BY <1>0 DEF Types, Bridged
  <1>2. RunOK(run)'
    BY DEF RunOK
  <1>3. MessagesOK'
    <2>1. ASSUME NEW d \in Docs, NEW m \in Items(wire'[d].up)
          PROVE  /\ m.cmd \in 0 .. Len(Ops)
                 /\ m.type = "completed" => m.cmd \in Steps /\ performed'[m.cmd] > 0
      BY <1>0, <2>1 DEF MessagesOK
    <2>2. ASSUME NEW d \in Docs, NEW m \in Items(wire'[d].down), m.type = "command"
          PROVE  m.cmd = m.step /\ m.step \in Steps
      BY <2>2 DEF MessagesOK
    <2> QED BY <1>0, <2>1, <2>2 DEF MessagesOK
  <1>4. TakenStepsWerePerformed'
    BY <1>0 DEF TakenStepsWerePerformed
  <1> QED BY <1>1, <1>2, <1>3, <1>4

\* Nothing is performed, no execution begins, and messages to the document are
\* taken from the front or dropped.
LEMMA OnceKept ==
  ASSUME ActorInv, UNCHANGED <<run, performed>>, execs' \subseteq execs,
         \E n \in Nat : \A s \in Steps, i \in Nat : Ordered(s, i)' => Ordered(s, i + n)
  PROVE  OnceOK'
  <1> USE DEF ActorInv
  <1>0. Steps' = Steps /\ performed' = performed /\ run' = run
    BY DEF Steps, Ops
  <1>1. PICK n \in Nat : \A s \in Steps, i \in Nat : Ordered(s, i)' => Ordered(s, i + n)
    OBVIOUS
  <1> SUFFICES ASSUME ~run.plan.safe, NEW s \in Steps
               PROVE  /\ performed[s] <= 1
                      /\ \A e \in execs' : e.step = s /\ e.phase = "detecting" => performed[s] = 0
                      /\ \A i \in Nat : Ordered(s, i)' =>
                           /\ performed[s] = 0 /\ \A e \in execs' : e.step # s
                           /\ \A j \in Nat : Ordered(s, j)' => j = i
                      /\ Unordered(run, s) =>
                           /\ performed[s] = 0 /\ (\A e \in execs' : e.step # s)
                           /\ \A i \in Nat : ~Ordered(s, i)'
    BY <1>0 DEF OnceOK
  <1>2. /\ performed[s] <= 1
        /\ \A e \in execs : e.step = s /\ e.phase = "detecting" => performed[s] = 0
        /\ \A i \in Nat : Ordered(s, i) =>
             /\ performed[s] = 0 /\ \A e \in execs : e.step # s
             /\ \A j \in Nat : Ordered(s, j) => j = i
        /\ Unordered(run, s) =>
             performed[s] = 0 /\ (\A e \in execs : e.step # s) /\ \A i \in Nat : ~Ordered(s, i)
    BY DEF OnceOK
  <1>3. ASSUME NEW i \in Nat, Ordered(s, i)'
        PROVE  /\ performed[s] = 0 /\ \A e \in execs' : e.step # s
               /\ ~Unordered(run, s)
    <2>1. i + n \in Nat /\ Ordered(s, i + n)
      BY <1>1, <1>3
    <2> QED BY <1>2, <2>1
  <1>4. ASSUME NEW i \in Nat, Ordered(s, i)', NEW j \in Nat, Ordered(s, j)'
        PROVE  j = i
    <2>1. i + n \in Nat /\ Ordered(s, i + n) /\ j + n \in Nat /\ Ordered(s, j + n)
      BY <1>1, <1>4
    <2>2. j + n = i + n
      BY <1>2, <2>1
    <2> QED BY <2>2
  <1>5. performed[s] <= 1 /\ \A e \in execs' : e.step = s /\ e.phase = "detecting" => performed[s] = 0
    BY <1>2
  <1>6. Unordered(run, s) => performed[s] = 0 /\ (\A e \in execs' : e.step # s)
    BY <1>2
  <1> QED BY <1>3, <1>4, <1>5, <1>6

\* The execution that runs is the active one, so what aborts it leaves none.
LEMMA AbortedNone ==
  ASSUME ActorInv
  PROVE  Aborted(execs) = {}
  BY DEF ActorInv, ExecsOK, Aborted

\* The wire of the document with a shorter queue for it.
LEMMA Received ==
  ASSUME ActorInv, wire[doc].down # <<>>, UNCHANGED <<run, doc>>,
         wire' = [wire EXCEPT ![doc].down = Tail(@)]
  PROVE  /\ wire' \in [Docs -> Wire] /\ \A d \in Docs : d # doc => wire'[d].down = <<>>
         /\ \A d \in Docs : Items(wire'[d].down) \subseteq Items(wire[d].down)
         /\ \A d \in Docs : wire'[d].up = wire[d].up
         /\ \A s \in Steps, i \in Nat : Ordered(s, i)' => Ordered(s, i + 1)
         /\ Head(wire[doc].down) = wire[doc].down[1] /\ 1 \in 1 .. Len(wire[doc].down)
         /\ Head(wire[doc].down) \in Items(wire[doc].down) /\ Head(wire[doc].down) \in Down
  <1> DEFINE q == wire[doc].down
             r == Tail(q)
             v == [wire[doc] EXCEPT !.down = r]
  <1>0. /\ doc \in Docs /\ wire \in [Docs -> Wire] /\ q \in Seq(Down) /\ wire[doc] \in Wire
        /\ \A d \in Docs : d # doc => wire[d].down = <<>>
    BY ActorFacts DEF Wire
  <1>1. /\ r \in Seq(Down) /\ Len(r) = Len(q) - 1 /\ Len(q) \in Nat /\ Len(q) >= 1
        /\ \A i \in 1 .. Len(r) : r[i] = q[i + 1]
        /\ Items(r) \subseteq Items(q) /\ Head(q) = q[1] /\ Head(q) \in Items(q) /\ Head(q) \in Down
    BY <1>0, TailItems
  <1>2. wire' = [wire EXCEPT ![doc] = v]
    BY <1>0
  <1> HIDE DEF r
  <1>3. v \in Wire /\ v.down = r /\ v.up = wire[doc].up
    BY <1>0, <1>1 DEF Wire
  <1> HIDE DEF v
  <1>4. /\ wire' \in [Docs -> Wire] /\ wire'[doc] = v
        /\ \A d \in Docs : d # doc => wire'[d] = wire[d]
    BY <1>0, <1>2, <1>3
  <1>5. \A d \in Docs : d # doc => wire'[d].down = <<>>
    BY <1>0, <1>4
  <1>6. \A d \in Docs : Items(wire'[d].down) \subseteq Items(wire[d].down)
    BY <1>1, <1>3, <1>4
  <1>7. \A d \in Docs : wire'[d].up = wire[d].up
    BY <1>3, <1>4
  <1>8. ASSUME NEW s \in Steps, NEW i \in Nat, Ordered(s, i)'
        PROVE  Ordered(s, i + 1)
    <2>1. i \in 1 .. Len(r) /\ r[i].type = "command" /\ r[i].step = s
      BY <1>3, <1>4, <1>8 DEF Ordered
    <2>2. i + 1 \in 1 .. Len(q) /\ q[i + 1] = r[i]
      BY <1>1, <2>1
    <2> QED BY <2>1, <2>2 DEF Ordered
  <1>9. 1 \in 1 .. Len(q)
    BY <1>1
  <1>10. \A s \in Steps, i \in Nat : Ordered(s, i)' => Ordered(s, i + 1)
    BY <1>8
  <1>11. wire' \in [Docs -> Wire]
    BY <1>4
  <1> QED BY <1>1, <1>5, <1>6, <1>7, <1>9, <1>10, <1>11

LEMMA ReceiveBindingOK ==
  ASSUME ActorInv, ReceiveBinding
  PROVE  ActorInv'
  <1> DEFINE m == Head(wire[doc].down)
  <1> DEFINE new == [id |-> NewBinding, last |-> m.last, nav |-> m.nav]
  <1>0. /\ wire[doc].down # <<>> /\ m.type = "binding" /\ execs' = {}
        /\ wire' = [wire EXCEPT ![doc].down = Tail(@)]
        /\ bridge' = [bridge EXCEPT !.binding = new, !.active = 0, !.seq = m.last]
        /\ announcing' = announcing \cup {new}
        /\ UNCHANGED <<run, doc, performed>>
    BY AbortedNone DEF ReceiveBinding
  <1>1. /\ wire' \in [Docs -> Wire] /\ \A d \in Docs : d # doc => wire'[d].down = <<>>
        /\ \A d \in Docs : Items(wire'[d].down) \subseteq Items(wire[d].down)
        /\ \A d \in Docs : wire'[d].up = wire[d].up
        /\ \A s \in Steps, i \in Nat : Ordered(s, i)' => Ordered(s, i + 1)
        /\ m \in Down
    BY <1>0, Received
  <1>2. m.last \in Nat /\ m.nav \in Nat
    BY <1>0, <1>1 DEF Down
  <1> HIDE DEF m
  <1>3. Bridged(bridge') /\ \A a \in announcing' : \E I : a \in Binding(I)
    <2>1. new \in Binding({NewBinding})
      BY <1>2 DEF Binding
    <2> HIDE DEF new
    <2>2. PICK I, J : bridge \in [started : BOOLEAN, binding : Binding(I), active : J, seq : Nat]
      BY DEF ActorInv, Types
    <2>3. bridge' \in [started : BOOLEAN, binding : Binding({NewBinding}), active : {0}, seq : Nat]
      BY <1>0, <1>2, <2>1, <2>2
    <2> QED BY <1>0, <2>1, <2>3 DEF Bridged, ActorInv, Types
  <1>4. ExecsOK' /\ OnceOK'
    <2>1. \E n \in Nat : \A s \in Steps, i \in Nat : Ordered(s, i)' => Ordered(s, i + n)
      BY <1>1
    <2> QED BY <1>0, <2>1, OnceKept DEF ExecsOK
  <1>5. performed' \in [Steps -> Nat] /\ \A s \in Steps : performed'[s] >= performed[s]
    BY <1>0 DEF ActorInv, Types
  <1> QED BY <1>0, <1>1, <1>3, <1>4, <1>5, ActorFacts, ActorStep

LEMMA ReceiveCommandOK ==
  ASSUME ActorInv, ReceiveCommand
  PROVE  ActorInv'
  <1> DEFINE m == Head(wire[doc].down)
             new == [id |-> NewExecution, cmd |-> m.cmd, step |-> m.step, phase |-> "detecting"]
  <1>0. /\ wire[doc].down # <<>> /\ m.type = "command"
        /\ wire' = [wire EXCEPT ![doc].down = Tail(@)]
        /\ \/ UNCHANGED <<bridge, execs>>
           \/ bridge' = [bridge EXCEPT !.active = NewExecution] /\ execs' = {new}
        /\ UNCHANGED <<run, doc, announcing, performed>>
    BY AbortedNone DEF ReceiveCommand, history
  <1>1. /\ wire' \in [Docs -> Wire] /\ \A d \in Docs : d # doc => wire'[d].down = <<>>
        /\ \A d \in Docs : Items(wire'[d].down) \subseteq Items(wire[d].down)
        /\ \A d \in Docs : wire'[d].up = wire[d].up
        /\ \A s \in Steps, i \in Nat : Ordered(s, i)' => Ordered(s, i + 1)
        /\ m = wire[doc].down[1] /\ 1 \in 1 .. Len(wire[doc].down)
        /\ m \in Items(wire[doc].down) /\ m \in Down
    BY <1>0, Received
  <1>2. m.cmd = m.step /\ m.step \in Steps /\ m.step \in Nat
    BY <1>0, <1>1, ActorFacts DEF ActorInv, MessagesOK, Steps
  <1>3. Ordered(m.step, 1)
    BY <1>0, <1>1 DEF Ordered
  <1> HIDE DEF m
  <1>4. /\ performed' \in [Steps -> Nat] /\ \A s \in Steps : performed'[s] >= performed[s]
        /\ \A a \in announcing' : \E I : a \in Binding(I)
        /\ \A e \in execs : \E I : e \in Execution(I)
        /\ \E I, J : bridge \in [started : BOOLEAN, binding : Binding(I), active : J, seq : Nat]
    BY <1>0 DEF ActorInv, Types
  <1>5. CASE UNCHANGED <<bridge, execs>>
    <2>1. ExecsOK' /\ OnceOK'
      <3>1. \E n \in Nat : \A s \in Steps, i \in Nat : Ordered(s, i)' => Ordered(s, i + n)
        BY <1>1
      <3>2. ExecsOK'
        BY <1>0, <1>5 DEF ActorInv, ExecsOK, Steps, Ops
      <3> QED BY <1>0, <1>5, <3>1, <3>2, OnceKept
    <2>2. Bridged(bridge') /\ \A e \in execs' : \E I : e \in Execution(I)
      BY <1>4, <1>5 DEF Bridged
    <2> QED BY <1>0, <1>1, <1>4, <2>1, <2>2, ActorFacts, ActorStep
  <1>6. CASE bridge' = [bridge EXCEPT !.active = NewExecution] /\ execs' = {new}
    <2>0. new.cmd = m.cmd /\ new.step = m.step /\ new.id = NewExecution /\ new.phase = "detecting"
          /\ new \in Execution({NewExecution})
      BY <1>2 DEF Execution
    <2> HIDE DEF new
    <2>1. Bridged(bridge') /\ bridge'.active = NewExecution
      <3>1. PICK I, J : bridge \in [started : BOOLEAN, binding : Binding(I), active : J, seq : Nat]
        BY <1>4
      <3>2. bridge' \in [started : BOOLEAN, binding : Binding(I), active : {NewExecution}, seq : Nat]
            /\ bridge'.active = NewExecution
        BY <1>6, <3>1
      <3> QED BY <3>2 DEF Bridged
    <2>2. ExecsOK'
      BY <1>0, <1>2, <1>6, <2>0, <2>1 DEF ExecsOK, Steps, Ops
    <2>3. OnceOK'
      <3> DEFINE t == m.step
      <3>0. Steps' = Steps /\ run' = run /\ performed' = performed /\ t \in Steps /\ Ordered(t, 1)
        BY <1>0, <1>2, <1>3 DEF Steps, Ops
      <3>1. \A e \in execs' : e.step = t
        BY <1>6, <2>0
      <3> SUFFICES ASSUME ~run.plan.safe, NEW s \in Steps
                   PROVE  /\ performed[s] <= 1
                          /\ \A e \in execs' : e.step = s /\ e.phase = "detecting" => performed[s] = 0
                          /\ \A i \in Nat : Ordered(s, i)' =>
                               /\ performed[s] = 0 /\ \A e \in execs' : e.step # s
                               /\ \A j \in Nat : Ordered(s, j)' => j = i
                          /\ Unordered(run, s) =>
                               /\ performed[s] = 0 /\ (\A e \in execs' : e.step # s)
                               /\ \A i \in Nat : ~Ordered(s, i)'
        BY <3>0 DEF OnceOK
      <3>2. /\ performed[s] <= 1
            /\ \A i \in Nat : Ordered(s, i) =>
                 performed[s] = 0 /\ \A j \in Nat : Ordered(s, j) => j = i
            /\ Unordered(run, s) => performed[s] = 0 /\ \A i \in Nat : ~Ordered(s, i)
        BY DEF ActorInv, OnceOK
      <3>3. s = t => performed[s] = 0 /\ ~Unordered(run, s) /\ \A i \in Nat : ~Ordered(s, i + 1) \/ i = 0
        BY <3>0, <3>2
      <3>4. \A i \in Nat : Ordered(s, i)' => i # 0
        BY DEF Ordered
      <3>5. \A i \in Nat : Ordered(s, i)' => s # t /\ performed[s] = 0 /\ ~Unordered(run, s)
        BY <1>1, <3>2, <3>3, <3>4
      <3>6. ASSUME NEW i \in Nat, Ordered(s, i)', NEW j \in Nat, Ordered(s, j)'
            PROVE  j = i
        <4>1. i + 1 \in Nat /\ Ordered(s, i + 1) /\ j + 1 \in Nat /\ Ordered(s, j + 1)
          BY <1>1, <3>6
        <4>2. j + 1 = i + 1
          BY <3>2, <4>1
        <4> QED BY <4>2
      <3> HIDE DEF t
      <3> QED BY <3>1, <3>2, <3>3, <3>5, <3>6
    <2>4. \A e \in execs' : \E I : e \in Execution(I)
      BY <1>6, <2>0
    <2> QED BY <1>0, <1>1, <1>4, <2>1, <2>2, <2>3, <2>4, ActorFacts, ActorStep
  <1> QED BY <1>0, <1>5, <1>6

\* The document's wire changes, and what it still receives is as before, or nothing.
LEMMA Rewired ==
  ASSUME ActorInv, NEW v \in Wire, wire' = [wire EXCEPT ![doc] = v], UNCHANGED <<run, doc>>,
         v.down = wire[doc].down \/ v.down = <<>>
  PROVE  /\ wire' \in [Docs -> Wire] /\ \A d \in Docs : d # doc' => wire'[d].down = <<>>
         /\ \A d \in Docs : Items(wire'[d].down) \subseteq Items(wire[d].down)
         /\ wire'[doc].up = v.up /\ \A d \in Docs : d # doc => wire'[d].up = wire[d].up
         /\ \E n \in Nat : \A s \in Steps, i \in Nat : Ordered(s, i)' => Ordered(s, i + n)
  <1>0. /\ doc \in Docs /\ wire \in [Docs -> Wire]
        /\ \A d \in Docs : d # doc => wire[d].down = <<>>
    BY ActorFacts
  <1>1. /\ wire' \in [Docs -> Wire] /\ wire'[doc] = v
        /\ \A d \in Docs : d # doc => wire'[d] = wire[d]
    BY <1>0
  <1>2. \A d \in Docs : Items(wire'[d].down) \subseteq Items(wire[d].down)
    BY <1>1, NothingItems
  <1>3. ASSUME NEW s \in Steps, NEW i \in Nat, Ordered(s, i)'
        PROVE  Ordered(s, i + 0)
    <2>1. i \in 1 .. Len(v.down) /\ v.down[i].type = "command" /\ v.down[i].step = s
      BY <1>1, <1>3 DEF Ordered
    <2>2. v.down = wire[doc].down
      BY <2>1, NothingItems
    <2>3. i + 0 = i
      OBVIOUS
    <2> QED BY <2>1, <2>2, <2>3 DEF Ordered
  <1>4. \E n \in Nat : \A s \in Steps, i \in Nat : Ordered(s, i)' => Ordered(s, i + n)
    <2>1. 0 \in Nat
      OBVIOUS
    <2> QED BY <1>3, <2>1
  <1> QED BY <1>0, <1>1, <1>2, <1>4

\* The sequence moves on with a message; the binding is another one, or none.
LEMMA BridgeMoves ==
  ASSUME ActorInv
  PROVE  /\ Bridged(bridge) /\ bridge.seq \in Nat
         /\ Bridged(Fresh)
         /\ \A w : Bridged(Numbered(bridge, w)) /\ Numbered(bridge, w).active = bridge.active
         /\ LET rest == [bridge EXCEPT !.active = 0] IN
            rest.seq \in Nat /\ Bridged(rest) /\ \A w : Bridged(Numbered(rest, w))
         /\ Bridged([bridge EXCEPT !.binding = NoBinding, !.active = 0])
         /\ Bridged([bridge EXCEPT !.started = FALSE, !.binding = NoBinding, !.active = 0])
  <1>1. PICK I, J : bridge \in [started : BOOLEAN, binding : Binding(I), active : J, seq : Nat]
    BY DEF ActorInv, Types
  <1>2. \A K, L : \A b \in [started : BOOLEAN, binding : Binding(K), active : L, seq : Nat] :
          /\ Bridged(b) /\ b.seq \in Nat
          /\ \A w : Bridged(Numbered(b, w)) /\ Numbered(b, w).active = b.active
    <2> TAKE K, L
    <2> TAKE b \in [started : BOOLEAN, binding : Binding(K), active : L, seq : Nat]
    <2> DEFINE c == [b EXCEPT !.seq = @ + 1]
    <2>1. b.seq + 1 \in Nat
      OBVIOUS
    <2>2. c \in [started : BOOLEAN, binding : Binding(K), active : L, seq : Nat] /\ c.active = b.active
      BY <2>1
    <2>3. \A w : Numbered(b, w) = b \/ Numbered(b, w) = c
      BY DEF Numbered
    <2> HIDE DEF c
    <2> QED BY <2>2, <2>3 DEF Bridged
  <1>3. NoBinding \in Binding({0})
    BY DEF NoBinding, Binding
  <1>4. Fresh \in [started : BOOLEAN, binding : Binding({0}), active : {0}, seq : Nat]
    BY <1>3 DEF Fresh
  <1> DEFINE rest == [bridge EXCEPT !.active = 0]
             lost == [bridge EXCEPT !.binding = NoBinding, !.active = 0]
             over == [bridge EXCEPT !.started = FALSE, !.binding = NoBinding, !.active = 0]
  <1>5. rest \in [started : BOOLEAN, binding : Binding(I), active : {0}, seq : Nat]
    BY <1>1
  <1>6. lost \in [started : BOOLEAN, binding : Binding({0}), active : {0}, seq : Nat]
    BY <1>1, <1>3
  <1>7. over \in [started : BOOLEAN, binding : Binding({0}), active : {0}, seq : Nat]
    BY <1>1, <1>3
  <1> HIDE DEF rest, lost, over
  <1>8. Bridged(rest) /\ rest.seq \in Nat /\ \A w : Bridged(Numbered(rest, w))
    BY <1>2, <1>5
  <1>9. Bridged(lost) /\ Bridged(over) /\ Bridged(Fresh)
    BY <1>2, <1>4, <1>6, <1>7
  <1>10. Bridged(bridge) /\ bridge.seq \in Nat
         /\ \A w : Bridged(Numbered(bridge, w)) /\ Numbered(bridge, w).active = bridge.active
    BY <1>1, <1>2
  <1> QED BY <1>8, <1>9, <1>10 DEF rest, lost, over

LEMMA AnnounceOK ==
  ASSUME ActorInv, NEW a \in announcing, Announce(a)
  PROVE  ActorInv'
  <1> DEFINE m == [type |-> "page", nav |-> a.nav, cmd |-> 0]
             v == PostEnvelope(bridge, wire[doc], m)
  <1>0. /\ announcing' \subseteq announcing /\ UNCHANGED <<run, doc, execs, performed>>
        /\ \/ UNCHANGED <<wire, bridge>>
           \/ wire' = [wire EXCEPT ![doc] = v] /\ bridge' = Numbered(bridge, wire[doc])
    BY DEF Announce, history
  <1>1. m.type = "page" /\ m.nav \in Nat /\ m.cmd = 0
    <2>1. PICK I : a \in Binding(I)
      BY DEF ActorInv, Types
    <2> QED BY <2>1 DEF Binding
  <1>a. wire[doc] \in Wire /\ bridge.seq \in Nat
    BY ActorFacts, BridgeMoves
  <1> HIDE DEF m
  <1>2. /\ v \in Wire /\ v.down = wire[doc].down
        /\ \A x \in Items(v.up) : x \in Items(wire[doc].up) \/ (x.type = "page" /\ x.cmd = 0)
    BY <1>1, <1>a, Enveloped
  <1> HIDE DEF v
  <1>3. /\ performed' \in [Steps -> Nat] /\ \A s \in Steps : performed'[s] >= performed[s]
        /\ \A x \in announcing' : \E I : x \in Binding(I)
        /\ \A e \in execs' : \E I : e \in Execution(I)
    BY <1>0 DEF ActorInv, Types
  <1>4. /\ wire' \in [Docs -> Wire] /\ \A d \in Docs : d # doc' => wire'[d].down = <<>>
        /\ \A d \in Docs : Items(wire'[d].down) \subseteq Items(wire[d].down)
        /\ wire'[doc].up \in {wire[doc].up, v.up}
        /\ \A d \in Docs : d # doc => wire'[d].up = wire[d].up
        /\ \E n \in Nat : \A s \in Steps, i \in Nat : Ordered(s, i)' => Ordered(s, i + n)
        /\ Bridged(bridge') /\ bridge'.active = bridge.active
    <2>1. CASE wire' = [wire EXCEPT ![doc] = v] /\ bridge' = Numbered(bridge, wire[doc])
      BY <1>0, <1>2, <2>1, BridgeMoves, Rewired
    <2>2. CASE UNCHANGED <<wire, bridge>>
      <3>1. wire' = [wire EXCEPT ![doc] = wire[doc]]
        BY <2>2, ActorFacts
      <3> QED BY <1>0, <2>2, <3>1, BridgeMoves, ActorFacts, Rewired
    <2> QED BY <1>0, <2>1, <2>2
  <1>5. ExecsOK' /\ OnceOK'
    <2>1. ExecsOK'
      BY <1>0, <1>4 DEF ActorInv, ExecsOK, Steps, Ops
    <2> QED BY <1>0, <1>4, <2>1, OnceKept
  <1>6. ASSUME NEW d \in Docs, NEW x \in Items(wire'[d].up)
        PROVE  \/ x \in Items(wire[d].up)
               \/ /\ x.cmd \in 0 .. Len(Ops)
                  /\ x.type = "completed" => x.cmd \in Steps /\ performed[x.cmd] > 0
    <2>1. 0 \in 0 .. Len(Ops)
      BY ActorFacts, PlanSteps DEF Ops
    <2> QED BY <1>2, <1>4, <1>6, <2>1
  <1> QED BY <1>0, <1>3, <1>4, <1>5, <1>6, ActorFacts, ActorStep

\* The one execution ends, and its outcome is posted.
LEMMA ReportOK ==
  ASSUME ActorInv, NEW e \in execs, NEW type \in {"failed", "completed"}, Report(e, type),
         type = "completed" => performed[e.step] > 0, UNCHANGED performed
  PROVE  ActorInv'
  <1> DEFINE m == [type |-> type, nav |-> 0, cmd |-> e.cmd]
             rest == [bridge EXCEPT !.active = 0]
             v == PostEnvelope(rest, wire[doc], m)
  <1>1. /\ e.cmd = e.step /\ e.step \in Steps /\ e.id = bridge.active
        /\ \A f \in execs : f = e
    BY DEF ActorInv, ExecsOK
  <1>0. /\ execs' = {} /\ UNCHANGED <<run, doc, announcing, performed>>
        /\ wire' = [wire EXCEPT ![doc] = v] /\ bridge' = Numbered(rest, wire[doc])
    BY <1>1 DEF Report
  <1>2. e.cmd \in Nat /\ e.cmd \in 0 .. Len(Ops) /\ Len(Ops) \in Nat
    BY <1>1, ActorFacts, PlanSteps DEF Steps, Ops
  <1>3. /\ m.type = type /\ m.nav \in Nat /\ m.cmd = e.cmd
        /\ m.type \in {"page", "completed", "failed", "replaced"}
    OBVIOUS
  <1>4. wire[doc] \in Wire /\ rest.seq \in Nat /\ Bridged(bridge')
    BY <1>0, ActorFacts, BridgeMoves
  <1> HIDE DEF m, rest
  <1>5. /\ v \in Wire /\ v.down = wire[doc].down
        /\ \A x \in Items(v.up) : x \in Items(wire[doc].up) \/ (x.type = type /\ x.cmd = e.cmd)
    BY <1>2, <1>3, <1>4, Enveloped
  <1> HIDE DEF v
  <1>6. /\ wire' \in [Docs -> Wire] /\ \A d \in Docs : d # doc' => wire'[d].down = <<>>
        /\ \A d \in Docs : Items(wire'[d].down) \subseteq Items(wire[d].down)
        /\ wire'[doc].up = v.up /\ \A d \in Docs : d # doc => wire'[d].up = wire[d].up
        /\ \E n \in Nat : \A s \in Steps, i \in Nat : Ordered(s, i)' => Ordered(s, i + n)
    BY <1>0, <1>5, Rewired
  <1>7. /\ performed' \in [Steps -> Nat] /\ \A s \in Steps : performed'[s] >= performed[s]
        /\ \A x \in announcing' : \E I : x \in Binding(I)
        /\ \A f \in execs' : \E I : f \in Execution(I)
    BY <1>0 DEF ActorInv, Types
  <1>8. ExecsOK' /\ OnceOK'
    BY <1>0, <1>6, OnceKept DEF ExecsOK
  <1>9. ASSUME NEW d \in Docs, NEW x \in Items(wire'[d].up)
        PROVE  \/ x \in Items(wire[d].up)
               \/ /\ x.cmd \in 0 .. Len(Ops)
                  /\ x.type = "completed" => x.cmd \in Steps /\ performed[x.cmd] > 0
    BY <1>1, <1>2, <1>5, <1>6, <1>9
  <1> QED BY <1>0, <1>4, <1>6, <1>7, <1>8, <1>9, ActorFacts, ActorStep

\* The operation of the one execution, which had not been performed if the
\* step may not be repeated.
LEMMA OperateOK ==
  ASSUME ActorInv, NEW e \in execs, Operate(e)
  PROVE  ActorInv'
  <1> DEFINE f == [e EXCEPT !.phase = "waiting"]
             p == [performed EXCEPT ![e.step] = @ + 1]
  <1>1. /\ e.cmd = e.step /\ e.step \in Steps /\ e.id = bridge.active
        /\ \A g \in execs : g = e
    BY DEF ActorInv, ExecsOK
  <1>0. /\ execs' = {f} /\ UNCHANGED <<run, doc, announcing, wire, bridge>>
        /\ performed' = p /\ e.phase = "detecting"
    BY <1>1 DEF Operate
  <1>2. PICK I : e \in Execution(I)
    BY DEF ActorInv, Types
  <1>3. f \in Execution(I) /\ f.cmd = e.cmd /\ f.step = e.step /\ f.id = e.id /\ f.phase = "waiting"
    BY <1>2 DEF Execution
  <1>4. performed \in [Steps -> Nat]
    BY DEF ActorInv, Types
  <1>5. /\ p \in [Steps -> Nat] /\ \A s \in Steps : p[s] >= performed[s] /\ (s # e.step => p[s] = performed[s])
        /\ p[e.step] = performed[e.step] + 1 /\ p[e.step] > 0
    BY <1>1, <1>4
  <1> HIDE DEF f, p
  <1>6. Steps' = Steps /\ Ops' = Ops
    BY <1>0 DEF Steps, Ops
  <1>7. ExecsOK'
    BY <1>0, <1>1, <1>3, <1>5, <1>6 DEF ExecsOK
  <1>8. OnceOK'
    <2> SUFFICES ASSUME ~run.plan.safe, NEW s \in Steps
                 PROVE  /\ p[s] <= 1
                        /\ \A g \in execs' : g.step = s /\ g.phase = "detecting" => p[s] = 0
                        /\ \A i \in Nat : Ordered(s, i)' =>
                             /\ p[s] = 0 /\ \A g \in execs' : g.step # s
                             /\ \A j \in Nat : Ordered(s, j)' => j = i
                        /\ Unordered(run, s) =>
                             /\ p[s] = 0 /\ (\A g \in execs' : g.step # s)
                             /\ \A i \in Nat : ~Ordered(s, i)'
      BY <1>0, <1>6 DEF OnceOK
    <2>1. \A i \in Nat : Ordered(s, i)' <=> Ordered(s, i)
      BY <1>0 DEF Ordered
    <2>2. /\ performed[s] <= 1
          /\ s = e.step => performed[s] = 0
          /\ \A i \in Nat : Ordered(s, i) =>
               performed[s] = 0 /\ s # e.step /\ \A j \in Nat : Ordered(s, j) => j = i
          /\ Unordered(run, s) =>
               performed[s] = 0 /\ s # e.step /\ \A i \in Nat : ~Ordered(s, i)
      BY <1>0 DEF ActorInv, OnceOK
    <2>3. \A g \in execs' : g.step = e.step /\ g.phase = "waiting"
      BY <1>0, <1>3
    <2>4. p[s] = IF s = e.step THEN performed[s] + 1 ELSE performed[s]
      BY <1>5
    <2> QED BY <1>4, <2>1, <2>2, <2>3, <2>4
  <1>9. /\ wire' \in [Docs -> Wire] /\ Bridged(bridge')
        /\ \A d \in Docs : d # doc' => wire'[d].down = <<>>
    BY <1>0, ActorFacts, BridgeMoves
  <1>10. /\ \A x \in announcing' : \E J : x \in Binding(J)
         /\ \A g \in execs' : \E J : g \in Execution(J)
    BY <1>0, <1>3 DEF ActorInv, Types
  <1> QED BY <1>0, <1>5, <1>7, <1>8, <1>9, <1>10, ActorFacts, ActorStep

\* A port that is lost, whatever the bridge keeps of it.
LEMMA LosePortOK ==
  ASSUME ActorInv, wire' = [wire EXCEPT ![doc] = Closed], execs' = Aborted(execs), Bridged(bridge'),
         UNCHANGED <<run, doc, announcing, performed>>
  PROVE  ActorInv'
  <1>1. /\ wire' \in [Docs -> Wire] /\ \A d \in Docs : d # doc' => wire'[d].down = <<>>
        /\ \A d \in Docs : Items(wire'[d].down) \subseteq Items(wire[d].down)
        /\ wire'[doc].up = <<>> /\ \A d \in Docs : d # doc => wire'[d].up = wire[d].up
        /\ \E n \in Nat : \A s \in Steps, i \in Nat : Ordered(s, i)' => Ordered(s, i + n)
    BY ClosedWire, Rewired
  <1>2. execs' = {}
    BY AbortedNone
  <1>3. ExecsOK' /\ OnceOK'
    BY <1>1, <1>2, OnceKept DEF ExecsOK
  <1>4. /\ performed' \in [Steps -> Nat] /\ \A s \in Steps : performed'[s] >= performed[s]
        /\ \A x \in announcing' : \E I : x \in Binding(I)
        /\ \A f \in execs' : \E I : f \in Execution(I)
    BY <1>2 DEF ActorInv, Types
  <1>5. \A d \in Docs : Items(wire'[d].up) \subseteq Items(wire[d].up)
    BY <1>1, NothingItems
  <1> QED BY <1>1, <1>3, <1>4, <1>5, ActorFacts, ActorStep

LEMMA PortDropsOK ==
  ASSUME ActorInv, PortDrops \/ Stop
  PROVE  ActorInv'
  <1>1. /\ wire' = [wire EXCEPT ![doc] = Closed] /\ execs' = Aborted(execs)
        /\ UNCHANGED <<run, doc, announcing, performed>>
        /\ \/ bridge' = [bridge EXCEPT !.binding = NoBinding, !.active = 0]
           \/ bridge' = [bridge EXCEPT !.started = FALSE, !.binding = NoBinding, !.active = 0]
    BY DEF PortDrops, Stop, LosePort, history
  <1>2. Bridged(bridge')
    BY <1>1, BridgeMoves
  <1> QED BY <1>1, <1>2, LosePortOK

\* The document is replaced: what its port still carries was posted before, or
\* says that the execution was replaced.
LEMMA NavigateOK ==
  ASSUME ActorInv, Navigate
  PROVE  ActorInv'
  <1> DEFINE active == {e \in execs : e.id = bridge.active}
             lastExec == CHOOSE e \in active : TRUE
             m == [type |-> "replaced", nav |-> 0, cmd |-> lastExec.cmd]
             last == IF active = {} THEN wire[doc] ELSE PostEnvelope(bridge, wire[doc], m)
  <1>0. /\ doc < MaxDocs /\ doc' = doc + 1 /\ bridge' = Fresh /\ announcing' = {} /\ execs' = {}
        /\ \E n \in 0 .. Len(last.up) :
             wire' = [wire EXCEPT ![doc] = [Closed EXCEPT !.up = SubSeq(last.up, 1, n)]]
        /\ UNCHANGED <<run, performed>>
    BY DEF Navigate, history
  <1>1. doc' \in Docs /\ doc' # doc
    BY <1>0, ActorFacts, ActorAssumption DEF Docs
  <1>2. /\ last \in Wire
        /\ \A x \in Items(last.up) :
             x \in Items(wire[doc].up) \/ (x.type = "replaced" /\ x.cmd \in 0 .. Len(Ops))
    <2>1. CASE active = {}
      BY <2>1, ActorFacts
    <2>2. CASE active # {}
      <3>1. lastExec \in execs
        BY <2>2
      <3> HIDE DEF lastExec
      <3>2. lastExec.cmd \in 0 .. Len(Ops) /\ lastExec.cmd \in Nat
        BY <3>1, ActorFacts, PlanSteps DEF ActorInv, ExecsOK, Steps, Ops
      <3>3. m.type = "replaced" /\ m.nav \in Nat /\ m.cmd = lastExec.cmd
        OBVIOUS
      <3>4. wire[doc] \in Wire /\ bridge.seq \in Nat /\ last = PostEnvelope(bridge, wire[doc], m)
        BY <2>2, ActorFacts, BridgeMoves
      <3> HIDE DEF m, last
      <3> QED BY <3>2, <3>3, <3>4, Enveloped
    <2> QED BY <2>1, <2>2
  <1> HIDE DEF last
  <1>3. PICK n \in 0 .. Len(last.up) :
          wire' = [wire EXCEPT ![doc] = [Closed EXCEPT !.up = SubSeq(last.up, 1, n)]]
    BY <1>0
  <1> DEFINE q == SubSeq(last.up, 1, n)
             v == [Closed EXCEPT !.up = q]
  <1>4. q \in Seq(Up) /\ Items(q) \subseteq Items(last.up)
    <2>1. last.up \in Seq(Up)
      BY <1>2 DEF Wire
    <2> QED BY <2>1, PrefixItems
  <1>5. wire' = [wire EXCEPT ![doc] = v]
    BY <1>3
  <1> HIDE DEF q
  <1>6. v \in Wire /\ v.down = <<>> /\ v.up = q
    BY <1>4, ClosedWire DEF Wire
  <1> HIDE DEF v
  <1>7. /\ wire' \in [Docs -> Wire] /\ wire'[doc] = v
        /\ \A d \in Docs : d # doc => wire'[d] = wire[d]
    BY <1>5, <1>6, ActorFacts
  <1>8. \A d \in Docs : wire'[d].down = <<>>
    BY <1>6, <1>7, ActorFacts
  <1>9. ExecsOK' /\ OnceOK'
    <2>1. \A s \in Steps, i \in Nat : ~Ordered(s, i)'
      BY <1>1, <1>8, NothingItems DEF Ordered
    <2>2. \E k \in Nat : \A s \in Steps, i \in Nat : Ordered(s, i)' => Ordered(s, i + k)
      <3>1. 0 \in Nat
        OBVIOUS
      <3> QED BY <2>1, <3>1
    <2> QED BY <1>0, <2>2, OnceKept DEF ExecsOK
  <1>10. /\ performed' \in [Steps -> Nat] /\ \A s \in Steps : performed'[s] >= performed[s]
         /\ \A x \in announcing' : \E I : x \in Binding(I)
         /\ \A f \in execs' : \E I : f \in Execution(I)
    BY <1>0 DEF ActorInv, Types
  <1>11. \A d \in Docs : Items(wire'[d].down) \subseteq Items(wire[d].down)
    BY <1>8, NothingItems
  <1>12. ASSUME NEW d \in Docs, NEW x \in Items(wire'[d].up)
         PROVE  \/ x \in Items(wire[d].up)
                \/ /\ x.cmd \in 0 .. Len(Ops)
                   /\ x.type = "completed" => x.cmd \in Steps /\ performed[x.cmd] > 0
    BY <1>2, <1>4, <1>6, <1>7, <1>12
  <1>13. Bridged(bridge')
    BY <1>0, BridgeMoves
  <1> QED BY <1>0, <1>1, <1>7, <1>8, <1>9, <1>10, <1>11, <1>12, <1>13, ActorStep

-------------------------------------------------------------------------------
(* The theorems *)

LEMMA ActorInit ==
  ASSUME Init
  PROVE  ActorInv
  <1>1. PICK plan \in Plans :
          run = [plan |-> plan, status |-> "opening", step |-> 1, cmd |-> 0, pend |-> 0,
                 last |-> [d \in Docs |-> 0], exec |-> 0, nav |-> 0,
                 approved |-> FALSE, attest |-> FALSE, bound |-> NoPage]
    BY DEF Init
  <1>2. /\ doc = 1 /\ wire = [d \in Docs |-> Closed] /\ bridge = Fresh
        /\ announcing = {} /\ execs = {} /\ performed = [s \in Steps |-> 0]
    BY DEF Init
  <1>3. doc \in Docs /\ 0 \in 0 .. MaxDocs
    BY <1>2, ActorAssumption DEF Docs
  <1>4. run \in Run
    <2>1. NoPage \in [doc : 0 .. MaxDocs, seq : Nat, nav : Nat]
      BY <1>3 DEF NoPage
    <2>2. [d \in Docs |-> 0] \in [Docs -> Nat]
      OBVIOUS
    <2> QED BY <1>1, <1>3, <2>1, <2>2 DEF Run, Statuses
  <1>5. run.status = "opening" /\ run.step = 1 /\ run.cmd = 0
    BY <1>1
  <1>6. RunOK(run) /\ 1 \in Steps /\ Len(Ops) \in Nat
    BY <1>4, <1>5, PlanSteps DEF RunOK, Pending, Steps, Ops
  <1>7. wire \in [Docs -> Wire] /\ \A d \in Docs : wire[d].down = <<>> /\ wire[d].up = <<>>
    BY <1>2, ClosedWire
  <1>8. Types
    <2>1. NoBinding \in Binding({0})
      BY DEF NoBinding, Binding
    <2>2. bridge \in [started : BOOLEAN, binding : Binding({0}), active : {0}, seq : Nat]
      BY <1>2, <2>1 DEF Fresh
    <2> QED BY <1>2, <1>3, <1>4, <1>7, <2>2 DEF Types
  <1>9. MessagesOK /\ ExecsOK
    BY <1>2, <1>7, NothingItems DEF MessagesOK, ExecsOK
  <1>10. OnceOK
    <2>1. \A s \in Steps, i \in Nat : ~Ordered(s, i)
      BY <1>3, <1>7, NothingItems DEF Ordered
    <2> QED BY <1>2, <2>1 DEF OnceOK
  <1>11. TakenStepsWerePerformed
    <2>1. \A s \in Steps : ~(run.step > s)
      BY <1>5, <1>6 DEF Steps
    <2> QED BY <1>5, <2>1 DEF TakenStepsWerePerformed
  <1> QED BY <1>6, <1>8, <1>9, <1>10, <1>11 DEF ActorInv

LEMMA ActorNext ==
  ASSUME ActorInv, [Next]_vars
  PROVE  ActorInv'
  <1>1. CASE ReceiveBinding
    BY <1>1, ReceiveBindingOK
  <1>2. CASE ReceiveCommand
    BY <1>2, ReceiveCommandOK
  <1>3. CASE \E a \in announcing : Announce(a)
    BY <1>3, AnnounceOK
  <1>4. CASE \E e \in execs : StepFails(e) \/ StepCompletes(e)
    <2>1. PICK e \in execs : StepFails(e) \/ StepCompletes(e)
      BY <1>4
    <2>2. CASE StepFails(e)
      BY <2>2, ReportOK DEF StepFails, history
    <2>3. CASE StepCompletes(e)
      <3>1. performed[e.step] > 0
        BY <2>3 DEF StepCompletes, ActorInv, ExecsOK
      <3> QED BY <2>3, <3>1, ReportOK DEF StepCompletes, history
    <2> QED BY <2>1, <2>2, <2>3
  <1>5. CASE \E e \in execs : Operate(e)
    BY <1>5, OperateOK
  <1>6. CASE OpenTab \/ ResumeOpened \/ Approve \/ \E d \in Docs : ReceiveReport(d)
    BY <1>6, OpenTabOK, ResumeOpenedOK, ApproveOK, ReceiveReportOK
  <1>7. CASE Connect
    BY <1>7, ConnectOK
  <1>8. CASE PortDrops \/ Stop
    BY <1>8, PortDropsOK
  <1>9. CASE RunEnds
    BY <1>9, RunEndsOK
  <1>10. CASE Navigate
    BY <1>10, NavigateOK
  <1>11. CASE UNCHANGED vars
    <2>1. UNCHANGED <<run, doc, wire, bridge, announcing, execs, performed>>
      BY <1>11 DEF vars, history
    <2>2. Advance(run, run', FALSE)
      BY <2>1, ActorFacts
    <2> QED BY <2>1, <2>2, RunMoves
  <1> QED BY <1>1, <1>2, <1>3, <1>4, <1>5, <1>6, <1>7, <1>8, <1>9, <1>10, <1>11
          DEF Next, Actor, Coordinator

LEMMA ActorSafe == Spec => []ActorInv
  <1>1. ActorInv /\ [Next]_vars => ActorInv'
    BY ActorNext
  <1> QED BY ActorInit, <1>1, PTL DEF Spec

\* The record, the ports and the history have their types: a message up or down
\* and an execution carry the number of a step of the plan.
THEOREM ActorTypes == Spec => []TypeOK
  <1>1. ASSUME ActorInv
        PROVE  TypeOK
    <2>1. run \in Run /\ RunOK(run) /\ doc \in Docs /\ wire \in [Docs -> Wire] /\ wire[doc] \in Wire
      BY <1>1, ActorFacts
    <2>2. Len(Ops) \in Nat /\ bridge.seq \in Nat
      BY <1>1, <2>1, PlanSteps, BridgeMoves DEF Ops
    <2>3. run.step \in Steps /\ run.cmd \in 0 .. Len(Ops)
      BY <2>1, <2>2 DEF RunOK, Steps, Ops, Run
    <2>4. ASSUME NEW d \in Docs
          PROVE  wire[d].up \in Seq(Message({"page", "completed", "failed", "replaced"}))
      <3>1. wire[d].up \in Seq(Up)
        BY <2>1 DEF Wire
      <3>2. Len(wire[d].up) \in Nat /\ \A i \in 1 .. Len(wire[d].up) : wire[d].up[i] \in Up
        BY <3>1, Indices
      <3>3. \A i \in 1 .. Len(wire[d].up) : wire[d].up[i].cmd \in 0 .. Len(Ops)
        BY <1>1 DEF ActorInv, MessagesOK, Items
      <3>4. \A x \in Up : x.cmd \in 0 .. Len(Ops) =>
              x \in Message({"page", "completed", "failed", "replaced"})
        BY DEF Up, Message
      <3>5. \A i \in 1 .. Len(wire[d].up) :
              wire[d].up[i] \in Message({"page", "completed", "failed", "replaced"})
        BY <3>2, <3>3, <3>4
      <3>6. wire[d].up = [i \in 1 .. Len(wire[d].up) |-> wire[d].up[i]]
        BY <3>1
      <3> QED BY <3>2, <3>5, <3>6, SeqDef
    <2>5. \A e \in execs : e.step \in Steps /\ e.cmd = e.step
      BY <1>1 DEF ActorInv, ExecsOK
    <2>6. performed \in [Steps -> Nat]
      BY <1>1 DEF ActorInv, Types
    <2> QED BY <2>1, <2>2, <2>3, <2>4, <2>5, <2>6 DEF TypeOK, Run, Statuses
  <1> QED BY <1>1, ActorSafe, PTL

\* The operation of a step that may not be repeated is performed at most once,
\* over lost ports, replaced documents, rebinding and redelivery.
THEOREM PerformedOnce == Spec => []UnsafePerformedOnce
  <1>1. ActorInv => UnsafePerformedOnce
    BY DEF ActorInv, OnceOK, UnsafePerformedOnce
  <1> QED BY <1>1, ActorSafe, PTL

\* The coordinator takes a step of the page's own for done only after the actor
\* has performed it.
THEOREM TakenWerePerformed == Spec => []TakenStepsWerePerformed
  <1>1. ActorInv => TakenStepsWerePerformed
    BY DEF ActorInv
  <1> QED BY <1>1, ActorSafe, PTL

\* Only the execution the bridge holds as active performs an operation: one
\* that was overtaken does nothing more to the page.
THEOREM ActiveActs == Spec => OnlyActiveActs
  <1> DEFINE ByActive == \A s \in Steps : performed'[s] > performed[s] =>
                           \E e \in execs : e.id = bridge.active /\ e.step = s
  <1>1. ASSUME ActorInv, [Next]_vars
        PROVE  [ByActive]_vars
    <2>1. performed \in [Steps -> Nat]
      BY <1>1 DEF ActorInv, Types
    <2>2. CASE UNCHANGED performed
      BY <2>1, <2>2
    <2>3. ASSUME NEW e \in execs, Operate(e)
          PROVE  ByActive
      <3>1. performed' = [performed EXCEPT ![e.step] = @ + 1]
        BY <2>3 DEF Operate
      <3>2. \A s \in Steps : s # e.step => performed'[s] = performed[s]
        BY <2>1, <3>1
      <3>3. e.id = bridge.active
        BY <1>1 DEF ActorInv, ExecsOK
      <3> QED BY <2>1, <3>2, <3>3
    <2>4. UNCHANGED performed \/ \E e \in execs : Operate(e)
      BY <1>1 DEF Next, Actor, Coordinator, vars, history, ReceiveBinding, ReceiveCommand,
         Announce, StepFails, StepCompletes, OpenTab, ResumeOpened, Approve, ReceiveReport,
         Connect, PortDrops, Stop, RunEnds, Navigate
    <2> QED BY <2>2, <2>3, <2>4
  <1> QED BY <1>1, ActorSafe, PTL DEF Spec, OnlyActiveActs
===============================================================================
