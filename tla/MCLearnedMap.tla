------------------------------ MODULE MCLearnedMap ------------------------------
(***************************************************************************)
(* Finite instances of LearnedMap.  A scope of two places, the page before *)
(* the click and the page after it, and two elements; the layers the pages *)
(* produce, the answers the AI gives to them and the pages a step can meet *)
(* are chosen here.                                                        *)
(***************************************************************************)
EXTENDS LearnedMap, TLC

CONSTANTS e1, e2, home, done, q, f, a, n1, n2, u,
          Menu,       \* the drafts the AI answers with, of AllDrafts
          Ways,       \* how it backs them with evidence, of AllWays
          Dialects,   \* the dialects of the pattern of the second state
          Depth       \* how many layers the scope produces

NodesSeen == n1 :> e1 @@ n2 :> e2
MCLayers ==
  [i \in 1 .. Depth |->
     [nodes |-> NodesSeen,
      observation |-> IF i = 1 THEN NoObservation
                      ELSE [id |-> u, target |-> {n1}, updates |-> {}]]]

Seen(place, look1, keeps) ==
  [place |-> place, els |-> e1 :> look1 @@ e2 :> "shown", allowed |-> TRUE, keeps |-> keeps]
MCPages == {Seen(home, "shown", TRUE), Seen(home, "restyled", TRUE), Seen(home, "hidden", TRUE),
            Seen(home, "blank", FALSE), Seen(done, "twice", TRUE),
            [Seen(done, "shown", TRUE) EXCEPT !.allowed = FALSE]}

-----------------------------------------------------------------------------
(* The drafts.                                                             *)

By(el, by) == [el |-> el, by |-> by, generated |-> FALSE]
Nothing == By(NoElement, {})
Expect(kind, state, target) ==
  [kind |-> kind, target |-> target, state |-> state, pattern |-> NoPattern]
Do(op, target, value, key, expect) ==
  [op |-> op, target |-> target, value |-> value, literal |-> FALSE, key |-> key, expect |-> expect]
NoOutput == [mode |-> "none", root |-> Nothing, item |-> Nothing, fields |-> <<>>]
Draft(params, safety, to, steps, output) ==
  [params |-> params, safety |-> safety, to |-> to, steps |-> steps, output |-> output]
Full == {"role", "name", "css"}

Goes(el, by) ==
  Draft(<<>>, "danger", 2, <<Do("click", By(el, by), NoParam, "none",
        [Expect("navigation", 2, Nothing) EXCEPT !.pattern = [place |-> done, dialect |-> "both"]])>>,
        NoOutput)
Fills(required, key) ==
  Draft(q :> required, "write", 2,
        <<Do("fill", By(e1, Full), q, "none", Expect("dom_change", NoState, Nothing)),
          Do("press", By(e1, {"text"}), NoParam, key, Expect("dom_change", NoState, Nothing))>>,
        NoOutput)
Reads(mode) ==
  Draft(<<>>, "read", NoState,
        <<Do("extract", Nothing, NoParam, "none", Expect("element", NoState, By(e1, {"css"})))>>,
        [mode |-> mode, root |-> By(e2, {"css"}), item |-> By(e1, {"css"}),
         fields |-> <<[name |-> f, locator |-> By(e1, {"text", "css"}), required |-> TRUE]>>])
AllDrafts ==
  [click |-> Goes(e1, Full), drift |-> Goes(e2, Full), narrow |-> Goes(e1, {"role", "name"}),
   generated |-> [Goes(e1, Full) EXCEPT !.steps[1].target.generated = TRUE],
   fill |-> Fills(TRUE, "listed"), optional |-> Fills(FALSE, "listed"), odd |-> Fills(TRUE, "other"),
   literal |-> [Fills(TRUE, "listed") EXCEPT !.steps[1].literal = TRUE],
   page |-> Reads("page"), list |-> Reads("collection"),
   reread |-> [Reads("page") EXCEPT !.steps = @ \o @]]

-----------------------------------------------------------------------------
(* The answers: a draft bound to nodes of the current layer or to evidence *)
(* of the layer before, with or without the effect that was observed.      *)

Bind(step, role, field, layer0, id) ==
  [step |-> step, role |-> role, field |-> field, layer |-> layer0, id |-> id]
NodeOf(el) == CHOOSE n \in DOMAIN NodesSeen : NodesSeen[n] = el

TargetLayer(way, now) == CASE way \in {"recall", "echo"} -> now - 1
                           [] way = "mislaid" -> now + 1
                           [] OTHER -> now
Targets(d, at) ==
  {Bind(i, "target", NoField, at, NodeOf(d.steps[i].target.el)) :
     i \in {j \in DOMAIN d.steps : d.steps[j].op \in Interactive}}
Outputs(d, at) ==
  {Bind(i, "output", field, at, NodeOf(IF field = NoField THEN d.output.root.el ELSE e1)) :
     i \in {j \in DOMAIN d.steps : d.steps[j].op = "extract" /\ j = Len(d.steps)},
     field \in {NoField} \cup FieldNames(d.output)}
Effects(d, now) ==
  {Bind(i, "effect", NoField, now, u) :
     i \in {j \in DOMAIN d.steps : d.steps[j].op \in Interactive}}

Bindings(d, way, now) ==
  Targets(d, TargetLayer(way, now)) \cup Outputs(d, TargetLayer(way, now))
    \cup (IF way \in {"seen", "echo"} THEN Effects(d, now) ELSE {})
Citation(b, now) ==
  [layer |-> b.layer, id |-> b.id, kind |-> IF b.role = "effect" THEN "event" ELSE "node",
   source |-> CASE b.role = "effect" -> "observation"
                [] b.role # "effect" /\ b.layer = now -> "current_layer"
                [] OTHER -> "prior_context"]

ActionOp(d, way, now) ==
  LET bindings == Bindings(d, way, now)
  IN  [kind |-> "action", id |-> a, bindings |-> bindings,
       provenance |-> IF way \in {"seen", "echo"} THEN "observed" ELSE "inferred",
       cites |-> {Citation(b, now) : b \in bindings},
       action |-> [status |-> IF way \in {"seen", "echo"} THEN "observed" ELSE "resolvable",
                   safety |-> d.safety, from |-> 1, to |-> d.to, params |-> d.params,
                   steps |-> d.steps, output |-> d.output, evidence |-> {Token(b) : b \in bindings}]]
\* The provenance of a state is the word of the AI: no gate asks what backs it.
StateOp(s, way, place, dialect, now) ==
  LET b == Bind(0, "node", NoField, now, n1)
  IN  [kind |-> "state", id |-> s, cites |-> {Citation(b, now)},
       provenance |-> IF way = "fresh" THEN "observed" ELSE "inferred",
       state |-> [pattern |-> [place |-> place, dialect |-> dialect], evidence |-> {Token(b)}]]

\* The states come with the first action, and again when the pattern of the second changes.
StateOps(map, way, dialect, now) ==
  (IF 1 \in DOMAIN map.states THEN {} ELSE {StateOp(1, way, home, "both", now)})
  \cup (IF 2 \in DOMAIN map.states /\ map.states[2].pattern.dialect = dialect THEN {}
        ELSE {StateOp(2, way, done, dialect, now)})

MCAnswers(req, map) ==
  LET now == req.layer.id
      Ops(name, way, dialect) ==
        {ActionOp(AllDrafts[name], way, now)} \cup StateOps(map, way, dialect, now)
  IN  {[base |-> req.base, ops |-> Ops(name, way, dialect),
        cites |-> UNION {o.cites : o \in Ops(name, way, dialect)}] :
         name \in Menu, way \in Ways, dialect \in Dialects}

MCSymmetry == Permutations(Runs)
================================================================================
