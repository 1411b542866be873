------------------------------ MODULE Linking ------------------------------
(***************************************************************************)
(* The parser, the realizability index and an e-graph that grows at will:  *)
(* what src/monitor.rs wires together, without its schedule.               *)
(*                                                                         *)
(* Between two calls of the index anything may happen that the monitor     *)
(* could do: a token is derived, a fixed expression is materialized, a row *)
(* or an equality is added to the e-graph.  The index hears of the parser  *)
(* by its log only, and of the e-graph by a delta that names every change, *)
(* be it much later.                                                       *)
(***************************************************************************)
EXTENDS Wiring

CONSTANTS
  MaxClasses,                    \* bound: classes of an e-graph, ever
  MaxGrowth                      \* bound: rows and equalities the rules add

ASSUME LinkingBounds == MaxGrowth \in Nat

VARIABLES
  delta,                  \* what of the e-graph's growth is still unreported
  growth,                 \* history, bounded by MaxGrowth
  log                     \* what of the parser's growth is still unreported

backend == <<egraph, delta, growth>>
vars == <<parser, backend, log, link>>
----------------------------------------------------------------------------
Init ==
  /\ Parser!Init
  /\ egraph \in grammar.egraphs
  /\ delta = {} /\ growth = 0
  /\ log = Index!InitialLog
  /\ indexes = Index!NoIndexes
  /\ closure = {} /\ agenda = <<>>

\* No call is in progress.
Ready == Parser!Idle /\ log = {} /\ agenda = <<>>

\* `push_lexeme` up to its first answer: derive, update_pwz, and their loops.
Derive(t) ==
  /\ Ready /\ zippers # <<>>
  /\ Parser!Derive(t)
  /\ UNCHANGED <<backend, log, link>>

Parse ==
  /\ Parser!Step
  /\ UNCHANGED <<backend, log, link>>

Parsed ==
  /\ Parser!EndDerive
  /\ log' = Range(changes)
  /\ UNCHANGED <<backend, link>>

Tell ==
  /\ Parser!Idle /\ log # {}
  /\ Index!UpdatePwz(log)
  /\ log' = {}
  /\ UNCHANGED <<parser, backend>>

Close ==
  /\ Index!Close
  /\ UNCHANGED <<parser, backend, log>>

----------------------------------------------------------------------------
(* The e-graph.  `mark` and `mark_constructor` note what a step changes.   *)

Marked(g, h) ==
  LET grown == {c \in DOMAIN schema.constructors :
                  Applications(g, c) # Applications(h, c)}
  IN {Index!ConstructorMark(c) : c \in grown}
       \cup (IF grown = {} THEN {} ELSE Index!TerminalMarks)
       \cup (IF g.target = h.target THEN {} ELSE {Index!TargetMark})

Mark == delta' = delta \cup Marked(egraph, egraph')

Small(g) == Cardinality(DOMAIN g.find) <= MaxClasses

\* `materialize_expression`; whichever fixed expression the monitor chooses.
Materialize ==
  /\ Ready
  /\ \E e \in DOMAIN expressions : Index!MaterializeExpression(e)
  /\ egraph' # egraph /\ Small(egraph')
  /\ Mark
  /\ UNCHANGED <<parser, growth, log>>

\* The values a rule can speak of.
Known(g) == Range(g.find) \cup (UNION {Range(r.children) : r \in g.rows})
              \cup (UNION Range(schema.lexemes))

\* One application more, or one equality, whose consequences are found at once.
Grown(g) ==
  (UNION {{Added(g, c, vs, schema.constructors[c].output) :
             vs \in {xs \in [DOMAIN schema.constructors[c].inputs -> Known(g)] :
                       \A a \in DOMAIN xs :
                         xs[a].sort = schema.constructors[c].inputs[a]}} :
          c \in DOMAIN schema.constructors})
    \cup {Rebuilt(Equated(g, x[1], x[2])) :
            x \in {y \in Range(g.find) \X Range(g.find) :
                     y[1].sort = y[2].sort /\ y[1] # y[2]}}

\* The user's rules; the target is found again by its expression.
Grow ==
  /\ Ready
  /\ growth < MaxGrowth /\ growth' = growth + 1
  /\ \E g \in Grown(egraph) :
       /\ g # egraph /\ Small(g)
       /\ egraph' = [g EXCEPT !.target = Canonical(g, @)]
  /\ Mark
  /\ UNCHANGED <<parser, log, link>>

\* `apply_delta`
Report ==
  /\ Ready /\ delta # {}
  /\ Index!UpdateEGraph(delta)
  /\ delta' = {}
  /\ UNCHANGED <<parser, egraph, growth, log>>

----------------------------------------------------------------------------
Next == \/ \E t \in Tokens : Derive(t)
        \/ Parse \/ Parsed \/ Tell \/ Close
        \/ Materialize \/ Grow \/ Report

Spec == Init /\ [][Next]_vars
----------------------------------------------------------------------------
(* Properties.                                                             *)

\* Every fact is about something that exists, every event is a fact and is
\* pending once, and classes are what the e-graph's rows hold.
TypeOK ==
  /\ {f.expression : f \in {x \in closure : x.fact = "Produces"}}
       \subseteq DOMAIN expressions
  /\ {f.site : f \in {x \in closure : x.fact # "Produces"}} \subseteq Index!Site
  /\ \A i, j \in DOMAIN agenda : /\ agenda[i] # {} /\ agenda[i] \subseteq closure
                                 /\ i # j => agenda[i] \cap agenda[j] = {}
  /\ \A r \in egraph.rows : Canonical(egraph, r.output) = r.output
  /\ egraph.find[egraph.target] = egraph.target
  /\ growth \in 0 .. MaxGrowth

\* Witnesses survive whatever happens to the e-graph.
AnswerKept == [][KeepsAnswer]_vars

\* What follows is never withdrawn, and nothing more is claimed while the parser
\* or the e-graph grows, so that between two calls is when to look.
FactsDerived == Ready => Derived

\* Once told of everything and closed, no fact that follows is missing, save the
\* demand for a value at a site that any value suits.
FactsFound ==
  Ready /\ delta = {} =>
    \A f \in Index!Entailed :
      \/ f \in Index!Reading
      \/ f.fact = "RealizableFor" /\ Index!Realizable(f.site) \in closure
=============================================================================
