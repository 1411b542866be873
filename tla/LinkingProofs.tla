--------------------------- MODULE LinkingProofs ---------------------------
(***************************************************************************)
(* The realizability index claims nothing that does not follow, and misses *)
(* nothing once it is told and closed: for every grammar, e-graph, token   *)
(* set and bound that the assumptions of Linking allow.                    *)
(*                                                                         *)
(* A set of facts is closed if the rules of Entailment add nothing to it.  *)
(* The heart of the first invariant is that what the index has, read in    *)
(* the e-graph as it is, lies in every closed set.  That of the second is  *)
(* that what the rules say of the settled facts, those that are no longer  *)
(* on the work list, is known, but where the log or the delta still have   *)
(* to tell of a change; so that, with nothing pending and nothing untold,  *)
(* the facts known make a closed set.                                      *)
(***************************************************************************)
EXTENDS Linking, WiringProofs

----------------------------------------------------------------------------
(* The inductive invariant.                                                *)

\* The log tells of nothing that the maps do not hold, and a delta names changes
\* of these kinds.
LogTrue == log \subseteq GraphLog
DeltaOK == \A x \in delta : x.change \in {"Target", "Terminal", "Constructor"}

\* The target is a representative.
TargetOK == egraph.find[egraph.target] = egraph.target

LinkingInv ==
  /\ ParserOK /\ EGraphOK /\ IndexOK
  /\ TargetOK /\ LogTrue /\ DeltaOK
  /\ growth \in 0 .. MaxGrowth

LEMMA LinkingStarts == Init => LinkingInv
<1> SUFFICES ASSUME Init PROVE LinkingInv  OBVIOUS
<1>1. ParserOK
  BY ParserStarts DEF Init
<1>2. EGraphOK /\ TargetOK
  BY <1>1, GrammarsWellTyped DEF Init, ParserOK, EGraphOK, TargetOK, schema
<1>3. LogTrue /\ DeltaOK /\ Shaped /\ Supported
  BY DEF Init, LogTrue, GraphLog, DeltaOK, Shaped, Supported, Index!Reading
<1>4. IndexTrue
  BY DEF Init, IndexTrue, Bounded, Index!NoIndexes
<1>5. AgendaOK
  BY DEF Init, AgendaOK, Stack
<1>6. growth \in 0 .. MaxGrowth
  BY LinkingBounds DEF Init
<1> QED  BY <1>1, <1>2, <1>3, <1>4, <1>5, <1>6 DEF LinkingInv, IndexOK

\* `derive`, one of its operations, or its end.
LEMMA ParsingKeeps ==
  ASSUME ParserOK, EGraphOK, IndexOK, LogTrue, Parse \/ Parsed \/ \E t \in Tokens : Derive(t)
  PROVE  ParserOK' /\ EGraphOK' /\ IndexOK' /\ LogTrue' /\ egraph' = egraph
<1>1. /\ Parser!Step \/ Parser!EndDerive \/ \E t \in Tokens : Parser!Derive(t)
      /\ UNCHANGED <<egraph, link>>
      /\ \/ log' = log
         \/ Parser!EndDerive /\ log' = Range(changes)
  <2>1. CASE Parse
    BY <2>1 DEF Parse, backend
  <2>2. CASE Parsed
    BY <2>2 DEF Parsed, backend
  <2>3. CASE \E t \in Tokens : Derive(t)
    BY <2>3 DEF Derive, backend
  <2> QED  BY <2>1, <2>2, <2>3
<1>2. /\ ParserOK' /\ EGraphOK' /\ IndexOK' /\ GraphLog \subseteq GraphLog'
      /\ Parser!EndDerive => Range(changes) \subseteq GraphLog'
  BY <1>1, ParserStepKeeps
<1> QED  BY <1>1, <1>2 DEF LogTrue

\* A step that leaves maps and e-graph alone.
LEMMA IndexStepKeeps ==
  ASSUME ParserOK, EGraphOK, IndexOK, LogTrue, DeltaOK, Tell \/ Close \/ Report
  PROVE  /\ ParserOK' /\ EGraphOK' /\ IndexOK' /\ LogTrue' /\ DeltaOK'
         /\ egraph' = egraph /\ closure \subseteq closure'
<1>1. UNCHANGED parser /\ egraph' = egraph /\ log' \subseteq log /\ delta' \subseteq delta
  BY DEF Tell, Close, Report, backend
<1>2. Stays
  BY <1>1 DEF Stays, parser
<1>3. ParserOK'
  BY <1>1, ParserKeeps
<1>4. EGraphOK'
  BY <1>1 DEF EGraphOK, schema, parser
<1>5. IndexOK'
  <2>1. CASE Tell
    BY <1>2, <2>1, MapsTyped, TellKeeps DEF Tell, LogTrue
  <2>2. CASE Close
    BY <1>2, <2>2, MapsTyped, CloseKeeps DEF Close, Index!Close
  <2>3. CASE Report
    BY <1>2, <2>3, MapsTyped, ReportKeeps DEF Report, DeltaOK
  <2> QED  BY <2>1, <2>2, <2>3
<1>6. GraphLog \subseteq GraphLog'
  BY <1>2, StaysGrows, LogGrows
<1>7. closure \subseteq closure'
  BY DEF Tell, Close, Report, Index!UpdatePwz, Index!UpdateEGraph, Index!Close,
         Index!CloseEvent, Index!Insert, Index!InsertAbove
<1> QED  BY <1>1, <1>3, <1>4, <1>5, <1>6, <1>7 DEF LogTrue, DeltaOK

\* What a step does to the e-graph is marked by kinds a delta may have.
LEMMA MarkedKinds ==
  ASSUME DeltaOK, Mark
  PROVE  DeltaOK'
BY DEF DeltaOK, Mark, Marked, Index!ConstructorMark, Index!TerminalMarks, Index!TargetMark

\* The user's rules: one more application, or one more equality.
LEMMA GrownGrows ==
  ASSUME SchemaOK, Coherent(egraph), NEW g \in Grown(egraph)
  PROVE  \E sorts, shapes : Allowed(sorts, shapes) /\ Grows(egraph, g, sorts, shapes)
<1>1. ASSUME NEW c \in DOMAIN schema.constructors,
             NEW vs \in [DOMAIN schema.constructors[c].inputs -> Known(egraph)],
             g = Added(egraph, c, vs, schema.constructors[c].output)
      PROVE  \E sorts, shapes : Allowed(sorts, shapes) /\ Grows(egraph, g, sorts, shapes)
  <2> DEFINE s == schema.constructors[c].output
             D == DOMAIN schema.constructors[c].inputs
  <2>1. DOMAIN vs = D /\ IsFiniteSet(D) /\ s \notin LexicalSorts(schema) /\ c # Disjoint
    BY DEF SchemaOK, ConstructorWellTyped
  <2>2. Grows(egraph, g, {s}, {<<c, D>>})
    BY <1>1, <2>1, AddedGrows
  <2>3. Allowed({s}, {<<c, D>>})
    BY <2>1 DEF Allowed
  <2> QED  BY <2>2, <2>3
<1>2. ASSUME NEW u \in Range(egraph.find), NEW v \in Range(egraph.find),
             g = Rebuilt(Equated(egraph, u, v))
      PROVE  \E sorts, shapes : Allowed(sorts, shapes) /\ Grows(egraph, g, sorts, shapes)
  <2>1. \A w \in Range(egraph.find) : w \in DOMAIN egraph.find /\ egraph.find[w] = w
    BY DEF Coherent, Range
  <2>2. Grows(egraph, Equated(egraph, u, v), {}, {})
    BY <2>1, EquatedGrows
  <2>3. Grows(Equated(egraph, u, v), g, {}, {})
    BY <1>2, <2>2, RebuiltGrows DEF Grows
  <2>4. Grows(egraph, g, {}, {})
    BY <2>2, <2>3, GrowsOn
  <2>5. Allowed({}, {})
    BY DEF Allowed
  <2> QED  BY <2>4, <2>5
<1>3. \/ \E c \in DOMAIN schema.constructors :
           \E vs \in [DOMAIN schema.constructors[c].inputs -> Known(egraph)] :
             g = Added(egraph, c, vs, schema.constructors[c].output)
      \/ \E u, v \in Range(egraph.find) : g = Rebuilt(Equated(egraph, u, v))
  BY DEF Grown
<1> QED  BY <1>1, <1>2, <1>3

\* The steps of the e-graph.
LEMMA GrowingKeeps ==
  ASSUME ParserOK, EGraphOK, IndexOK, TargetOK, LogTrue, DeltaOK, Materialize \/ Grow
  PROVE  /\ ParserOK' /\ EGraphOK' /\ IndexOK' /\ TargetOK' /\ LogTrue' /\ DeltaOK'
         /\ Continues(egraph, egraph') /\ closure \subseteq closure'
<1>1. UNCHANGED parser /\ log' = log /\ DeltaOK'
  BY MarkedKinds DEF Materialize, Grow
<1>2. SchemaOK /\ Coherent(egraph)
  BY MapsTyped DEF EGraphOK, EGraphWellTyped
<1>3. CASE Materialize
  <2>1. PICK e \in DOMAIN expressions : Index!MaterializeExpression(e)
    BY <1>3 DEF Materialize
  <2>2. /\ ParserOK' /\ EGraphOK' /\ IndexOK' /\ Moves /\ GraphLog \subseteq GraphLog'
        /\ Keeps(egraph, egraph') /\ closure \subseteq closure'
    BY <1>1, <2>1, MaterializeKeeps
  <2>3. TargetOK'
    BY <1>2, <2>2 DEF TargetOK, Keeps, Coherent
  <2> QED  BY <1>1, <2>2, <2>3 DEF Moves, LogTrue
<1>4. CASE Grow
  <2>1. PICK g \in Grown(egraph) : egraph' = [g EXCEPT !.target = Canonical(g, @)]
    BY <1>4 DEF Grow
  <2>2. PICK sorts, shapes : Allowed(sorts, shapes) /\ Grows(egraph, g, sorts, shapes)
    BY <1>2, GrownGrows
  <2>3. Grows(egraph, egraph', sorts, shapes) /\ TargetOK'
    BY <2>1, <2>2, Retargeted DEF TargetOK
  <2>4. UNCHANGED <<parser, link>> /\ closure' = closure
    BY <1>4 DEF Grow, link
  <2>5. ParserOK' /\ EGraphOK' /\ IndexOK' /\ Moves /\ GraphLog \subseteq GraphLog'
    BY <2>2, <2>3, <2>4, GrowKeeps
  <2> QED  BY <1>1, <2>3, <2>4, <2>5 DEF Moves, LogTrue
<1> QED  BY <1>1, <1>3, <1>4

LEMMA LinkingNext == LinkingInv /\ [Next]_vars => LinkingInv'
<1> SUFFICES ASSUME LinkingInv, [Next]_vars PROVE LinkingInv'  OBVIOUS
<1>1. /\ ParserOK /\ EGraphOK /\ IndexOK /\ TargetOK /\ LogTrue /\ DeltaOK
      /\ growth \in 0 .. MaxGrowth
  BY DEF LinkingInv
<1>2. CASE Parse \/ Parsed \/ \E t \in Tokens : Derive(t)
  <2>1. growth' = growth /\ delta' = delta
    BY <1>2 DEF Parse, Parsed, Derive, backend
  <2> QED  BY <1>1, <1>2, <2>1, ParsingKeeps DEF LinkingInv, TargetOK, DeltaOK
<1>3. CASE Tell \/ Close \/ Report
  <2>1. growth' = growth
    BY <1>3 DEF Tell, Close, Report, backend
  <2> QED  BY <1>1, <1>3, <2>1, IndexStepKeeps DEF LinkingInv, TargetOK
<1>4. CASE Materialize \/ Grow
  <2>1. growth' \in 0 .. MaxGrowth
    BY <1>1, <1>4, LinkingBounds DEF Materialize, Grow
  <2> QED  BY <1>1, <1>4, <2>1, GrowingKeeps DEF LinkingInv
<1>5. CASE UNCHANGED vars
  <2>1. UNCHANGED <<parser, grammar, egraph, delta, growth, log, link>>
    BY <1>5 DEF vars, parser, backend
  <2>2. Stays
    BY <2>1 DEF Stays, parser
  <2>3. ParserOK' /\ EGraphOK'
    BY <1>1, <2>1, ParserKeeps DEF EGraphOK, schema
  <2>4. IndexOK'
    BY <1>1, <2>1, <2>2, StaysKeeps
  <2>5. LogTrue'
    BY <1>1, <2>1, <2>2, StaysGrows, LogGrows DEF LogTrue
  <2> QED  BY <1>1, <2>1, <2>3, <2>4, <2>5 DEF LinkingInv, TargetOK, DeltaOK
<1> QED  BY <1>2, <1>3, <1>4, <1>5 DEF Next

----------------------------------------------------------------------------
(* The theorems.                                                           *)

\* Every fact of the index is about an expression, a memo or a context that
\* exists, every event is a fact pending once, and the rows of the e-graph hold
\* representatives: after any step of `update_pwz`, `close` and `update_egraph`.
THEOREM LinkingTyped == Spec => []TypeOK
<1>1. LinkingInv => TypeOK
  <2> SUFFICES ASSUME LinkingInv PROVE TypeOK  OBVIOUS
  <2>1. MapsOK /\ EGraphOK /\ IndexOK /\ growth \in 0 .. MaxGrowth
    BY MapsTyped DEF LinkingInv
  <2>2. {f.expression : f \in {x \in closure : x.fact = "Produces"}} \subseteq DOMAIN expressions
    BY <2>1, ClosureTyped DEF IndexOK
  <2>3. {f.site : f \in {x \in closure : x.fact # "Produces"}} \subseteq Index!Site
    BY <2>1, ClosureTyped DEF IndexOK
  <2>4. \A i, j \in DOMAIN agenda : /\ agenda[i] # {} /\ agenda[i] \subseteq closure
                                    /\ i # j => agenda[i] \cap agenda[j] = {}
    <3>1. agenda \in Seq(SUBSET closure)
      BY <2>1 DEF IndexOK, AgendaOK, Stack
    <3>2. \A i \in DOMAIN agenda : agenda[i] \subseteq closure
      BY <3>1
    <3> QED  BY <2>1, <3>2 DEF IndexOK, AgendaOK, Stack
  <2>5. /\ \A r \in egraph.rows : Canonical(egraph, r.output) = r.output
        /\ egraph.find[egraph.target] = egraph.target
    BY <2>1, RowFacts DEF LinkingInv, TargetOK
  <2> QED  BY <2>1, <2>2, <2>3, <2>4, <2>5 DEF TypeOK
<1> QED  BY <1>1, LinkingStarts, LinkingNext, PTL DEF Spec

\* The index claims no fact that does not follow from the parser's graph and the
\* e-graph as they are, whatever tokens were derived, rows added and classes
\* merged, and however late the index is told: every answer of `is_realizable` has
\* a derivation by the rules.  This holds in every state, amid a derivative and
\* amid the turns of `close`.
THEOREM AlwaysDerived == Spec => []Derived
<1>1. LinkingInv => Derived
  <2> SUFFICES ASSUME LinkingInv PROVE Derived  OBVIOUS
  <2> QED  BY MapsTyped, IndexDerived DEF LinkingInv
<1> QED  BY <1>1, LinkingStarts, LinkingNext, PTL DEF Spec

\* In particular between two calls, where TLC looks.
THEOREM FactsAreDerived == Spec => []FactsDerived
<1>1. Derived => FactsDerived
  BY DEF FactsDerived
<1> QED  BY <1>1, AlwaysDerived, PTL

\* What the index knows is never withdrawn, and what was equal stays so.
LEMMA LinkingGrows ==
  ASSUME LinkingInv, [Next]_vars
  PROVE  closure \subseteq closure' /\ Continues(egraph, egraph')
<1>1. ParserOK /\ EGraphOK /\ IndexOK /\ TargetOK /\ LogTrue /\ DeltaOK
  BY DEF LinkingInv
<1>2. Continues(egraph, egraph)
  BY <1>1, GrowsNot DEF EGraphOK, EGraphWellTyped, Grows
<1>3. CASE Parse \/ Parsed \/ (\E t \in Tokens : Derive(t)) \/ UNCHANGED vars
  BY <1>2, <1>3 DEF Parse, Parsed, Derive, backend, link, vars
<1>4. CASE Tell \/ Close \/ Report
  BY <1>1, <1>2, <1>4, IndexStepKeeps
<1>5. CASE Materialize \/ Grow
  BY <1>1, <1>5, GrowingKeeps
<1> QED  BY <1>3, <1>4, <1>5 DEF Next

\* A live prefix stays live while only the e-graph changes and the index is told
\* of it: the answer of `is_realizable` is not taken back.
THEOREM AnswersAreKept == Spec => AnswerKept
<1>1. LinkingInv /\ [Next]_vars => [KeepsAnswer]_vars
  BY LinkingGrows, WitnessStays
<1> QED  BY <1>1, LinkingStarts, LinkingNext, PTL DEF Spec, AnswerKept

----------------------------------------------------------------------------
(* Nothing is missed.  What the rules say of the settled facts, those whose *)
(* consequences have been drawn, is known; but for what stands in the log, *)
(* or has changed in the e-graph, and is still to be told.                 *)

Pending == UNION Range(agenda)
Settled == closure \ Pending

\* The parser's changes that the index has not read.
Unread == log \cup Range(changes)

\* A demand for one value is as good as held at a site that any value suits.
HeldIn(known, f) ==
  \/ f \in known
  \/ f.fact = "RealizableFor" /\ Index!Realizable(f.site) \in known

\* A change of the e-graph that bears on an expression, or on a context.
ChangedExpression(marks, e) ==
  LET node == expressions[e].node
      k == Index!ExpressionAction(e).constructor IN
  \/ node.tag = "Tok" /\ [change |-> "Terminal", terminal |-> node.terminal] \in marks
  \/ node.tag = "Seq" /\ k # None /\ Index!ConstructorMark(k) \in marks
ChangedContext(marks, c) ==
  LET k == Index!ContextAction(c).constructor IN
  \/ contexts[c].tag = "Top" /\ Index!TargetMark \in marks
  \/ contexts[c].tag = "Seq" /\ k # None /\ Index!ConstructorMark(k) \in marks

\* What the rules add to S is in K.
ExpressionComplete(S, K, e) ==
  \A v \in Index!ImpliedValues(S, e) : Index!Produces(e, v) \in K
ContextComplete(S, K, c) ==
  \A f \in Index!ImpliedAt(S, c) : HeldIn(K, f)
ParentComplete(S, K, m, c) ==
  /\ \A v \in Index!DemandsIn(S, Index!ContextSite(c)) :
       Index!RealizableFor(Index!MemoSite(m), v) \in K
  /\ Index!Realizable(Index!ContextSite(c)) \in S =>
       Index!Realizable(Index!MemoSite(m)) \in K

Complete(unread, marks, S, K) ==
  /\ \A e \in DOMAIN expressions :
       \/ NewExpression(e) \in unread \/ ChangedExpression(marks, e)
       \/ ExpressionComplete(S, K, e)
  /\ \A c \in DOMAIN contexts :
       \/ NewContext(c) \in unread \/ ChangedContext(marks, c)
       \/ ContextComplete(S, K, c)
  /\ \A m \in DOMAIN memos : \A c \in Range(memos[m].parents) :
       ParentAppended(m, c) \in unread \/ ParentComplete(S, K, m, c)

FactsComplete == Complete(Unread, delta, Settled, closure)

\* What has been read stands in every index it belongs to.
ExpressionIndexed(known, e) ==
  LET node == expressions[e].node
      k == Index!ExpressionAction(e).constructor IN
  /\ node.tag = "Tok" => <<node.terminal, e>> \in known.expressions_by_terminal
  /\ node.tag = "Seq" /\ k # None =>
       <<k, Index!ExpressionConsumer(e)>> \in known.consumers_by_constructor
  /\ \A child \in Range(Index!Selected(e)) :
       <<child, Index!ExpressionConsumer(e)>> \in known.consumers_by_expression
ContextIndexed(known, c) ==
  LET k == Index!ContextAction(c).constructor IN
  /\ contexts[c].tag = "Top" => c \in known.top_contexts
  /\ contexts[c].tag # "Top" => <<contexts[c].memo, c>> \in known.contexts_by_outer_memo
  /\ contexts[c].tag = "Seq" /\ k # None =>
       <<k, Index!ContextConsumer(c)>> \in known.consumers_by_constructor
  /\ contexts[c].tag = "Seq" =>
       \A child \in Range(Index!ContextChildren(c)) \ {None} :
         <<child, Index!ContextConsumer(c)>> \in known.consumers_by_expression

Full(unread, known) ==
  /\ \A e \in DOMAIN expressions :
       NewExpression(e) \in unread \/ ExpressionIndexed(known, e)
  /\ \A c \in DOMAIN contexts :
       NewContext(c) \in unread \/ ContextIndexed(known, c)
  /\ \A m \in DOMAIN memos : \A c \in Range(memos[m].parents) :
       ParentAppended(m, c) \in unread \/ <<c, m>> \in known.memos_by_context

IndexFull == Full(Unread, indexes)

\* A log is read before the parser moves on.
LogRead == IF Parser!Idle THEN changes = <<>> ELSE log = {}

----------------------------------------------------------------------------
(* What is rechecked is found.                                             *)

LEMMA KnownIn ==
  ASSUME NEW X \in SUBSET closure
  PROVE  /\ \A e : Index!ValuesIn(X, e) \subseteq Index!Values(e)
         /\ \A s : Index!DemandsIn(X, s) \subseteq Index!Demands(s)
         /\ \A e : \A v \in Index!ValuesIn(X, e) : Index!HasProduces(e, v)
<1>1. \A e : Index!ValuesIn(X, e) \subseteq Index!Values(e)
  BY DEF Index!ValuesIn, Index!Values
<1>2. \A s : Index!DemandsIn(X, s) \subseteq Index!Demands(s)
  BY DEF Index!DemandsIn, Index!Demands
<1>3. \A e : \A v \in Index!Values(e) : Index!HasProduces(e, v)
  BY IndexNames DEF Index!HasProduces
<1> QED  BY <1>1, <1>2, <1>3

LEMMA FittingMatches ==
  ASSUME NEW X \in SUBSET closure, NEW r, NEW children, Index!Fits(X, r, children),
         NEW given
  PROVE  Matches(r, children, given)
BY KnownIn, IndexNames DEF Index!Fits, Matches

\* `recheck_expression`
LEMMA RecheckFinds ==
  ASSUME MapsOK, EGraphOK, NEW X \in SUBSET closure, NEW e \in DOMAIN expressions,
         NEW v \in Index!ImpliedValues(X, e)
  PROVE  Index!Produces(e, v) \in Index!RecheckExpression(e)
<1> DEFINE node == expressions[e].node
           k == Index!ExpressionAction(e).constructor
           children == Index!ExpressionChildren(e)
<1>0. /\ node.tag \in {"Tok", "Seq", "Alt"}
      /\ Index!IsLeaf(node) => node.tag # "Tok"
  BY DEF MapsOK, Index!IsLeaf
<1>1. CASE node.tag = "Tok"
  BY <1>0, <1>1 DEF Index!ImpliedValues, Index!RecheckExpression
<1>2. CASE Index!IsLeaf(node)
  <2>1. node.tag = "Seq" /\ node.symbol.tag = "Token"
    BY <1>2 DEF Index!IsLeaf
  <2>2. PICK u \in node.symbol.token.payload : v = Canonical(egraph, u)
    BY <1>2, <2>1, IndexNames DEF Index!ImpliedValues
  <2>3. u.sort \in LexicalSorts(schema)
    BY <1>2 DEF MapsOK
  <2>4. u \notin DOMAIN egraph.find
    BY <2>3 DEF EGraphOK, EGraphWellTyped
  <2>5. v = u
    BY <2>2, <2>4 DEF Canonical
  <2>6. node.tag # "Tok" /\ Index!ExpressionAction(e).constructor = None
    BY <1>2, <2>1 DEF MapsOK
  <2> QED  BY <2>1, <2>2, <2>5, <2>6, IndexNames DEF Index!RecheckExpression
<1>3. CASE ~Index!IsLeaf(node) /\ node.tag = "Seq" /\ k # None
  <2>1. PICK r \in Index!ExpressionRows(e) : Index!Fits(X, r, children) /\ v = r.output
    BY <1>3, IndexNames DEF Index!ImpliedValues
  <2>2. r \in Index!RowsMatching(Index!ExpressionRows(e), children, {})
    BY <2>1, FittingMatches, MatchingRows
  <2> QED  BY <1>3, <2>1, <2>2, IndexNames DEF Index!RecheckExpression, Index!IsLeaf
<1>4. CASE ~Index!IsLeaf(node) /\ node.tag # "Tok" /\ (node.tag = "Seq" => k = None)
  <2>1. PICK child \in Range(Index!Selected(e)) : v \in Index!ValuesIn(X, child)
    BY <1>4, IndexNames DEF Index!ImpliedValues
  <2>2. v \in Index!Values(child)
    BY <2>1, KnownIn
  <2> QED  BY <1>4, <2>1, <2>2, IndexNames DEF Index!RecheckExpression, Index!IsLeaf
<1> QED  BY <1>0, <1>1, <1>2, <1>3, <1>4

\* `propagate_context_demand`
LEMMA DemandFinds ==
  ASSUME MapsOK, NEW X \in SUBSET closure,
         NEW c \in DOMAIN contexts, contexts[c].tag # "Top",
         NEW d, NEW f \in Index!ImpliedDemand(X, c, d)
  PROVE  f \in Index!PropagateDemand(c, d)
<1> DEFINE k == Index!ContextAction(c).constructor
           children == Index!ContextChildren(c)
<1>0. contexts[c].tag \in {"Seq", "Alt"}
  BY DEF MapsOK
<1>1. CASE contexts[c].tag = "Alt"
  BY <1>1 DEF Index!PropagateDemand, Index!ImpliedDemand
<1>2. CASE contexts[c].tag = "Seq" /\ k # None
  <2>1. PICK r \in Index!Applications(egraph, k) :
          r.output = d /\ Index!Fits(X, r, children) /\ f = Index!HoleFact(c, r)
    BY <1>2, IndexNames DEF Index!ImpliedDemand
  <2>2. r \in Index!DemandedRows(c, d)
    BY <2>1, IndexNames DEF Index!DemandedRows
  <2>3. r \in Index!RowsMatching(Index!DemandedRows(c, d), children, {})
    BY <2>1, <2>2, FittingMatches, MatchingRows
  <2> QED  BY <1>2, <2>1, <2>3, IndexNames DEF Index!PropagateDemand
<1>3. CASE contexts[c].tag = "Seq" /\ k = None
  <2>1. CASE Head(children) = None
    BY <1>3, <2>1, IndexNames DEF Index!PropagateDemand, Index!ImpliedDemand
  <2>2. CASE Head(children) # None
    <3>1. /\ f = Index!Realizable(Index!ContextSite(c))
          /\ d \in Index!ValuesIn(X, Head(children))
      BY <1>3, <2>2, IndexNames DEF Index!ImpliedDemand
    <3>2. Index!HasProduces(Head(children), d)
      BY <3>1, KnownIn
    <3> QED  BY <1>3, <2>2, <3>1, <3>2, IndexNames DEF Index!PropagateDemand
  <2> QED  BY <2>1, <2>2
<1> QED  BY <1>0, <1>1, <1>2, <1>3

\* All the facts of a context are at its site.
LEMMA AtSite ==
  ASSUME NEW X, NEW c, NEW d, NEW f \in Index!ImpliedDemand(X, c, d)
  PROVE  \/ f = Index!Realizable(Index!ContextSite(c))
         \/ \E v : f = Index!RealizableFor(Index!ContextSite(c), v)
<1>1. ASSUME NEW r
      PROVE  \/ Index!HoleFact(c, r) = Index!Realizable(Index!ContextSite(c))
             \/ \E v : Index!HoleFact(c, r) = Index!RealizableFor(Index!ContextSite(c), v)
  BY DEF Index!HoleFact
<1> QED  BY <1>1 DEF Index!ImpliedDemand

LEMMA ContextFacts ==
  ASSUME NEW X, NEW c, contexts[c].tag # "Top", NEW f \in Index!ImpliedAt(X, c)
  PROVE  \/ /\ Index!Realizable(Index!MemoSite(contexts[c].memo)) \in X
            /\ f = Index!Realizable(Index!ContextSite(c))
         \/ \E d \in Index!DemandsIn(X, Index!MemoSite(contexts[c].memo)) :
              f \in Index!ImpliedDemand(X, c, d)
BY DEF Index!ImpliedAt

\* Where any value suits, nothing more need be known.
LEMMA AnySuits ==
  ASSUME NEW X, NEW c, contexts[c].tag # "Top", NEW f \in Index!ImpliedAt(X, c),
         NEW known, Index!Realizable(Index!ContextSite(c)) \in known
  PROVE  HeldIn(known, f)
<1>1. \/ f = Index!Realizable(Index!ContextSite(c))
      \/ \E v : f = Index!RealizableFor(Index!ContextSite(c), v)
  BY ContextFacts, AtSite
<1> QED  BY <1>1, FactForms DEF HeldIn

\* `recheck_context`
LEMMA RecheckContextFinds ==
  ASSUME MapsOK, NEW X \in SUBSET closure,
         NEW c \in DOMAIN contexts, contexts[c].tag # "Top",
         NEW f \in Index!ImpliedAt(X, c)
  PROVE  HeldIn(Index!RecheckContext(c), f)
<1> DEFINE outer == Index!MemoSite(contexts[c].memo)
<1>1. CASE Index!Realizable(outer) \in closure
  <2>1. Index!Realizable(Index!ContextSite(c)) \in Index!RecheckContext(c)
    BY <1>1 DEF Index!RecheckContext
  <2> QED  BY <2>1, AnySuits
<1>2. CASE Index!Realizable(outer) \notin closure
  <2>1. PICK d \in Index!DemandsIn(X, outer) : f \in Index!ImpliedDemand(X, c, d)
    BY <1>2, ContextFacts
  <2>2. d \in Index!Demands(outer) /\ f \in Index!PropagateDemand(c, d)
    BY <2>1, KnownIn, DemandFinds
  <2> QED  BY <1>2, <2>2 DEF HeldIn, Index!RecheckContext
<1> QED  BY <1>1, <1>2

----------------------------------------------------------------------------
(* What an event brings about is found when it is closed.                  *)

LEMMA AddedFact ==
  ASSUME NEW X, NEW event
  PROVE  LET Y == X \cup {event} IN
         /\ \A e : \A v \in Index!ValuesIn(Y, e) :
              \/ v \in Index!ValuesIn(X, e)
              \/ event.fact = "Produces" /\ event.expression = e /\ event.value = v
         /\ \A s : \A v \in Index!DemandsIn(Y, s) :
              \/ v \in Index!DemandsIn(X, s)
              \/ event.fact = "RealizableFor" /\ event.site = s /\ event.value = v
BY DEF Index!ValuesIn, Index!DemandsIn

\* Whom an event is told to.
LEMMA Consequent ==
  ASSUME NEW event
  PROVE  /\ \A e : event.fact = "Produces"
                     /\ <<event.expression, Index!ExpressionConsumer(e)>>
                          \in indexes.consumers_by_expression =>
              Index!PropagateValue(e, event.expression, event.value)
                \subseteq Index!Consequences(event)
         /\ \A c : event.fact = "Produces"
                     /\ <<event.expression, Index!ContextConsumer(c)>>
                          \in indexes.consumers_by_expression =>
              Index!PropagateContextValue(c, event.expression, event.value)
                \subseteq Index!Consequences(event)
         /\ \A m, c : event.fact = "RealizableFor" /\ event.site = Index!MemoSite(m)
                        /\ <<m, c>> \in indexes.contexts_by_outer_memo =>
              Index!PropagateDemand(c, event.value) \subseteq Index!Consequences(event)
         /\ \A m, c : event.fact = "Realizable" /\ event.site = Index!MemoSite(m)
                        /\ <<m, c>> \in indexes.contexts_by_outer_memo =>
              Index!Realizable(Index!ContextSite(c)) \in Index!Consequences(event)
         /\ \A m, c : event.fact = "RealizableFor" /\ event.site = Index!ContextSite(c)
                        /\ <<c, m>> \in indexes.memos_by_context =>
              Index!RealizableFor(Index!MemoSite(m), event.value)
                \in Index!Consequences(event)
         /\ \A m, c : event.fact = "Realizable" /\ event.site = Index!ContextSite(c)
                        /\ <<c, m>> \in indexes.memos_by_context =>
              Index!Realizable(Index!MemoSite(m)) \in Index!Consequences(event)
<1>0. \A index, key, x : <<key, x>> \in index => x \in Index!Under(index, key)
  BY DEF Index!Under
<1>1. CASE event.fact = "Produces"
  <2> DEFINE Drawn(x) ==
        IF x.consumer = "Expression"
          THEN Index!PropagateValue(x.id, event.expression, event.value)
          ELSE Index!PropagateContextValue(x.id, event.expression, event.value)
  <2>1. Index!Consequences(event) =
          UNION {Drawn(x) : x \in Index!Under(indexes.consumers_by_expression, event.expression)}
    BY <1>1 DEF Index!Consequences
  <2>2. /\ \A e : Drawn(Index!ExpressionConsumer(e))
                    = Index!PropagateValue(e, event.expression, event.value)
        /\ \A c : Drawn(Index!ContextConsumer(c))
                    = Index!PropagateContextValue(c, event.expression, event.value)
    BY DEF Index!ExpressionConsumer, Index!ContextConsumer
  <2> HIDE DEF Drawn
  <2> QED  BY <1>0, <1>1, <2>1, <2>2
<1>2. CASE event.fact = "RealizableFor"
  BY <1>0, <1>2, SiteForms DEF Index!Consequences
<1>3. CASE event.fact = "Realizable"
  BY <1>0, <1>3, SiteForms DEF Index!Consequences
<1> QED  BY <1>1, <1>2, <1>3

\* A value comes of a sequence when its last child gets one that fits.
LEMMA ClosesExpression ==
  ASSUME MapsOK, EGraphOK, NEW X \in SUBSET closure, NEW event \in closure,
         NEW e \in DOMAIN expressions, ExpressionIndexed(indexes, e),
         NEW v \in Index!ImpliedValues(X \cup {event}, e)
  PROVE  \/ v \in Index!ImpliedValues(X, e)
         \/ Index!Produces(e, v) \in Index!Consequences(event)
<1> DEFINE node == expressions[e].node
           k == Index!ExpressionAction(e).constructor
           children == Index!ExpressionChildren(e)
           Y == X \cup {event}
<1>0. /\ node.tag \in {"Tok", "Seq", "Alt"}
      /\ Index!IsLeaf(node) => node.tag # "Tok"
      /\ Y \in SUBSET closure
  BY DEF MapsOK, Index!IsLeaf
<1>1. CASE node.tag = "Tok" \/ Index!IsLeaf(node)
  BY <1>0, <1>1 DEF Index!ImpliedValues
<1>2. CASE ~Index!IsLeaf(node) /\ node.tag = "Seq" /\ k # None
  <2>1. PICK r \in Index!ExpressionRows(e) : Index!Fits(Y, r, children) /\ v = r.output
    BY <1>2, IndexNames DEF Index!ImpliedValues
  <2>2. CASE Index!Fits(X, r, children)
    BY <1>2, <2>1, <2>2, IndexNames DEF Index!ImpliedValues
  <2>3. CASE ~Index!Fits(X, r, children)
    <3>1. PICK a \in DOMAIN children :
            children[a] # None /\ r.children[a] \notin Index!ValuesIn(X, children[a])
      BY <2>3, IndexNames DEF Index!Fits
    <3>2. r.children[a] \in Index!ValuesIn(Y, children[a])
      BY <2>1, <3>1, IndexNames DEF Index!Fits
    <3>3. /\ event.fact = "Produces" /\ event.expression = children[a]
          /\ event.value = r.children[a]
      BY <3>1, <3>2, AddedFact
    <3>4. Index!Selected(e) = children
      BY <1>2 DEF Index!Selected
    <3>5. children[a] \in Range(Index!Selected(e))
      BY <3>1, <3>4 DEF Range
    <3>6. Index!PropagateValue(e, children[a], r.children[a]) \subseteq Index!Consequences(event)
      BY <3>3, <3>5, Consequent DEF ExpressionIndexed
    <3>7. Matches(r, children, {a})
      BY <1>0, <2>1, FittingMatches
    <3>8. Index!Produces(e, r.output) \in Index!PropagateValue(e, children[a], r.children[a])
      <4> DEFINE Rows(b) == Index!RowsMatching(
                   {x \in Index!ExpressionRows(e) :
                      Index!Equivalent(egraph, x.children[b], r.children[a])},
                   children, {b})
                 places == {b \in DOMAIN children : children[b] = children[a]}
      <4>1. r \in Rows(a)
        BY <2>1, <3>7, IndexNames, MatchingRows
      <4>2. Index!PropagateValue(e, children[a], r.children[a]) =
              {Index!Produces(e, x.output) : x \in UNION {Rows(b) : b \in places}}
        BY <1>2, IndexNames DEF Index!PropagateValue
      <4>3. a \in places
        BY <3>1
      <4> HIDE DEF Rows, places
      <4> QED  BY <4>1, <4>2, <4>3
    <3> QED  BY <2>1, <3>6, <3>8
  <2> QED  BY <2>2, <2>3
<1>3. CASE ~Index!IsLeaf(node) /\ node.tag # "Tok" /\ (node.tag = "Seq" => k = None)
  <2>1. PICK child \in Range(Index!Selected(e)) : v \in Index!ValuesIn(Y, child)
    BY <1>3, IndexNames DEF Index!ImpliedValues
  <2>2. CASE v \in Index!ValuesIn(X, child)
    BY <1>3, <2>1, <2>2, IndexNames DEF Index!ImpliedValues
  <2>3. CASE v \notin Index!ValuesIn(X, child)
    <3>1. event.fact = "Produces" /\ event.expression = child /\ event.value = v
      BY <2>1, <2>3, AddedFact
    <3>2. Index!PropagateValue(e, child, v) \subseteq Index!Consequences(event)
      BY <2>1, <3>1, Consequent DEF ExpressionIndexed
    <3>3. Index!Produces(e, v) \in Index!PropagateValue(e, child, v)
      BY <1>3, IndexNames DEF Index!PropagateValue
    <3> QED  BY <3>2, <3>3
  <2> QED  BY <2>2, <2>3
<1> QED  BY <1>0, <1>1, <1>2, <1>3

\* A projecting context has one child, or the hole.
LEMMA ProjectedChild ==
  ASSUME MapsOK, NEW c \in DOMAIN contexts, contexts[c].tag = "Seq",
         Index!ContextAction(c).constructor = None
  PROVE  Head(Index!ContextChildren(c)) \in Range(Index!ContextChildren(c))
<1> DEFINE children == Index!ContextChildren(c)
<1>1. DOMAIN children = {1} /\ children = [j \in DOMAIN children |-> children[j]]
  BY DEF MapsOK, Index!ContextChildren
<1> HIDE DEF children
<1>2. children \in [1 .. 1 -> {children[1]}] /\ 1 .. 1 = {1}
  BY <1>1
<1>3. \A S, s : s \in [1 .. 1 -> S] => s \in Seq(S) /\ s # <<>> /\ s[1] = Head(s)
  <2> TAKE S, s
  <2> HAVE s \in [1 .. 1 -> S]
  <2>1. s \in Seq(S) /\ DOMAIN s = 1 .. 1
    BY SeqDef
  <2> QED  BY <2>1, HeadTailProperties
<1>4. Head(children) = children[1]
  BY <1>2, <1>3
<1> QED  BY <1>1, <1>4 DEF Range, children

LEMMA ClosesDemand ==
  ASSUME MapsOK, EGraphOK, NEW X \in SUBSET closure, NEW event \in closure,
         NEW c \in DOMAIN contexts, contexts[c].tag # "Top", ContextIndexed(indexes, c),
         NEW d \in Index!DemandsIn(X, Index!MemoSite(contexts[c].memo)),
         NEW f \in Index!ImpliedDemand(X \cup {event}, c, d)
  PROVE  f \in Index!ImpliedDemand(X, c, d) \/ f \in Index!Consequences(event)
<1> DEFINE k == Index!ContextAction(c).constructor
           children == Index!ContextChildren(c)
           demands == Index!Demands(Index!MemoSite(contexts[c].memo))
           Y == X \cup {event}
<1>0. /\ contexts[c].tag \in {"Seq", "Alt"} /\ Y \in SUBSET closure
      /\ d \in demands
  BY KnownIn DEF MapsOK
<1>1. CASE contexts[c].tag = "Alt"
  BY <1>1 DEF Index!ImpliedDemand
<1>2. CASE contexts[c].tag = "Seq" /\ k # None
  <2>1. PICK r \in Index!Applications(egraph, k) :
          r.output = d /\ Index!Fits(Y, r, children) /\ f = Index!HoleFact(c, r)
    BY <1>2, IndexNames DEF Index!ImpliedDemand
  <2>2. CASE Index!Fits(X, r, children)
    BY <1>2, <2>1, <2>2, IndexNames DEF Index!ImpliedDemand
  <2>3. CASE ~Index!Fits(X, r, children)
    <3>1. PICK a \in DOMAIN children :
            children[a] # None /\ r.children[a] \notin Index!ValuesIn(X, children[a])
      BY <2>3, IndexNames DEF Index!Fits
    <3>2. r.children[a] \in Index!ValuesIn(Y, children[a])
      BY <2>1, <3>1, IndexNames DEF Index!Fits
    <3>3. /\ event.fact = "Produces" /\ event.expression = children[a]
          /\ event.value = r.children[a]
      BY <3>1, <3>2, AddedFact
    <3>4. children[a] \in Range(children) \ {None}
      BY <3>1 DEF Range
    <3>5. Index!PropagateContextValue(c, children[a], r.children[a])
            \subseteq Index!Consequences(event)
      BY <1>2, <3>3, <3>4, Consequent DEF ContextIndexed
    <3>6. Matches(r, children, {a})
      BY <1>0, <2>1, FittingMatches
    <3>7. Index!HoleFact(c, r) \in Index!PropagateContextValue(c, children[a], r.children[a])
      <4> DEFINE Rows(demand, b) == {x \in Index!DemandedRows(c, demand) :
                       Index!Equivalent(egraph, x.children[b], r.children[a])}
                 Told(demand, b) == {Index!HoleFact(c, x) :
                       x \in Index!RowsMatching(Rows(demand, b), children, {b})}
                 places == {b \in DOMAIN children : children[b] = children[a]}
      <4>1. r \in Rows(d, a)
        BY <2>1, IndexNames DEF Index!DemandedRows
      <4>2. r \in Index!RowsMatching(Rows(d, a), children, {a})
        BY <3>6, <4>1, MatchingRows
      <4>3. Index!HoleFact(c, r) \in Told(d, a)
        BY <4>2
      <4>4. Index!PropagateContextValue(c, children[a], r.children[a]) =
              UNION {Told(demand, b) : demand \in demands, b \in places}
        BY <1>2, IndexNames DEF Index!PropagateContextValue
      <4>5. a \in places
        BY <3>1
      <4> HIDE DEF Told, places, demands
      <4> QED  BY <1>0, <4>3, <4>4, <4>5
    <3> QED  BY <2>1, <3>5, <3>7
  <2> QED  BY <2>2, <2>3
<1>3. CASE contexts[c].tag = "Seq" /\ k = None
  <2>1. CASE Head(children) = None
    BY <1>3, <2>1, IndexNames DEF Index!ImpliedDemand
  <2>2. CASE Head(children) # None /\ d \in Index!ValuesIn(X, Head(children))
    BY <1>3, <2>2, IndexNames DEF Index!ImpliedDemand
  <2>3. CASE Head(children) # None /\ d \notin Index!ValuesIn(X, Head(children))
    <3>1. /\ f = Index!Realizable(Index!ContextSite(c))
          /\ d \in Index!ValuesIn(Y, Head(children))
      BY <1>3, <2>3, IndexNames DEF Index!ImpliedDemand
    <3>2. event.fact = "Produces" /\ event.expression = Head(children) /\ event.value = d
      BY <2>3, <3>1, AddedFact
    <3>3. Head(children) \in Range(children) \ {None}
      BY <1>3, <2>3, ProjectedChild
    <3>4. Index!PropagateContextValue(c, Head(children), d) \subseteq Index!Consequences(event)
      BY <1>3, <3>2, <3>3, Consequent DEF ContextIndexed
    <3>5. f \in Index!PropagateContextValue(c, Head(children), d)
      <4>1. \E demand \in demands : Index!Equivalent(egraph, demand, d)
        BY <1>0, IndexNames
      <4> QED  BY <1>3, <3>1, <4>1, IndexNames DEF Index!PropagateContextValue
    <3> QED  BY <3>4, <3>5
  <2> QED  BY <2>1, <2>2, <2>3
<1> QED  BY <1>0, <1>1, <1>2, <1>3

LEMMA ClosesContext ==
  ASSUME MapsOK, EGraphOK, NEW X \in SUBSET closure, NEW event \in closure,
         IsFact(event), NEW c \in DOMAIN contexts, ContextIndexed(indexes, c),
         NEW f \in Index!ImpliedAt(X \cup {event}, c)
  PROVE  f \in Index!ImpliedAt(X, c) \/ f \in Index!Consequences(event)
<1> DEFINE outer == Index!MemoSite(contexts[c].memo)
           Y == X \cup {event}
<1>1. CASE contexts[c].tag = "Top"
  BY <1>1 DEF Index!ImpliedAt
<1>2. CASE contexts[c].tag # "Top" /\ Index!Realizable(outer) \in Y
             /\ f = Index!Realizable(Index!ContextSite(c))
  <2>1. CASE Index!Realizable(outer) \in X
    BY <1>2, <2>1 DEF Index!ImpliedAt
  <2>2. CASE event = Index!Realizable(outer)
    <3>1. event.fact = "Realizable" /\ event.site = outer
      BY <2>2, FactForms
    <3> QED  BY <1>2, <3>1, Consequent DEF ContextIndexed
  <2> QED  BY <1>2, <2>1, <2>2
<1>3. ASSUME contexts[c].tag # "Top", NEW d \in Index!DemandsIn(Y, outer),
             f \in Index!ImpliedDemand(Y, c, d)
      PROVE  f \in Index!ImpliedAt(X, c) \/ f \in Index!Consequences(event)
  <2>1. CASE d \in Index!DemandsIn(X, outer)
    <3>1. f \in Index!ImpliedDemand(X, c, d) \/ f \in Index!Consequences(event)
      BY <1>3, <2>1, ClosesDemand
    <3> QED  BY <1>3, <2>1, <3>1 DEF Index!ImpliedAt
  <2>2. CASE d \notin Index!DemandsIn(X, outer)
    <3>1. event.fact = "RealizableFor" /\ event.site = outer /\ event.value = d
      BY <1>3, <2>2, AddedFact
    <3>2. Index!PropagateDemand(c, d) \subseteq Index!Consequences(event)
      BY <1>3, <3>1, Consequent DEF ContextIndexed
    <3>3. Y \in SUBSET closure
      OBVIOUS
    <3> QED  BY <1>3, <3>2, <3>3, DemandFinds
  <2> QED  BY <2>1, <2>2
<1>4. CASE contexts[c].tag # "Top"
  BY <1>2, <1>3, <1>4, ContextFacts
<1> QED  BY <1>1, <1>4

LEMMA ClosesParent ==
  ASSUME NEW X, NEW event, NEW m, NEW c, <<c, m>> \in indexes.memos_by_context
  PROVE  /\ \A v \in Index!DemandsIn(X \cup {event}, Index!ContextSite(c)) :
              \/ v \in Index!DemandsIn(X, Index!ContextSite(c))
              \/ Index!RealizableFor(Index!MemoSite(m), v) \in Index!Consequences(event)
         /\ Index!Realizable(Index!ContextSite(c)) \in X \cup {event} =>
              \/ Index!Realizable(Index!ContextSite(c)) \in X
              \/ Index!Realizable(Index!MemoSite(m)) \in Index!Consequences(event)
<1>1. ASSUME NEW v \in Index!DemandsIn(X \cup {event}, Index!ContextSite(c)),
             v \notin Index!DemandsIn(X, Index!ContextSite(c))
      PROVE  Index!RealizableFor(Index!MemoSite(m), v) \in Index!Consequences(event)
  <2>1. /\ event.fact = "RealizableFor" /\ event.site = Index!ContextSite(c)
        /\ event.value = v
    BY <1>1, AddedFact
  <2> QED  BY <2>1, Consequent
<1>2. ASSUME event = Index!Realizable(Index!ContextSite(c))
      PROVE  Index!Realizable(Index!MemoSite(m)) \in Index!Consequences(event)
  <2>1. event.fact = "Realizable" /\ event.site = Index!ContextSite(c)
    BY <1>2, FactForms
  <2> QED  BY <2>1, Consequent
<1> QED  BY <1>1, <1>2

----------------------------------------------------------------------------
(* Insertions and turns of the work list, as the settled facts see them.   *)

LEMMA StackedFacts ==
  ASSUME NEW C, NEW s \in Seq(C), NEW G
  PROVE  UNION Range(Index!Stacked(G, s)) = G \cup (UNION Range(s))
<1>1. CASE G = {}
  BY <1>1 DEF Index!Stacked
<1>2. CASE G # {}
  <2> DEFINE t == <<G>> \o s
  <2>1. t \in Seq({G} \cup C) /\ s \in Seq({G} \cup C)
    <3>1. \A D : C \subseteq D => s \in Seq(D)
      BY SeqDef
    <3>2. s \in Seq({G} \cup C)
      BY <3>1
    <3> QED  BY <3>2
  <2>2. /\ DOMAIN t = 1 .. 1 + Len(s) /\ DOMAIN s = 1 .. Len(s) /\ Len(s) \in Nat
        /\ \A i \in DOMAIN t : t[i] = IF i = 1 THEN G ELSE s[i - 1]
    BY <2>1
  <2> HIDE DEF t
  <2>3. \A i \in DOMAIN s : i + 1 \in DOMAIN t /\ t[i + 1] = s[i]
    BY <2>2
  <2>4. \A i \in DOMAIN t : i # 1 => i - 1 \in DOMAIN s
    BY <2>2
  <2>5. 1 \in DOMAIN t /\ t[1] = G
    BY <2>2
  <2>6. Range(t) = {G} \cup Range(s)
    BY <2>2, <2>3, <2>4, <2>5 DEF Range
  <2>7. Index!Stacked(G, s) = t
    BY <1>2 DEF Index!Stacked, t
  <2> QED  BY <2>6, <2>7
<1> QED  BY <1>1, <1>2

LEMMA HeadFacts ==
  ASSUME NEW C, NEW s \in Seq(C), s # <<>>
  PROVE  UNION Range(s) = Head(s) \cup (UNION Range(Tail(s)))
<1>1. /\ DOMAIN s = 1 .. Len(s) /\ Len(s) \in Nat /\ Len(s) > 0
      /\ Head(s) = s[1] /\ DOMAIN Tail(s) = 1 .. Len(s) - 1
      /\ \A i \in DOMAIN Tail(s) : Tail(s)[i] = s[i + 1]
  OBVIOUS
<1>2. \A i \in DOMAIN s : i # 1 => i - 1 \in DOMAIN Tail(s) /\ Tail(s)[i - 1] = s[i]
  BY <1>1
<1>3. 1 \in DOMAIN s /\ \A i \in DOMAIN Tail(s) : i + 1 \in DOMAIN s
  BY <1>1
<1>4. Range(s) = {Head(s)} \cup Range(Tail(s))
  BY <1>1, <1>2, <1>3 DEF Range
<1> QED  BY <1>4

\* What is inserted is pending.
LEMMA InsertSettles ==
  ASSUME AgendaOK, NEW F, Index!InsertAbove(F, agenda)
  PROVE  Settled' = Settled /\ closure' = closure \cup F
<1>1. closure' = closure \cup F /\ agenda' = Index!Stacked(F \ closure, agenda)
  BY DEF Index!InsertAbove
<1>2. agenda \in Seq(SUBSET closure)
  BY DEF AgendaOK, Stack
<1>3. UNION Range(agenda') = (F \ closure) \cup Pending
  BY <1>1, <1>2, StackedFacts DEF Pending
<1> QED  BY <1>1, <1>3 DEF Settled, Pending

\* The event that is closed is settled.
LEMMA CloseSettles ==
  ASSUME AgendaOK, agenda # <<>>, NEW event \in Head(agenda), NEW F,
         Index!InsertAbove(F, Index!Stacked(Head(agenda) \ {event}, Tail(agenda)))
  PROVE  /\ event \in closure
         /\ Settled' = Settled \cup {event} /\ closure' = closure \cup F
<1> DEFINE rest == Index!Stacked(Head(agenda) \ {event}, Tail(agenda))
<1>1. closure' = closure \cup F /\ agenda' = Index!Stacked(F \ closure, rest)
  BY DEF Index!InsertAbove
<1>2. /\ Stack(Tail(agenda), closure) /\ Head(agenda) \subseteq closure
      /\ \A i \in DOMAIN Tail(agenda) : Head(agenda) \cap Tail(agenda)[i] = {}
  BY StackTail DEF AgendaOK
<1>3. agenda \in Seq(SUBSET closure) /\ Tail(agenda) \in Seq(SUBSET closure)
  BY <1>2 DEF AgendaOK, Stack
<1>4. Stack(rest, closure)
  <2>1. Head(agenda) \ {event} \in SUBSET closure
        /\ \A i \in DOMAIN Tail(agenda) : (Head(agenda) \ {event}) \cap Tail(agenda)[i] = {}
    BY <1>2
  <2> QED  BY <1>2, <2>1, StackedOn
<1>5. rest \in Seq(SUBSET closure)
  BY <1>4 DEF Stack
<1>6. UNION Range(rest) = (Head(agenda) \ {event}) \cup (UNION Range(Tail(agenda)))
  BY <1>3, StackedFacts
<1>7. UNION Range(agenda') = (F \ closure) \cup (UNION Range(rest))
  BY <1>1, <1>5, StackedFacts
<1>8. UNION Range(agenda) = Head(agenda) \cup (UNION Range(Tail(agenda)))
  BY <1>3, HeadFacts
<1>9. event \notin UNION Range(Tail(agenda))
  BY <1>2 DEF Range
<1>10. event \in closure
  BY <1>2
<1> HIDE DEF rest
<1>11. PICK head, below : head = Head(agenda) /\ below = UNION Range(Tail(agenda))
  OBVIOUS
<1>12. /\ Pending = head \cup below
       /\ Pending' = (F \ closure) \cup (head \ {event}) \cup below
  BY <1>6, <1>7, <1>8, <1>11 DEF Pending
<1>13. /\ event \in head /\ event \notin below /\ closure' = closure \cup F
       /\ head \cup below \subseteq closure
  <2>1. UNION Range(Tail(agenda)) \subseteq closure
    BY <1>2, <1>3 DEF Range
  <2> QED  BY <1>1, <1>2, <1>9, <1>11, <2>1
<1>14. /\ Settled = closure \ (head \cup below)
       /\ Settled' = closure' \ ((F \ closure) \cup (head \ {event}) \cup below)
  BY <1>12 DEF Settled
<1> QED  BY <1>10, <1>13, <1>14

----------------------------------------------------------------------------
(* The operations of the index miss nothing.                               *)

\* Where the rules stay, so does what they miss.
LEMMA CompleteStays ==
  ASSUME Stays, NEW unread, NEW marks, NEW S, NEW K
  PROVE  Complete(unread, marks, S, K)' <=> Complete(unread, marks, S, K)
<1>1. \A e : ChangedExpression(marks, e)' <=> ChangedExpression(marks, e)
  BY SameReadings DEF Stays, ChangedExpression
<1>2. \A c : ChangedContext(marks, c)' <=> ChangedContext(marks, c)
  BY SameReadings DEF Stays, ChangedContext
<1>3. \A e : ExpressionComplete(S, K, e)' <=> ExpressionComplete(S, K, e)
  BY SameReadings DEF ExpressionComplete
<1>4. \A c : ContextComplete(S, K, c)' <=> ContextComplete(S, K, c)
  BY SameReadings DEF ContextComplete, HeldIn
<1>5. \A m, c : ParentComplete(S, K, m, c)' <=> ParentComplete(S, K, m, c)
  BY DEF ParentComplete, Index!DemandsIn
<1> QED  BY <1>1, <1>2, <1>3, <1>4, <1>5 DEF Stays, Complete

LEMMA FullStays ==
  ASSUME Stays, NEW unread, NEW known
  PROVE  Full(unread, known)' <=> Full(unread, known)
<1>1. \A e : ExpressionIndexed(known, e)' <=> ExpressionIndexed(known, e)
  <2>1. \A e : /\ Index!ExpressionAction(e)' = Index!ExpressionAction(e)
               /\ Index!Selected(e)' = Index!Selected(e)
    BY SameReadings
  <2> QED  BY <2>1 DEF Stays, ExpressionIndexed
<1>2. \A c : ContextIndexed(known, c)' <=> ContextIndexed(known, c)
  <2>1. \A c : /\ Index!ContextAction(c)' = Index!ContextAction(c)
               /\ Index!ContextChildren(c)' = Index!ContextChildren(c)
    BY SameReadings
  <2> QED  BY <2>1 DEF Stays, ContextIndexed
<1> QED  BY <1>1, <1>2 DEF Stays, Full

\* More is known.
LEMMA HeldMore ==
  ASSUME NEW K, NEW L, K \subseteq L, NEW f, HeldIn(K, f)
  PROVE  HeldIn(L, f)
BY DEF HeldIn

\* One turn of `close`.
LEMMA CloseCompletes ==
  ASSUME MapsOK, EGraphOK, IndexOK, IndexFull, FactsComplete, Close
  PROVE  IndexFull' /\ FactsComplete'
<1>1. /\ Stays /\ agenda # <<>>
      /\ Unread' = Unread /\ delta' = delta /\ indexes' = indexes
  BY DEF Close, Stays, parser, backend, Index!Close, Index!CloseEvent, Unread
<1>2. PICK event \in Head(agenda) :
        Index!InsertAbove(Index!Consequences(event),
                          Index!Stacked(Head(agenda) \ {event}, Tail(agenda)))
  BY DEF Close, Index!Close, Index!CloseEvent
<1> DEFINE S == Settled
           more == Index!Consequences(event)
<1>3. /\ event \in closure /\ IsFact(event)
      /\ Settled' = S \cup {event} /\ closure' = closure \cup more
      /\ S \in SUBSET closure
  BY <1>1, <1>2, CloseSettles DEF IndexOK, Shaped, Settled
<1>4. PICK T, L, U : T = S \cup {event} /\ L = closure \cup more /\ U = Unread
  OBVIOUS
<1>5. Complete(U, delta, T, L)
  <2>1. ASSUME NEW e \in DOMAIN expressions, NewExpression(e) \notin U,
               ~ChangedExpression(delta, e), NEW v \in Index!ImpliedValues(T, e)
        PROVE  Index!Produces(e, v) \in L
    <3>1. ExpressionIndexed(indexes, e) /\ ExpressionComplete(S, closure, e)
      BY <1>4, <2>1 DEF IndexFull, Full, FactsComplete, Complete
    <3>2. v \in Index!ImpliedValues(S, e) \/ Index!Produces(e, v) \in more
      BY <1>3, <1>4, <2>1, <3>1, ClosesExpression
    <3> QED  BY <1>4, <3>1, <3>2 DEF ExpressionComplete
  <2>2. ASSUME NEW c \in DOMAIN contexts, NewContext(c) \notin U,
               ~ChangedContext(delta, c), NEW f \in Index!ImpliedAt(T, c)
        PROVE  HeldIn(L, f)
    <3>1. ContextIndexed(indexes, c) /\ ContextComplete(S, closure, c)
      BY <1>4, <2>2 DEF IndexFull, Full, FactsComplete, Complete
    <3>2. f \in Index!ImpliedAt(S, c) \/ f \in more
      BY <1>3, <1>4, <2>2, <3>1, ClosesContext
    <3>3. HeldIn(closure, f) \/ f \in more
      BY <3>1, <3>2 DEF ContextComplete
    <3> QED  BY <1>4, <3>3 DEF HeldIn
  <2>3. ASSUME NEW m \in DOMAIN memos, NEW c \in Range(memos[m].parents),
               ParentAppended(m, c) \notin U
        PROVE  ParentComplete(T, L, m, c)
    <3>1. <<c, m>> \in indexes.memos_by_context /\ ParentComplete(S, closure, m, c)
      BY <1>4, <2>3 DEF IndexFull, Full, FactsComplete, Complete
    <3>2. /\ \A v \in Index!DemandsIn(S \cup {event}, Index!ContextSite(c)) :
               \/ v \in Index!DemandsIn(S, Index!ContextSite(c))
               \/ Index!RealizableFor(Index!MemoSite(m), v) \in more
          /\ Index!Realizable(Index!ContextSite(c)) \in S \cup {event} =>
               \/ Index!Realizable(Index!ContextSite(c)) \in S
               \/ Index!Realizable(Index!MemoSite(m)) \in more
      BY <3>1, ClosesParent
    <3> HIDE DEF S, more
    <3> QED  BY <1>4, <3>1, <3>2 DEF ParentComplete
  <2> QED  BY <2>1, <2>2, <2>3 DEF Complete, ExpressionComplete, ContextComplete
<1>6. Complete(U, delta, T, L)'
  <2>1. \A marks : Complete(U, marks, T, L)' <=> Complete(U, marks, T, L)
    BY <1>1, CompleteStays
  <2> QED  BY <1>1, <1>5, <2>1
<1>7. FactsComplete'
  BY <1>1, <1>3, <1>4, <1>6 DEF FactsComplete
<1>8. IndexFull'
  <2>1. PICK known : known = indexes
    OBVIOUS
  <2>2. Full(U, known)'
    BY <1>1, <1>4, <2>1, FullStays DEF IndexFull
  <2> QED  BY <1>1, <1>4, <2>1, <2>2 DEF IndexFull
<1> QED  BY <1>7, <1>8

\* What a delta names is told to whom it bears on.
LEMMA ChangesTell ==
  /\ \A e : ExpressionIndexed(indexes, e) /\ ChangedExpression(delta, e) =>
       Index!RecheckExpression(e) \subseteq UNION {Index!ChangeFacts(x) : x \in delta}
  /\ \A c : ContextIndexed(indexes, c) /\ ChangedContext(delta, c) =>
       IF contexts[c].tag = "Top"
         THEN Index!RealizableFor(Index!ContextSite(c), egraph.target)
                \in UNION {Index!ChangeFacts(x) : x \in delta}
         ELSE Index!RecheckContext(c) \subseteq UNION {Index!ChangeFacts(x) : x \in delta}
<1>0. \A index, key, x : <<key, x>> \in index => x \in Index!Under(index, key)
  BY DEF Index!Under
<1>1. ASSUME NEW t, NEW e, <<t, e>> \in indexes.expressions_by_terminal
      PROVE  Index!RecheckExpression(e)
               \subseteq Index!ChangeFacts([change |-> "Terminal", terminal |-> t])
  BY <1>0, <1>1 DEF Index!ChangeFacts
<1>2. ASSUME NEW k, NEW e, <<k, Index!ExpressionConsumer(e)>> \in indexes.consumers_by_constructor
      PROVE  Index!RecheckExpression(e) \subseteq Index!ChangeFacts(Index!ConstructorMark(k))
  <2>1. Index!RecheckConsumer(Index!ExpressionConsumer(e)) = Index!RecheckExpression(e)
    BY DEF Index!RecheckConsumer, Index!ExpressionConsumer
  <2>2. Index!ConstructorMark(k).change = "Constructor"
        /\ Index!ConstructorMark(k).constructor = k
    BY DEF Index!ConstructorMark
  <2> QED  BY <1>0, <1>2, <2>1, <2>2 DEF Index!ChangeFacts
<1>3. ASSUME NEW k, NEW c, <<k, Index!ContextConsumer(c)>> \in indexes.consumers_by_constructor
      PROVE  Index!RecheckContext(c) \subseteq Index!ChangeFacts(Index!ConstructorMark(k))
  <2>1. Index!RecheckConsumer(Index!ContextConsumer(c)) = Index!RecheckContext(c)
    BY DEF Index!RecheckConsumer, Index!ContextConsumer
  <2>2. Index!ConstructorMark(k).change = "Constructor"
        /\ Index!ConstructorMark(k).constructor = k
    BY DEF Index!ConstructorMark
  <2> QED  BY <1>0, <1>3, <2>1, <2>2 DEF Index!ChangeFacts
<1>4. ASSUME NEW c \in indexes.top_contexts
      PROVE  Index!RealizableFor(Index!ContextSite(c), egraph.target)
               \in Index!ChangeFacts(Index!TargetMark)
  BY DEF Index!ChangeFacts, Index!Targets, Index!TargetMark
<1>5. ASSUME NEW e, ExpressionIndexed(indexes, e), ChangedExpression(delta, e)
      PROVE  \E x \in delta : Index!RecheckExpression(e) \subseteq Index!ChangeFacts(x)
  BY <1>1, <1>2, <1>5 DEF ExpressionIndexed, ChangedExpression
<1>6. ASSUME NEW c, ContextIndexed(indexes, c), ChangedContext(delta, c)
      PROVE  \E x \in delta :
               IF contexts[c].tag = "Top"
                 THEN Index!RealizableFor(Index!ContextSite(c), egraph.target)
                        \in Index!ChangeFacts(x)
                 ELSE Index!RecheckContext(c) \subseteq Index!ChangeFacts(x)
  BY <1>3, <1>4, <1>6 DEF ContextIndexed, ChangedContext
<1> QED  BY <1>5, <1>6

\* What the rules say of the target is what the index is told of it.
LEMMA TargetStands ==
  ASSUME EGraphOK, TargetOK
  PROVE  Index!Canonical(egraph, egraph.target) = egraph.target
BY IndexNames DEF EGraphOK, EGraphWellTyped, Coherent, TargetOK, Canonical

\* Nothing more is missed of a context that is checked again.
LEMMA RecheckCompletes ==
  ASSUME MapsOK, EGraphOK, TargetOK, NEW X \in SUBSET closure, NEW c \in DOMAIN contexts, NEW K,
         IF contexts[c].tag = "Top"
           THEN Index!RealizableFor(Index!ContextSite(c), egraph.target) \in K
           ELSE Index!RecheckContext(c) \subseteq K
  PROVE  ContextComplete(X, K, c)
<1>1. ASSUME NEW f \in Index!ImpliedAt(X, c)
      PROVE  HeldIn(K, f)
  <2>1. CASE contexts[c].tag = "Top"
    BY <1>1, <2>1, TargetStands DEF Index!ImpliedAt, HeldIn
  <2>2. CASE contexts[c].tag # "Top"
    <3>1. HeldIn(Index!RecheckContext(c), f)
      BY <1>1, <2>2, RecheckContextFinds
    <3> QED  BY <2>2, <3>1, HeldMore
  <2> QED  BY <2>1, <2>2
<1> QED  BY <1>1 DEF ContextComplete

LEMMA CompleteMore ==
  ASSUME NEW X, NEW K, NEW L, K \subseteq L
  PROVE  /\ \A e : ExpressionComplete(X, K, e) => ExpressionComplete(X, L, e)
         /\ \A c : ContextComplete(X, K, c) => ContextComplete(X, L, c)
         /\ \A m, c : ParentComplete(X, K, m, c) => ParentComplete(X, L, m, c)
BY HeldMore DEF ExpressionComplete, ContextComplete, ParentComplete

\* `update_egraph`
LEMMA ReportCompletes ==
  ASSUME MapsOK, EGraphOK, TargetOK, IndexOK, IndexFull, FactsComplete, Report
  PROVE  IndexFull' /\ FactsComplete'
<1> DEFINE new == UNION {Index!ChangeFacts(x) : x \in delta}
           S == Settled
<1>1. /\ Stays /\ Unread' = Unread /\ delta' = {} /\ indexes' = indexes
      /\ Index!InsertAbove(new, agenda)
  BY DEF Report, Stays, parser, Index!UpdateEGraph, Index!Insert, Unread
<1>2. Settled' = S /\ closure' = closure \cup new /\ S \in SUBSET closure
  BY <1>1, InsertSettles DEF IndexOK, Settled
<1>3. PICK T, L, U : T = S /\ L = closure \cup new /\ U = Unread
  OBVIOUS
<1>4. Complete(U, {}, T, L)
  <2>1. ASSUME NEW e \in DOMAIN expressions, NewExpression(e) \notin U
        PROVE  ExpressionComplete(T, L, e)
    <3>1. ExpressionIndexed(indexes, e)
          /\ (ChangedExpression(delta, e) \/ ExpressionComplete(S, closure, e))
      BY <1>3, <2>1 DEF IndexFull, Full, FactsComplete, Complete
    <3>2. CASE ChangedExpression(delta, e)
      <4>1. Index!RecheckExpression(e) \subseteq new
        BY <3>1, <3>2, ChangesTell
      <4> HIDE DEF new
      <4>2. \A v \in Index!ImpliedValues(S, e) : Index!Produces(e, v) \in new
        BY <1>2, <4>1, RecheckFinds
      <4> QED  BY <1>3, <4>2 DEF ExpressionComplete
    <3>3. CASE ExpressionComplete(S, closure, e)
      BY <1>3, <3>3, CompleteMore
    <3> QED  BY <3>1, <3>2, <3>3
  <2>2. ASSUME NEW c \in DOMAIN contexts, NewContext(c) \notin U
        PROVE  ContextComplete(T, L, c)
    <3>1. ContextIndexed(indexes, c)
          /\ (ChangedContext(delta, c) \/ ContextComplete(S, closure, c))
      BY <1>3, <2>2 DEF IndexFull, Full, FactsComplete, Complete
    <3>2. CASE ChangedContext(delta, c)
      <4>1. IF contexts[c].tag = "Top"
              THEN Index!RealizableFor(Index!ContextSite(c), egraph.target) \in new
              ELSE Index!RecheckContext(c) \subseteq new
        BY <3>1, <3>2, ChangesTell
      <4> HIDE DEF new
      <4>2. IF contexts[c].tag = "Top"
              THEN Index!RealizableFor(Index!ContextSite(c), egraph.target) \in L
              ELSE Index!RecheckContext(c) \subseteq L
        BY <1>3, <4>1
      <4> QED  BY <1>2, <1>3, <4>2, RecheckCompletes
    <3>3. CASE ContextComplete(S, closure, c)
      BY <1>3, <3>3, CompleteMore
    <3> QED  BY <3>1, <3>2, <3>3
  <2>3. ASSUME NEW m \in DOMAIN memos, NEW c \in Range(memos[m].parents),
               ParentAppended(m, c) \notin U
        PROVE  ParentComplete(T, L, m, c)
    <3>1. ParentComplete(S, closure, m, c)
      BY <1>3, <2>3 DEF FactsComplete, Complete
    <3> QED  BY <1>3, <3>1, CompleteMore
  <2> QED  BY <2>1, <2>2, <2>3 DEF Complete
<1>5. Complete(U, {}, T, L)'
  BY <1>1, <1>4, CompleteStays
<1>6. FactsComplete'
  BY <1>1, <1>2, <1>3, <1>5 DEF FactsComplete
<1>7. IndexFull'
  <2>1. PICK known : known = indexes
    OBVIOUS
  <2>2. Full(U, known)'
    BY <1>1, <1>3, <2>1, FullStays DEF IndexFull
  <2> QED  BY <1>1, <1>3, <2>1, <2>2 DEF IndexFull
<1> QED  BY <1>6, <1>7

\* What a log names is noted and checked.
LEMMA LogTells ==
  /\ \A e : NewExpression(e) \in log =>
       /\ e \in Index!NewExpressions(log)
       /\ Index!RecheckExpression(e) \subseteq Index!FirstFacts(log)
  /\ \A c : NewContext(c) \in log =>
       /\ c \in Index!NewContexts(log)
       /\ Index!RecheckContext(c) \subseteq Index!FirstFacts(log)
       /\ contexts[c].tag = "Top" =>
            Index!RealizableFor(Index!ContextSite(c), egraph.target)
              \in Index!FirstFacts(log)
  /\ \A m, c : ParentAppended(m, c) \in log =>
       /\ <<c, m>> \in {<<x.context, x.memo>> : x \in Index!Named(log, "MemoParentAppended")}
       /\ Index!Passed(Index!ContextSite(c), Index!MemoSite(m)) \subseteq Index!FirstFacts(log)
<1>1. \A e : NewExpression(e) \in log => e \in Index!NewExpressions(log)
  BY DEF NewExpression, Index!NewExpressions, Index!Named
<1>2. \A c : NewContext(c) \in log => c \in Index!NewContexts(log)
  BY DEF NewContext, Index!NewContexts, Index!Named
<1>3. \A m, c : ParentAppended(m, c) \in log =>
        /\ ParentAppended(m, c) \in Index!Named(log, "MemoParentAppended")
        /\ ParentAppended(m, c).context = c /\ ParentAppended(m, c).memo = m
  BY DEF ParentAppended, Index!Named
<1>4. \A e \in Index!NewExpressions(log) : Index!RecheckExpression(e) \subseteq Index!FirstFacts(log)
  BY DEF Index!FirstFacts
<1>5. \A c \in Index!NewContexts(log) : Index!RecheckContext(c) \subseteq Index!FirstFacts(log)
  BY DEF Index!FirstFacts
<1>6. \A c \in Index!NewContexts(log) : contexts[c].tag = "Top" =>
        Index!RealizableFor(Index!ContextSite(c), egraph.target) \in Index!FirstFacts(log)
  BY DEF Index!FirstFacts, Index!Targets
<1>7. \A x \in Index!Named(log, "MemoParentAppended") :
        Index!Passed(Index!ContextSite(x.context), Index!MemoSite(x.memo))
          \subseteq Index!FirstFacts(log)
  BY DEF Index!FirstFacts
<1> QED  BY <1>1, <1>2, <1>3, <1>4, <1>5, <1>6, <1>7

LEMMA IndexedMore ==
  /\ \A e : NewExpression(e) \in log \/ ExpressionIndexed(indexes, e) =>
       ExpressionIndexed(Index!Indexed(log), e)
  /\ \A c : NewContext(c) \in log \/ ContextIndexed(indexes, c) =>
       ContextIndexed(Index!Indexed(log), c)
  /\ \A m, c : ParentAppended(m, c) \in log \/ <<c, m>> \in indexes.memos_by_context =>
       <<c, m>> \in Index!Indexed(log).memos_by_context
<1> DEFINE known == Index!Indexed(log)
<1>1. /\ indexes.consumers_by_expression \subseteq known.consumers_by_expression
      /\ indexes.consumers_by_constructor \subseteq known.consumers_by_constructor
      /\ indexes.expressions_by_terminal \subseteq known.expressions_by_terminal
      /\ indexes.memos_by_context \subseteq known.memos_by_context
      /\ indexes.contexts_by_outer_memo \subseteq known.contexts_by_outer_memo
      /\ indexes.top_contexts \subseteq known.top_contexts
  BY DEF Index!Indexed
<1>2. ASSUME NEW e \in Index!NewExpressions(log)
      PROVE  ExpressionIndexed(known, e)
  <2>1. expressions[e].node.tag = "Tok" =>
          <<expressions[e].node.terminal, e>> \in known.expressions_by_terminal
    BY DEF Index!Indexed
  <2>2. expressions[e].node.tag = "Seq" /\ Index!ExpressionAction(e).constructor # None =>
          <<Index!ExpressionAction(e).constructor, Index!ExpressionConsumer(e)>>
            \in known.consumers_by_constructor
    BY IndexNames DEF Index!Indexed, Index!Constructing, Index!SeqExpressions
  <2>3. \A child \in Range(Index!Selected(e)) :
          <<child, Index!ExpressionConsumer(e)>> \in known.consumers_by_expression
    BY IndexNames DEF Index!Indexed
  <2> HIDE DEF known
  <2> QED  BY <2>1, <2>2, <2>3 DEF ExpressionIndexed
<1>3. ASSUME NEW c \in Index!NewContexts(log)
      PROVE  ContextIndexed(known, c)
  <2>1. /\ contexts[c].tag = "Top" => c \in known.top_contexts
        /\ contexts[c].tag # "Top" =>
             <<contexts[c].memo, c>> \in known.contexts_by_outer_memo
    BY DEF Index!Indexed
  <2>2. contexts[c].tag = "Seq" /\ Index!ContextAction(c).constructor # None =>
          <<Index!ContextAction(c).constructor, Index!ContextConsumer(c)>>
            \in known.consumers_by_constructor
    BY IndexNames DEF Index!Indexed, Index!Constructing, Index!SeqContexts
  <2>3. contexts[c].tag = "Seq" =>
          \A child \in Range(Index!ContextChildren(c)) \ {None} :
            <<child, Index!ContextConsumer(c)>> \in known.consumers_by_expression
    BY IndexNames DEF Index!Indexed, Index!SeqContexts
  <2> HIDE DEF known
  <2> QED  BY <2>1, <2>2, <2>3 DEF ContextIndexed
<1>4. \A m, c : ParentAppended(m, c) \in log => <<c, m>> \in known.memos_by_context
  BY LogTells DEF Index!Indexed
<1> HIDE DEF known
<1>5. /\ \A e : ExpressionIndexed(indexes, e) => ExpressionIndexed(known, e)
      /\ \A c : ContextIndexed(indexes, c) => ContextIndexed(known, c)
  BY <1>1 DEF ExpressionIndexed, ContextIndexed
<1> QED  BY <1>1, <1>2, <1>3, <1>4, <1>5, LogTells DEF known

\* `update_pwz`
LEMMA TellCompletes ==
  ASSUME MapsOK, EGraphOK, TargetOK, IndexOK, LogRead, IndexFull, FactsComplete, Tell
  PROVE  IndexFull' /\ FactsComplete'
<1> DEFINE new == Index!FirstFacts(log)
           S == Settled
<1>1. /\ Stays /\ delta' = delta /\ indexes' = Index!Indexed(log)
      /\ Index!InsertAbove(new, agenda)
      /\ log' = {} /\ changes' = changes /\ changes = <<>>
  BY DEF Tell, Stays, parser, backend, Index!UpdatePwz, Index!Insert, LogRead
<1>2. Unread = log /\ Unread' = {}
  BY <1>1 DEF Unread, Range
<1>3. Settled' = S /\ closure' = closure \cup new /\ S \in SUBSET closure
  BY <1>1, InsertSettles DEF IndexOK, Settled
<1>4. PICK T, L, known : T = S /\ L = closure \cup new /\ known = Index!Indexed(log)
  OBVIOUS
<1>5. Complete({}, delta, T, L)
  <2>1. ASSUME NEW e \in DOMAIN expressions, ~ChangedExpression(delta, e)
        PROVE  ExpressionComplete(T, L, e)
    <3>1. CASE NewExpression(e) \in log
      <4>1. Index!RecheckExpression(e) \subseteq new
        BY <3>1, LogTells
      <4> HIDE DEF new
      <4>2. \A v \in Index!ImpliedValues(S, e) : Index!Produces(e, v) \in new
        BY <1>3, <4>1, RecheckFinds
      <4> QED  BY <1>4, <4>2 DEF ExpressionComplete
    <3>2. CASE NewExpression(e) \notin log
      <4>1. ExpressionComplete(S, closure, e)
        BY <1>2, <2>1, <3>2 DEF FactsComplete, Complete
      <4> QED  BY <1>4, <4>1, CompleteMore
    <3> QED  BY <3>1, <3>2
  <2>2. ASSUME NEW c \in DOMAIN contexts, ~ChangedContext(delta, c)
        PROVE  ContextComplete(T, L, c)
    <3>1. CASE NewContext(c) \in log
      <4>1. /\ Index!RecheckContext(c) \subseteq new
            /\ contexts[c].tag = "Top" =>
                 Index!RealizableFor(Index!ContextSite(c), egraph.target) \in new
        BY <3>1, LogTells
      <4> HIDE DEF new
      <4> QED  BY <1>3, <1>4, <4>1, RecheckCompletes
    <3>2. CASE NewContext(c) \notin log
      <4>1. ContextComplete(S, closure, c)
        BY <1>2, <2>2, <3>2 DEF FactsComplete, Complete
      <4> QED  BY <1>4, <4>1, CompleteMore
    <3> QED  BY <3>1, <3>2
  <2>3. ASSUME NEW m \in DOMAIN memos, NEW c \in Range(memos[m].parents)
        PROVE  ParentComplete(T, L, m, c)
    <3>1. CASE ParentAppended(m, c) \in log
      <4>1. Index!Passed(Index!ContextSite(c), Index!MemoSite(m)) \subseteq new
        BY <3>1, LogTells
      <4> HIDE DEF new
      <4>2. \A v \in Index!DemandsIn(S, Index!ContextSite(c)) :
              Index!RealizableFor(Index!MemoSite(m), v) \in new
        BY <1>3, <4>1, KnownIn DEF Index!Passed
      <4>3. Index!Realizable(Index!ContextSite(c)) \in S =>
              Index!Realizable(Index!MemoSite(m)) \in new
        BY <1>3, <4>1 DEF Index!Passed
      <4> HIDE DEF S
      <4> QED  BY <1>4, <4>2, <4>3 DEF ParentComplete
    <3>2. CASE ParentAppended(m, c) \notin log
      <4>1. ParentComplete(S, closure, m, c)
        BY <1>2, <2>3, <3>2 DEF FactsComplete, Complete
      <4> QED  BY <1>4, <4>1, CompleteMore
    <3> QED  BY <3>1, <3>2
  <2> QED  BY <2>1, <2>2, <2>3 DEF Complete
<1>6. Complete({}, delta, T, L)'
  <2>1. \A marks : Complete({}, marks, T, L)' <=> Complete({}, marks, T, L)
    BY <1>1, CompleteStays
  <2> QED  BY <1>1, <1>5, <2>1
<1>7. FactsComplete'
  BY <1>1, <1>2, <1>3, <1>4, <1>6 DEF FactsComplete
<1>8. Full({}, known)
  BY <1>2, <1>4, IndexedMore DEF IndexFull, Full
<1>9. Full({}, known)'
  BY <1>1, <1>8, FullStays
<1>10. IndexFull'
  BY <1>1, <1>2, <1>4, <1>9 DEF IndexFull
<1> QED  BY <1>7, <1>10

----------------------------------------------------------------------------
(* The steps of the parser miss nothing that they do not log.              *)

\* What is said of an expression is said of its node, and of a context of what it is.
LEMMA SameNode ==
  ASSUME grammar' = grammar, egraph' = egraph,
         NEW e, expressions'[e].node = expressions[e].node,
         NEW X, NEW K, NEW marks, NEW known
  PROVE  /\ ChangedExpression(marks, e)' <=> ChangedExpression(marks, e)
         /\ ExpressionComplete(X, K, e)' <=> ExpressionComplete(X, K, e)
         /\ ExpressionIndexed(known, e)' <=> ExpressionIndexed(known, e)
<1>1. schema' = schema
  BY DEF schema
<1>2. Index!ExpressionAction(e)' = Index!ExpressionAction(e)
  BY <1>1 DEF Index!ExpressionAction, Index!Action
<1>3. /\ Index!ExpressionChildren(e)' = Index!ExpressionChildren(e)
      /\ Index!ExpressionRows(e)' = Index!ExpressionRows(e)
      /\ \A t : Index!TerminalValues(t)' = Index!TerminalValues(t)
  BY <1>1, <1>2 DEF Index!ExpressionChildren, Index!ExpressionRows, Index!TerminalValues
<1>4. Index!Selected(e)' = Index!Selected(e)
  BY <1>3 DEF Index!Selected
<1>5. Index!ImpliedValues(X, e)' = Index!ImpliedValues(X, e)
  BY <1>2, <1>3, <1>4 DEF Index!ImpliedValues
<1> QED  BY <1>2, <1>4, <1>5 DEF ChangedExpression, ExpressionComplete, ExpressionIndexed

LEMMA SameContext ==
  ASSUME grammar' = grammar, egraph' = egraph,
         NEW c, contexts'[c] = contexts[c],
         NEW X, NEW K, NEW marks, NEW known
  PROVE  /\ ChangedContext(marks, c)' <=> ChangedContext(marks, c)
         /\ ContextComplete(X, K, c)' <=> ContextComplete(X, K, c)
         /\ ContextIndexed(known, c)' <=> ContextIndexed(known, c)
<1>1. schema' = schema
  BY DEF schema
<1>2. Index!ContextAction(c)' = Index!ContextAction(c)
  BY <1>1 DEF Index!ContextAction, Index!Action
<1>3. \A p : Index!ContextChild(c, p)' = Index!ContextChild(c, p)
  BY DEF Index!ContextChild
<1>4. Index!ContextChildren(c)' = Index!ContextChildren(c)
  BY <1>2, <1>3 DEF Index!ContextChildren
<1>5. \A r : Index!HoleFact(c, r)' = Index!HoleFact(c, r)
  BY <1>4 DEF Index!HoleFact
<1>6. \A v : Index!ImpliedDemand(X, c, v)' = Index!ImpliedDemand(X, c, v)
  BY <1>2, <1>4, <1>5 DEF Index!ImpliedDemand
<1>7. Index!ImpliedAt(X, c)' = Index!ImpliedAt(X, c)
  BY <1>6 DEF Index!ImpliedAt
<1> QED  BY <1>2, <1>4, <1>7 DEF ChangedContext, ContextComplete, ContextIndexed, HeldIn

LEMMA GrowthNames ==
  /\ \A f : ParserProofs!Range(f) = Range(f)
  /\ \A e : ParserProofs!NewExpression(e) = NewExpression(e)
  /\ \A c : ParserProofs!NewContext(c) = NewContext(c)
  /\ \A m, c : ParserProofs!ParentAppended(m, c) = ParentAppended(m, c)
BY DEF ParserProofs!Range, Range, ParserProofs!NewExpression, NewExpression,
       ParserProofs!NewContext, NewContext, ParserProofs!ParentAppended, ParentAppended

\* One operation of a derivative.
LEMMA ParseCompletes ==
  ASSUME ParserOK, LogRead, IndexFull, FactsComplete, Parse
  PROVE  LogRead' /\ IndexFull' /\ FactsComplete'
<1>1. /\ Parser!Step
      /\ UNCHANGED <<egraph, delta, log, indexes, closure, agenda>>
  BY DEF Parse, backend, link
<1>2. ParserProofs!Step /\ ParserProofs!GrowthLogged
  <2>1. ParserProofs!Step
    BY <1>1, ParserNext
  <2> QED  BY <2>1, WiringBounds, TokensAssumption, ParserProofs!StepLogged DEF ParserOK
<1>3. grammar' = grammar /\ ~Parser!Idle /\ ~Parser!Idle'
  <2>1. ParserOK' /\ ParserProofs!GraphGrows
    BY <1>1, ParserKeeps
  <2>2. grammar' = grammar
    BY <2>1 DEF ParserProofs!GraphGrows
  <2>3. /\ operations # <<>> /\ token' = token
    BY <1>1 DEF Parser!Step, Parser!DownShared, Parser!DownEntered, Parser!FreshTok,
           Parser!FreshEmptySeq, Parser!FreshSeq, Parser!FreshAlt, Parser!Up,
           Parser!UpTop, Parser!UpLast, Parser!UpNext, Parser!UpPacked, Parser!UpFirst,
           Parser!Rising, Parser!Popped, Parser!frame
  <2>4. ~Parser!Idle
    <3>1. ~ParserProofs!Idle
      BY <2>3 DEF ParserOK, ParserProofs!Reported, ParserProofs!Inductive,
                  ParserProofs!Stamped
    <3> QED  BY <3>1, ParserOperators
  <2> QED  BY <2>2, <2>3, <2>4 DEF Parser!Idle
<1>4. Unread = Range(changes) /\ log = {}
  BY <1>3 DEF LogRead, Unread
<1>5. LogRead'
  BY <1>1, <1>3, <1>4 DEF LogRead
<1>6. PICK U, D, T, L, known :
        U = Range(changes') /\ D = delta /\ T = Settled /\ L = closure /\ known = indexes
  OBVIOUS
<1>7. Unread' = U /\ delta' = D /\ Settled' = T /\ closure' = L /\ indexes' = known
  BY <1>1, <1>4, <1>6 DEF Unread, Settled, Pending
<1>8. ASSUME NEW e \in DOMAIN expressions', NewExpression(e) \notin U
      PROVE  /\ ExpressionIndexed(known, e)'
             /\ ChangedExpression(D, e)' \/ ExpressionComplete(T, L, e)'
  <2>1. /\ e \in DOMAIN expressions /\ NewExpression(e) \notin Unread
        /\ expressions'[e].node = expressions[e].node
    BY <1>2, <1>4, <1>6, <1>8, GrowthNames DEF ParserProofs!GrowthLogged
  <2>2. /\ ExpressionIndexed(known, e)
        /\ ChangedExpression(D, e) \/ ExpressionComplete(T, L, e)
    BY <1>6, <2>1 DEF IndexFull, Full, FactsComplete, Complete
  <2> QED  BY <1>1, <1>3, <2>1, <2>2, SameNode
<1>9. ASSUME NEW c \in DOMAIN contexts', NewContext(c) \notin U
      PROVE  /\ ContextIndexed(known, c)'
             /\ ChangedContext(D, c)' \/ ContextComplete(T, L, c)'
  <2>1. /\ c \in DOMAIN contexts /\ NewContext(c) \notin Unread
        /\ contexts'[c] = contexts[c]
    BY <1>2, <1>4, <1>6, <1>9, GrowthNames DEF ParserProofs!GrowthLogged
  <2>2. /\ ContextIndexed(known, c)
        /\ ChangedContext(D, c) \/ ContextComplete(T, L, c)
    BY <1>6, <2>1 DEF IndexFull, Full, FactsComplete, Complete
  <2> QED  BY <1>1, <1>3, <2>1, <2>2, SameContext
<1>10. ASSUME NEW m \in DOMAIN memos', NEW c \in Range(memos'[m].parents),
              ParentAppended(m, c) \notin U
       PROVE  <<c, m>> \in known.memos_by_context /\ ParentComplete(T, L, m, c)'
  <2>1. /\ m \in DOMAIN memos /\ ParentAppended(m, c) \notin Unread
        /\ c \in Range(memos[m].parents)
    BY <1>2, <1>4, <1>6, <1>10, GrowthNames DEF ParserProofs!GrowthLogged
  <2>2. <<c, m>> \in known.memos_by_context /\ ParentComplete(T, L, m, c)
    BY <1>6, <2>1 DEF IndexFull, Full, FactsComplete, Complete
  <2> QED  BY <2>2 DEF ParentComplete, Index!DemandsIn
<1>11. Complete(U, D, T, L)'
  BY <1>8, <1>9, <1>10 DEF Complete
<1>12. Full(U, known)'
  BY <1>8, <1>9, <1>10 DEF Full
<1>13. FactsComplete'
  BY <1>7, <1>11 DEF FactsComplete
<1>14. IndexFull'
  BY <1>7, <1>12 DEF IndexFull
<1> QED  BY <1>5, <1>13, <1>14

\* The begin of a derivative and its end: what was being logged is now the log.
LEMMA TurnCompletes ==
  ASSUME LogRead, IndexFull, FactsComplete, Parsed \/ \E t \in Tokens : Derive(t)
  PROVE  LogRead' /\ IndexFull' /\ FactsComplete'
<1>1. /\ Stays /\ UNCHANGED <<delta, indexes, closure, agenda>>
      /\ log = {} /\ Unread' = Unread /\ LogRead'
  <2>1. CASE Parsed
    <3>1. /\ Stays /\ UNCHANGED <<delta, indexes, closure, agenda>>
          /\ log' = Range(changes) /\ changes' = <<>> /\ ~Parser!Idle /\ Parser!Idle'
      BY <2>1 DEF Parsed, Parser!EndDerive, Parser!Idle, Parser!maps, Parser!counters,
                  backend, link, Stays
    <3>2. log = {}
      BY <3>1 DEF LogRead
    <3>3. Range(changes') = {}
      BY <3>1 DEF Range
    <3> QED  BY <3>1, <3>2, <3>3 DEF LogRead, Unread
  <2>2. CASE \E t \in Tokens : Derive(t)
    <3>1. /\ Stays /\ UNCHANGED <<delta, indexes, closure, agenda, log, changes>>
          /\ log = {} /\ Parser!Idle
      BY <2>2 DEF Derive, Ready, Parser!Derive, Parser!maps, Parser!counters,
                  backend, link, Stays
    <3>2. changes = <<>>
      BY <3>1 DEF LogRead
    <3> QED  BY <3>1, <3>2 DEF LogRead, Unread
  <2> QED  BY <2>1, <2>2
<1>2. PICK U, D, T, L, known :
        U = Unread /\ D = delta /\ T = Settled /\ L = closure /\ known = indexes
  OBVIOUS
<1>3. Unread' = U /\ delta' = D /\ Settled' = T /\ closure' = L /\ indexes' = known
  BY <1>1, <1>2 DEF Settled, Pending
<1>4. Complete(U, D, T, L)' /\ Full(U, known)'
  <2>1. Complete(U, D, T, L) /\ Full(U, known)
    BY <1>2 DEF FactsComplete, IndexFull
  <2> QED  BY <1>1, <2>1, CompleteStays, FullStays
<1> QED  BY <1>1, <1>3, <1>4 DEF FactsComplete, IndexFull

----------------------------------------------------------------------------
(* The e-graph changes nothing that it does not mark.                      *)

LEMMA MarksTell ==
  ASSUME schema' = schema, Mark
  PROVE  /\ delta \subseteq delta'
         /\ \A k \in DOMAIN schema.constructors : Index!ConstructorMark(k) \notin delta' =>
              Applications(egraph', k) = Applications(egraph, k)
         /\ \A t \in DOMAIN schema.lexemes :
              [change |-> "Terminal", terminal |-> t] \notin delta' =>
                \A k \in DOMAIN schema.constructors :
                  Applications(egraph', k) = Applications(egraph, k)
         /\ Index!TargetMark \notin delta' => egraph'.target = egraph.target
<1> DEFINE grown == {c \in DOMAIN schema.constructors :
                       Applications(egraph, c) # Applications(egraph', c)}
<1>1. delta' = delta \cup {Index!ConstructorMark(c) : c \in grown}
                 \cup (IF grown = {} THEN {} ELSE Index!TerminalMarks)
                 \cup (IF egraph.target = egraph'.target THEN {} ELSE {Index!TargetMark})
  BY DEF Mark, Marked
<1>2. \A t \in DOMAIN schema.lexemes :
        [change |-> "Terminal", terminal |-> t] \in Index!TerminalMarks
  BY DEF Index!TerminalMarks
<1>3. \A k \in DOMAIN schema.constructors : k \notin grown =>
        Applications(egraph', k) = Applications(egraph, k)
  OBVIOUS
<1> HIDE DEF grown
<1> QED  BY <1>1, <1>2, <1>3

LEMMA GrowthCompletes ==
  ASSUME MapsOK, EGraphOK, TargetOK, EGraphOK', TargetOK', UNCHANGED parser, Mark,
         indexes' = indexes, log' = log, Settled' = Settled, closure \subseteq closure',
         LogRead, IndexFull, FactsComplete
  PROVE  LogRead' /\ IndexFull' /\ FactsComplete'
<1>1. /\ UNCHANGED <<grammar, expressions, memos, contexts, changes, token>>
      /\ schema' = schema
  BY DEF parser, schema
<1>2. /\ \A e : Index!ExpressionAction(e)' = Index!ExpressionAction(e)
      /\ \A e : Index!ExpressionChildren(e)' = Index!ExpressionChildren(e)
      /\ \A e : Index!Selected(e)' = Index!Selected(e)
      /\ \A c : Index!ContextAction(c)' = Index!ContextAction(c)
      /\ \A c : Index!ContextChildren(c)' = Index!ContextChildren(c)
  <2>1. /\ \A e : Index!ExpressionAction(e)' = Index!ExpressionAction(e)
        /\ \A c : Index!ContextAction(c)' = Index!ContextAction(c)
    BY <1>1 DEF Index!ExpressionAction, Index!ContextAction, Index!Action
  <2>2. /\ \A e : Index!ExpressionChildren(e)' = Index!ExpressionChildren(e)
        /\ \A c, p : Index!ContextChild(c, p)' = Index!ContextChild(c, p)
    BY <1>1, <2>1 DEF Index!ExpressionChildren, Index!ContextChild
  <2> QED  BY <1>1, <2>1, <2>2 DEF Index!Selected, Index!ContextChildren
<1>3. \A c, r : Index!HoleFact(c, r)' = Index!HoleFact(c, r)
  <2> TAKE c, r
  <2>1. Index!ContextChildren(c)' = Index!ContextChildren(c)
    BY <1>2
  <2> QED  BY <2>1 DEF Index!HoleFact
<1>4. PICK U, D, T, L, known :
        U = Unread /\ D = delta' /\ T = Settled /\ L = closure' /\ known = indexes
  OBVIOUS
<1>5. Unread' = U /\ delta' = D /\ Settled' = T /\ closure' = L /\ indexes' = known
  BY <1>1, <1>4 DEF Unread
<1>6. /\ delta \subseteq D
      /\ \A k \in DOMAIN schema.constructors : Index!ConstructorMark(k) \notin D =>
           Applications(egraph', k) = Applications(egraph, k)
      /\ \A t \in DOMAIN schema.lexemes : [change |-> "Terminal", terminal |-> t] \notin D =>
           \A k \in DOMAIN schema.constructors :
             Applications(egraph', k) = Applications(egraph, k)
      /\ Index!TargetMark \notin D => egraph'.target = egraph.target
  BY <1>1, <1>4, MarksTell
<1>7. ASSUME NEW e \in DOMAIN expressions, NewExpression(e) \notin U,
             ~ChangedExpression(D, e)
      PROVE  ExpressionComplete(T, L, e)'
  <2> DEFINE node == expressions[e].node
             k == Index!ExpressionAction(e).constructor
  <2>0. /\ node.tag \in {"Tok", "Seq", "Alt"}
        /\ Index!IsLeaf(node) => node.tag = "Seq"
        /\ Index!IsLeaf(node)' <=> Index!IsLeaf(node)
    BY <1>1 DEF MapsOK, Index!IsLeaf
  <2>1. ExpressionComplete(T, closure, e)
    <3>1. ~ChangedExpression(delta, e)
      BY <1>6, <1>7 DEF ChangedExpression
    <3> QED  BY <1>4, <1>7, <3>1 DEF FactsComplete, Complete
  <2>2. Index!ImpliedValues(T, e)' = Index!ImpliedValues(T, e)
    <3>1. CASE node.tag = "Tok"
      <4>1. node.terminal \in DOMAIN schema.lexemes
            /\ [change |-> "Terminal", terminal |-> node.terminal] \notin D
        BY <1>7, <3>1 DEF MapsOK, ChangedExpression
      <4>2. \A j \in DOMAIN schema.constructors :
              Applications(egraph', j) = Applications(egraph, j)
        BY <1>6, <4>1
      <4>3. {r \in egraph'.rows : r.constructor \in DOMAIN schema.constructors}
              = {r \in egraph.rows : r.constructor \in DOMAIN schema.constructors}
        BY <4>2 DEF Applications
      <4>4. Index!TerminalValues(node.terminal)' = Index!TerminalValues(node.terminal)
        BY <1>1, <4>3 DEF Index!TerminalValues
      <4> QED  BY <1>1, <2>0, <3>1, <4>4 DEF Index!ImpliedValues
    <3>2. CASE Index!IsLeaf(node)
      <4>1. \A v \in node.symbol.token.payload :
              v \notin DOMAIN egraph.find /\ v \notin DOMAIN egraph'.find
        <5>1. \A v \in node.symbol.token.payload : v.sort \in LexicalSorts(schema)
          BY <3>2 DEF MapsOK
        <5>2. /\ \A v \in DOMAIN egraph.find : v.sort \notin LexicalSorts(schema)
              /\ \A v \in DOMAIN egraph'.find : v.sort \notin LexicalSorts(schema)
          BY <1>1 DEF EGraphOK, EGraphWellTyped
        <5> QED  BY <5>1, <5>2
      <4>2. \A v \in node.symbol.token.payload :
              Canonical(egraph', v) = v /\ Canonical(egraph, v) = v
        BY <4>1 DEF Canonical
      <4>3. Index!ImpliedValues(T, e) = {Canonical(egraph, v) : v \in node.symbol.token.payload}
        BY <2>0, <3>2, IndexNames DEF Index!ImpliedValues
      <4>4. Index!ImpliedValues(T, e)' =
              {Canonical(egraph', v) : v \in node.symbol.token.payload}
        BY <1>1, <2>0, <3>2, IndexNames DEF Index!ImpliedValues, Index!Canonical, Canonical
      <4> QED  BY <4>2, <4>3, <4>4
    <3>3. CASE ~Index!IsLeaf(node) /\ node.tag = "Seq" /\ k # None
      <4>1. k \in DOMAIN schema.constructors /\ Index!ConstructorMark(k) \notin D
        BY <1>7, <3>3, ConstructingExpression DEF ChangedExpression
      <4>2. Applications(egraph', k) = Applications(egraph, k)
        BY <1>6, <4>1
      <4>3. Index!ExpressionRows(e)' = Index!ExpressionRows(e)
        BY <1>2, <4>2, IndexNames DEF Index!ExpressionRows, Applications, Index!Applications
      <4> QED  BY <1>1, <1>2, <2>0, <3>3, <4>3 DEF Index!ImpliedValues
    <3>4. CASE ~Index!IsLeaf(node) /\ node.tag # "Tok" /\ (node.tag = "Seq" => k = None)
      BY <1>1, <1>2, <2>0, <3>4, IndexNames DEF Index!ImpliedValues
    <3> QED  BY <2>0, <3>1, <3>2, <3>3, <3>4
  <2> QED  BY <1>4, <2>1, <2>2 DEF ExpressionComplete
<1>8. ASSUME NEW c \in DOMAIN contexts, NewContext(c) \notin U, ~ChangedContext(D, c)
      PROVE  ContextComplete(T, L, c)'
  <2> DEFINE k == Index!ContextAction(c).constructor
  <2>0. contexts[c].tag \in {"Top", "Seq", "Alt"}
    BY DEF MapsOK
  <2>1. ContextComplete(T, closure, c)
    <3>1. ~ChangedContext(delta, c)
      BY <1>6, <1>8 DEF ChangedContext
    <3> QED  BY <1>4, <1>8, <3>1 DEF FactsComplete, Complete
  <2>2. Index!ImpliedAt(T, c)' = Index!ImpliedAt(T, c)
    <3>1. CASE contexts[c].tag = "Top"
      <4>1. egraph'.target = egraph.target
        BY <1>6, <1>8, <3>1 DEF ChangedContext
      <4>2. Index!Canonical(egraph, egraph.target)' = Index!Canonical(egraph, egraph.target)
        <5>1. Index!Canonical(egraph, egraph.target)' = egraph'.target
          BY DEF Index!Canonical, EGraphOK, EGraphWellTyped, Coherent, TargetOK
        <5> QED  BY <4>1, <5>1, TargetStands
      <4> QED  BY <1>1, <3>1, <4>2 DEF Index!ImpliedAt
    <3>2. CASE contexts[c].tag # "Top"
      <4>1. \A d : Index!ImpliedDemand(T, c, d)' = Index!ImpliedDemand(T, c, d)
        <5>1. CASE contexts[c].tag = "Seq" /\ k # None
          <6>1. k \in DOMAIN schema.constructors /\ Index!ConstructorMark(k) \notin D
            BY <1>8, <5>1, ConstructingContext DEF ChangedContext
          <6>2. Applications(egraph', k) = Applications(egraph, k)
            BY <1>6, <6>1
          <6>3. Index!Applications(egraph', k) = Index!Applications(egraph, k)
            BY <6>2 DEF Applications, Index!Applications
          <6> QED  BY <1>1, <1>2, <1>3, <5>1, <6>3, IndexNames DEF Index!ImpliedDemand
        <5>2. CASE contexts[c].tag = "Alt"
          BY <1>1, <5>2 DEF Index!ImpliedDemand
        <5>3. CASE contexts[c].tag = "Seq" /\ k = None
          BY <1>1, <1>2, <5>3, IndexNames DEF Index!ImpliedDemand
        <5> QED  BY <2>0, <3>2, <5>1, <5>2, <5>3
      <4> QED  BY <1>1, <3>2, <4>1 DEF Index!ImpliedAt
    <3> QED  BY <3>1, <3>2
  <2> QED  BY <1>4, <2>1, <2>2, HeldMore DEF ContextComplete, HeldIn
<1>9. ASSUME NEW m \in DOMAIN memos, NEW c \in Range(memos[m].parents),
             ParentAppended(m, c) \notin U
      PROVE  ParentComplete(T, L, m, c)'
  <2>1. ParentComplete(T, L, m, c)
    BY <1>4, <1>9, CompleteMore DEF FactsComplete, Complete
  <2> QED  BY <2>1 DEF ParentComplete, Index!DemandsIn
<1>10. /\ \A e : ChangedExpression(D, e)' <=> ChangedExpression(D, e)
       /\ \A c : ChangedContext(D, c)' <=> ChangedContext(D, c)
  BY <1>1, <1>2 DEF ChangedExpression, ChangedContext
<1>11. Complete(U, D, T, L)'
  BY <1>1, <1>7, <1>8, <1>9, <1>10 DEF Complete
<1>12. Full(U, known)'
  <2>1. Full(U, known)
    BY <1>4 DEF IndexFull
  <2>2. \A e : ExpressionIndexed(known, e)' <=> ExpressionIndexed(known, e)
    BY <1>1, <1>2 DEF ExpressionIndexed
  <2>3. \A c : ContextIndexed(known, c)' <=> ContextIndexed(known, c)
    BY <1>1, <1>2 DEF ContextIndexed
  <2> QED  BY <1>1, <2>1, <2>2, <2>3 DEF Full
<1>13. LogRead'
  BY <1>1 DEF LogRead, Parser!Idle
<1> QED  BY <1>5, <1>11, <1>12, <1>13 DEF FactsComplete, IndexFull

----------------------------------------------------------------------------
(* Where all is told and closed, the rules add nothing to what is known.   *)

\* What is known of canonical values, or need not be known.
Found == {f \in Index!Fact : Index!Canonized(f) = f /\ HeldIn(closure, f)}

LEMMA FoundParts ==
  /\ Fewer(Found, closure)
  /\ \A e : \A v \in Index!ValuesIn(Found, e) : Canonical(egraph, v) = v
  /\ \A s : \A d \in Index!DemandsIn(Found, s) :
       /\ Canonical(egraph, d) = d
       /\ d \in Index!DemandsIn(closure, s) \/ Index!Realizable(s) \in closure
  /\ \A s : Index!Realizable(s) \in Found => Index!Realizable(s) \in closure
<1>1. ASSUME NEW e, NEW v \in Index!ValuesIn(Found, e)
      PROVE  v \in Index!ValuesIn(closure, e) /\ Canonical(egraph, v) = v
  <2>1. PICK f \in Found : f.fact = "Produces" /\ f.expression = e /\ f.value = v
    BY <1>1 DEF Index!ValuesIn
  <2>2. f = Index!Produces(e, v)
    BY <2>1, FactParts, FactKinds DEF Found
  <2>3. Index!Produces(e, Canonical(egraph, v)) = Index!Produces(e, v)
    BY <2>2, FactForms DEF Found
  <2>4. f \in closure
    BY <2>1 DEF Found, HeldIn
  <2> QED  BY <2>2, <2>3, <2>4, FactForms, ValuesInForm
<1>2. ASSUME NEW s, NEW d \in Index!DemandsIn(Found, s)
      PROVE  /\ Canonical(egraph, d) = d
             /\ d \in Index!DemandsIn(closure, s) \/ Index!Realizable(s) \in closure
  <2>1. PICK f \in Found : f.fact = "RealizableFor" /\ f.site = s /\ f.value = d
    BY <1>2 DEF Index!DemandsIn
  <2>2. f = Index!RealizableFor(s, d)
    BY <2>1, FactParts, FactKinds DEF Found
  <2>3. Index!RealizableFor(s, Canonical(egraph, d)) = Index!RealizableFor(s, d)
    BY <2>2, FactForms DEF Found
  <2>4. f \in closure \/ Index!Realizable(s) \in closure
    BY <2>1 DEF Found, HeldIn
  <2> QED  BY <2>2, <2>3, <2>4, FactForms, DemandsInForm
<1>3. \A s : Index!Realizable(s) \in Found => Index!Realizable(s) \in closure
  BY FactForms DEF Found, HeldIn
<1> QED  BY <1>1, <1>2, <1>3 DEF Fewer

\* The rules speak of canonical values.
LEMMA CanonicalValues ==
  ASSUME MapsOK, EGraphOK, NEW X,
         \A e : \A v \in Index!ValuesIn(X, e) : Canonical(egraph, v) = v,
         NEW e \in DOMAIN expressions, NEW v \in Index!ImpliedValues(X, e)
  PROVE  Canonical(egraph, v) = v
<1> DEFINE node == expressions[e].node
           k == Index!ExpressionAction(e).constructor
<1>0. Index!IsLeaf(node) => node.tag # "Tok"
  BY DEF Index!IsLeaf
<1>1. CASE node.tag = "Tok"
  <2>1. v \in Index!TerminalValues(node.terminal)
    BY <1>0, <1>1 DEF Index!ImpliedValues
  <2>2. PICK r \in egraph.rows : v \in Range(r.children)
    BY <2>1, IndexNames DEF Index!TerminalValues
  <2> QED  BY <2>2, RowFacts DEF Range
<1>2. CASE Index!IsLeaf(node)
  <2>1. PICK u \in node.symbol.token.payload : v = Canonical(egraph, u)
    BY <1>0, <1>2, IndexNames DEF Index!ImpliedValues
  <2>2. u.sort \in LexicalSorts(schema)
    BY <1>2 DEF MapsOK
  <2>3. u \notin DOMAIN egraph.find
    BY <2>2 DEF EGraphOK, EGraphWellTyped
  <2> QED  BY <2>1, <2>3 DEF Canonical
<1>3. CASE ~Index!IsLeaf(node) /\ node.tag = "Seq" /\ k # None
  <2>1. PICK r \in Index!ExpressionRows(e) : v = r.output
    BY <1>3, IndexNames DEF Index!ImpliedValues
  <2>2. r \in egraph.rows
    BY <2>1, IndexNames DEF Index!ExpressionRows
  <2> QED  BY <2>1, <2>2, RowFacts
<1>4. CASE ~Index!IsLeaf(node) /\ node.tag # "Tok" /\ (node.tag = "Seq" => k = None)
  <2>1. PICK child \in Range(Index!Selected(e)) : v \in Index!ValuesIn(X, child)
    BY <1>4, IndexNames DEF Index!ImpliedValues
  <2> QED  BY <2>1
<1> QED  BY <1>1, <1>2, <1>3, <1>4

LEMMA CanonicalDemand ==
  ASSUME MapsOK, EGraphOK, NEW X, NEW c \in DOMAIN contexts, contexts[c].tag # "Top",
         NEW d, Canonical(egraph, d) = d, NEW f \in Index!ImpliedDemand(X, c, d)
  PROVE  Index!Canonized(f) = f
<1> DEFINE k == Index!ContextAction(c).constructor
<1>0. contexts[c].tag \in {"Seq", "Alt"}
  BY DEF MapsOK
<1>1. CASE contexts[c].tag = "Alt"
  BY <1>1, FactForms DEF Index!ImpliedDemand
<1>2. CASE contexts[c].tag = "Seq" /\ k # None
  <2>1. PICK r \in Index!Applications(egraph, k) : f = Index!HoleFact(c, r)
    BY <1>2, IndexNames DEF Index!ImpliedDemand
  <2>2. r \in egraph.rows /\ r.constructor = k
    BY <2>1, IndexNames
  <2>3. /\ DOMAIN Index!ContextChildren(c) = DOMAIN r.children
        /\ \A a \in DOMAIN r.children : r.children[a] = Canonical(egraph, r.children[a])
    BY <1>2, <2>2, ConstructingContext, RowFacts
  <2> QED  BY <2>1, <2>3, HoleFacts
<1>3. CASE contexts[c].tag = "Seq" /\ k = None
  <2>1. \/ f = Index!RealizableFor(Index!ContextSite(c), d)
        \/ f = Index!Realizable(Index!ContextSite(c))
    BY <1>3, IndexNames DEF Index!ImpliedDemand
  <2> QED  BY <2>1, FactForms
<1> QED  BY <1>0, <1>1, <1>2, <1>3

LEMMA FoundClosed ==
  ASSUME MapsOK, EGraphOK, TargetOK, IndexOK, LogRead, FactsComplete, Ready, delta = {}
  PROVE  Closed(Found)
<1>1. Complete({}, {}, closure, closure)
  <2>1. Unread = {}
    <3>1. log = {} /\ changes = <<>>
      BY DEF Ready, LogRead
    <3> QED  BY <3>1 DEF Unread, Range
  <2>2. Settled = closure
    <3>1. Range(agenda) = {}
      BY DEF Ready, Range
    <3> QED  BY <3>1 DEF Settled, Pending
  <2> QED  BY <2>1, <2>2 DEF FactsComplete
<1>2. /\ \A e \in DOMAIN expressions : ExpressionComplete(closure, closure, e)
      /\ \A c \in DOMAIN contexts : ContextComplete(closure, closure, c)
      /\ \A m \in DOMAIN memos : \A c \in Range(memos[m].parents) :
           ParentComplete(closure, closure, m, c)
  BY <1>1 DEF Complete, ChangedExpression, ChangedContext
<1>3. Index!Implied(Found) \subseteq Index!Fact
  BY ImpliedTyped DEF Found
<1>4. ASSUME NEW e \in DOMAIN expressions, NEW v \in Index!ImpliedValues(Found, e)
      PROVE  Index!Produces(e, v) \in Found
  <2>1. Index!Produces(e, v) \in Index!Fact
    BY <1>3, <1>4 DEF Index!Implied
  <2>2. v \in Index!ImpliedValues(closure, e)
    BY <1>4, FoundParts, MoreValues
  <2>3. Canonical(egraph, v) = v
    BY <1>4, FoundParts, CanonicalValues
  <2> QED  BY <1>2, <2>1, <2>2, <2>3, FactForms DEF Found, HeldIn, ExpressionComplete
<1>5. ASSUME NEW c \in DOMAIN contexts, NEW f \in Index!ImpliedAt(Found, c)
      PROVE  f \in Found
  <2> DEFINE site == Index!ContextSite(c)
             outer == Index!MemoSite(contexts[c].memo)
  <2>0. f \in Index!Fact
    BY <1>3, <1>5 DEF Index!Implied
  <2>1. CASE contexts[c].tag = "Top"
    <3>1. f = Index!RealizableFor(site, egraph.target) /\ f \in Index!ImpliedAt(closure, c)
      BY <1>5, <2>1, TargetStands DEF Index!ImpliedAt
    <3>2. Canonical(egraph, egraph.target) = egraph.target
      BY TargetStands, IndexNames
    <3> QED  BY <1>2, <2>0, <3>1, <3>2, FactForms DEF Found, ContextComplete
  <2>2. ASSUME contexts[c].tag # "Top", Index!Realizable(outer) \in closure
        PROVE  Index!Realizable(site) \in closure
    <3>1. Index!Realizable(site) \in Index!ImpliedAt(closure, c)
      BY <2>2 DEF Index!ImpliedAt
    <3> QED  BY <1>2, <3>1, FactForms DEF ContextComplete, HeldIn
  <2>3. CASE contexts[c].tag # "Top" /\ Index!Realizable(outer) \in Found
               /\ f = Index!Realizable(site)
    BY <2>0, <2>2, <2>3, FoundParts, FactForms DEF Found, HeldIn
  <2>4. ASSUME contexts[c].tag # "Top", NEW d \in Index!DemandsIn(Found, outer),
               f \in Index!ImpliedDemand(Found, c, d)
        PROVE  f \in Found
    <3>1. Canonical(egraph, d) = d
          /\ (d \in Index!DemandsIn(closure, outer) \/ Index!Realizable(outer) \in closure)
      BY <2>4, FoundParts
    <3>2. Index!Canonized(f) = f
      BY <2>4, <3>1, CanonicalDemand
    <3>3. CASE d \in Index!DemandsIn(closure, outer)
      <4>1. f \in Index!ImpliedDemand(closure, c, d)
        BY <2>4, FoundParts, MoreDemand
      <4>2. f \in Index!ImpliedAt(closure, c)
        BY <2>4, <3>3, <4>1 DEF Index!ImpliedAt
      <4> QED  BY <1>2, <2>0, <3>2, <4>2 DEF Found, ContextComplete
    <3>4. CASE Index!Realizable(outer) \in closure
      <4>1. HeldIn(closure, f)
        BY <1>5, <2>2, <2>4, <3>4, AnySuits
      <4> QED  BY <2>0, <3>2, <4>1 DEF Found
    <3> QED  BY <3>1, <3>3, <3>4
  <2> QED  BY <1>5, <2>1, <2>3, <2>4, ContextFacts
<1>6. ASSUME NEW m \in DOMAIN memos, NEW f \in Index!ImpliedBelow(Found, m)
      PROVE  f \in Found
  <2>0. f \in Index!Fact
    BY <1>3, <1>6 DEF Index!Implied
  <2>1. PICK h \in Found, c \in Range(memos[m].parents) :
          /\ h.fact # "Produces" /\ h.site = Index!ContextSite(c)
          /\ f = [h EXCEPT !.site = Index!MemoSite(m)]
    BY <1>6, IndexNames DEF Index!ImpliedBelow
  <2>2. \A v, s, t : [Index!RealizableFor(s, v) EXCEPT !.site = t] = Index!RealizableFor(t, v)
                     /\ [Index!Realizable(s) EXCEPT !.site = t] = Index!Realizable(t)
    BY DEF Index!RealizableFor, Index!Realizable
  <2>3. ParentComplete(closure, closure, m, c)
    BY <1>2
  <2>4. IsFact(h)
    BY FactParts DEF Found
  <2>5. CASE h.fact = "Realizable"
    <3>1. h = Index!Realizable(Index!ContextSite(c)) /\ f = Index!Realizable(Index!MemoSite(m))
      BY <2>1, <2>2, <2>4, <2>5, FactKinds
    <3>2. f \in closure
      BY <2>3, <3>1, FoundParts DEF ParentComplete
    <3> QED  BY <2>0, <3>1, <3>2, FactForms DEF Found, HeldIn
  <2>6. CASE h.fact = "RealizableFor"
    <3>1. /\ h = Index!RealizableFor(Index!ContextSite(c), h.value)
          /\ f = Index!RealizableFor(Index!MemoSite(m), h.value)
      BY <2>1, <2>2, <2>4, <2>6, FactKinds
    <3>2. h.value \in Index!DemandsIn(Found, Index!ContextSite(c))
      BY <3>1, DemandsInForm
    <3>3. /\ Canonical(egraph, h.value) = h.value
          /\ \/ h.value \in Index!DemandsIn(closure, Index!ContextSite(c))
             \/ Index!Realizable(Index!ContextSite(c)) \in closure
      BY <3>2, FoundParts
    <3>4. f \in closure \/ Index!Realizable(Index!MemoSite(m)) \in closure
      BY <2>3, <3>1, <3>3 DEF ParentComplete
    <3> QED  BY <2>0, <3>1, <3>3, <3>4, FactForms DEF Found, HeldIn
  <2> QED  BY <2>1, <2>4, <2>5, <2>6, FactKinds
<1> QED  BY <1>4, <1>5, <1>6 DEF Closed, Index!Implied

\* So no fact that follows is missing.
LEMMA FoundWhenQuiet ==
  ASSUME MapsOK, EGraphOK, TargetOK, IndexOK, LogRead, FactsComplete
  PROVE  FactsFound
<1> SUFFICES ASSUME Ready, delta = {}, NEW f \in Index!Entailed
             PROVE  \/ f \in Index!Reading
                    \/ f.fact = "RealizableFor" /\ Index!Realizable(f.site) \in closure
  BY DEF FactsFound
<1>1. f \in Found
  BY FoundClosed, EntailedClosed
<1>2. Index!Canonized(f) = f /\ HeldIn(closure, f)
  BY <1>1 DEF Found
<1> QED  BY <1>2 DEF HeldIn, Index!Reading

----------------------------------------------------------------------------
(* Every step misses nothing.                                              *)

CompleteInv == LinkingInv /\ LogRead /\ IndexFull /\ FactsComplete

LEMMA CompleteStarts == Init => CompleteInv
<1> SUFFICES ASSUME Init PROVE CompleteInv  OBVIOUS
<1>1. LinkingInv
  BY LinkingStarts
<1>2. Parser!Idle /\ changes = <<>>
  BY DEF Init, Parser!Init, Parser!Idle
<1>3. /\ \A e \in DOMAIN expressions : NewExpression(e) \in log
      /\ \A c \in DOMAIN contexts : NewContext(c) \in log
      /\ \A m \in DOMAIN memos : \A c \in Range(memos[m].parents) :
           ParentAppended(m, c) \in log
  BY IndexNames DEF Init, Index!InitialLog
<1>4. log \subseteq Unread
  BY DEF Unread
<1>5. IndexFull /\ FactsComplete
  BY <1>3, <1>4 DEF IndexFull, Full, FactsComplete, Complete
<1> QED  BY <1>1, <1>2, <1>5 DEF CompleteInv, LogRead

LEMMA CompleteNext == CompleteInv /\ [Next]_vars => CompleteInv'
<1> SUFFICES ASSUME CompleteInv, [Next]_vars PROVE CompleteInv'  OBVIOUS
<1>1. /\ LinkingInv /\ LogRead /\ IndexFull /\ FactsComplete
      /\ ParserOK /\ EGraphOK /\ TargetOK /\ IndexOK /\ MapsOK
  BY MapsTyped DEF CompleteInv, LinkingInv
<1>2. LinkingInv'
  BY <1>1, LinkingNext
<1>3. CASE Parse
  BY <1>1, <1>2, <1>3, ParseCompletes DEF CompleteInv
<1>4. CASE Parsed \/ \E t \in Tokens : Derive(t)
  BY <1>1, <1>2, <1>4, TurnCompletes DEF CompleteInv
<1>5. CASE Tell \/ Close \/ Report
  <2>1. LogRead'
    <3>1. UNCHANGED parser /\ (log' = log \/ log' = {})
      BY <1>5 DEF Tell, Close, Report
    <3> QED  BY <1>1, <3>1 DEF LogRead, parser, Parser!Idle
  <2> QED  BY <1>1, <1>2, <1>5, <2>1, TellCompletes, CloseCompletes, ReportCompletes
           DEF CompleteInv
<1>6. CASE Materialize
  <2>1. PICK e \in DOMAIN expressions : Index!MaterializeExpression(e)
    BY <1>6 DEF Materialize
  <2>2. PICK F : Index!InsertAbove(F, agenda)
    BY <2>1 DEF Index!MaterializeExpression, Index!Insert
  <2>3. Settled' = Settled /\ closure' = closure \cup F
    BY <1>1, <2>2, InsertSettles DEF IndexOK
  <2>4. indexes' = indexes
    BY <2>1 DEF Index!MaterializeExpression
  <2>5. UNCHANGED parser /\ Mark /\ log' = log
    BY <1>6 DEF Materialize
  <2>6. EGraphOK' /\ TargetOK'
    BY <1>2 DEF LinkingInv
  <2>7. closure \subseteq closure'
    BY <2>3
  <2> QED  BY <1>1, <1>2, <2>3, <2>4, <2>5, <2>6, <2>7, GrowthCompletes DEF CompleteInv
<1>7. CASE Grow
  <2>1. UNCHANGED parser /\ Mark /\ log' = log /\ UNCHANGED <<indexes, closure, agenda>>
    BY <1>7 DEF Grow, link
  <2>2. Settled' = Settled
    BY <2>1 DEF Settled, Pending
  <2>3. EGraphOK' /\ TargetOK'
    BY <1>2 DEF LinkingInv
  <2>4. indexes' = indexes /\ closure \subseteq closure'
    BY <2>1
  <2> QED  BY <1>1, <1>2, <2>1, <2>2, <2>3, <2>4, GrowthCompletes DEF CompleteInv
<1>8. CASE UNCHANGED vars
  <2>1. /\ Stays
        /\ UNCHANGED <<delta, log, changes, token, indexes, closure, agenda>>
    BY <1>8 DEF vars, parser, backend, link, Stays
  <2>2. LogRead'
    BY <1>1, <2>1 DEF LogRead, Parser!Idle
  <2>3. PICK U, D, T, L, known :
          U = Unread /\ D = delta /\ T = Settled /\ L = closure /\ known = indexes
    OBVIOUS
  <2>4. Unread' = U /\ delta' = D /\ Settled' = T /\ closure' = L /\ indexes' = known
    BY <2>1, <2>3 DEF Settled, Pending, Unread
  <2>5. Complete(U, D, T, L)' /\ Full(U, known)'
    <3>1. Complete(U, D, T, L) /\ Full(U, known)
      BY <1>1, <2>3 DEF FactsComplete, IndexFull
    <3> QED  BY <2>1, <3>1, CompleteStays, FullStays
  <2> QED  BY <1>2, <2>2, <2>4, <2>5 DEF CompleteInv, FactsComplete, IndexFull
<1> QED  BY <1>3, <1>4, <1>5, <1>6, <1>7, <1>8 DEF Next

\* Once the index has been told of everything and has emptied its work list, it
\* misses no fact that follows: whatever order the parser's operations, the turns
\* of `close`, the materializations and the growth of the e-graph came in, and
\* however often `update_pwz` and `update_egraph` were called on the way.
THEOREM FactsAreFound == Spec => []FactsFound
<1>1. CompleteInv => FactsFound
  BY MapsTyped, FoundWhenQuiet DEF CompleteInv, LinkingInv
<1> QED  BY <1>1, CompleteStarts, CompleteNext, PTL DEF Spec

============================================================================
