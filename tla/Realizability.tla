---------------------------- MODULE Realizability ----------------------------
(***************************************************************************)
(* The realizability index of src/realizability.rs: the facts that join    *)
(* the parser's graph with the e-graph, closed by a work list.             *)
(*                                                                         *)
(*   Produces(e, v)       expression e, once complete, can have value v    *)
(*   RealizableFor(s, v)  value v in the hole of site s reaches the target *)
(*   Realizable(s)        so does every value                              *)
(*                                                                         *)
(* The maps of the parser and the e-graph are read, never copied.  The     *)
(* three relations are one set of facts, and an event is a fact just       *)
(* inserted.  The agenda is a stack, as in the code, of sets: facts that   *)
(* are inserted by one loop over an index may be taken in any order, since *)
(* that of the index is an accident.  Positions count from 1.              *)
(***************************************************************************)
EXTENDS PwzData, EGraph, Functions

VARIABLES
  schema,                            \* the semantic action of each production
  expressions, memos, contexts,      \* the parser's maps
  zippers,
  egraph,
  indexes, closure, agenda

linking == <<indexes, closure, agenda>>

----------------------------------------------------------------------------
(* Facts.                                                                  *)

MemoSite(m) == [site |-> "Memo", id |-> m]
ContextSiteAsMemo(c) == MemoSite(c)   \* mutant: the two kinds of site collide
ContextSite(c) == [site |-> "Context", id |-> c]

Produces(e, v) == [fact |-> "Produces", expression |-> e, value |-> v]
RealizableFor(s, v) == [fact |-> "RealizableFor", site |-> s, value |-> v]
Realizable(s) == [fact |-> "Realizable", site |-> s]

Values(e) ==
  {f.value : f \in {x \in closure : x.fact = "Produces" /\ x.expression = e}}
Demands(s) ==
  {f.value : f \in {x \in closure : x.fact = "RealizableFor" /\ x.site = s}}

HasProduces(e, v) == \E w \in Values(e) : Equivalent(egraph, w, v)
HasRealizableFor(s, v) == \E w \in Demands(s) : Equivalent(egraph, w, v)

----------------------------------------------------------------------------
(* Semantic actions.  A projection has no constructor and one position.    *)

Action(symbol, size) ==
  IF symbol.tag = "Grammar" THEN schema.actions[symbol.symbol + 1]
  ELSE [constructor |-> None,
        positions |-> IF symbol = Bottom /\ size > 0 THEN <<size>> ELSE <<>>]

ExpressionAction(e) ==
  Action(expressions[e].node.symbol, Len(expressions[e].node.children))

\* The children of a sequence at the positions its action selects.
ExpressionChildren(e) ==
  LET positions == ExpressionAction(e).positions
  IN [a \in DOMAIN positions |-> expressions[e].node.children[positions[a]]]

\* The children an expression takes its value from.
Selected(e) ==
  LET node == expressions[e].node IN
  CASE node.tag = "Tok" -> <<>>
    [] node.tag = "Alt" -> node.children
    [] node.tag = "Seq" -> ExpressionChildren(e)

Hole == None      \* where Child::Fixed holds an expression
ContextChild(c, position) ==
  LET left == contexts[c].left IN
  IF position <= Len(left) THEN left[position]
  ELSE IF position = Len(left) + 1 THEN Hole
  ELSE contexts[c].right[position - Len(left) - 1]

ContextAction(c) ==
  Action(contexts[c].symbol, Len(contexts[c].left) + 1 + Len(contexts[c].right))

\* What stands at the positions a Seq context selects, in their order.
ContextChildren(c) ==
  LET positions == ContextAction(c).positions
  IN [a \in DOMAIN positions |-> ContextChild(c, positions[a])]

----------------------------------------------------------------------------
(* Propagation: the facts that follow from what is known.                  *)

\* Values of primitive sorts that are lexemes of t and occur in some row of a
\* constructor the grammar knows.
TerminalValues(t) ==
  (UNION {Range(r.children) :
            r \in {x \in egraph.rows : x.constructor \in DOMAIN schema.constructors}})
    \cap schema.lexemes[t]

\* The rows that all children but those at `given` are known to match.
RowsMatching(rows, children, given) ==
  {r \in rows : \A a \in DOMAIN children \ given :
                  children[a] = Hole \/ HasProduces(children[a], r.children[a])}

ExpressionRows(e) == Applications(egraph, ExpressionAction(e).constructor)

\* `recheck_expression`
RecheckExpression(e) ==
  LET node == expressions[e].node
      values == CASE node.tag = "Tok" -> TerminalValues(node.terminal)
                  [] node.tag = "Seq" /\ node.symbol.tag = "Token" ->
                       node.symbol.token.payload
                  [] node.tag = "Seq" /\ ExpressionAction(e).constructor # None ->
                       {r.output : r \in RowsMatching(ExpressionRows(e),
                                                      ExpressionChildren(e), {})}
                  [] OTHER -> UNION {Values(child) : child \in Range(Selected(e))}
  IN {Produces(e, v) : v \in values}

\* mutant: the other children of the row are not asked for
PropagateValueAlone(e, child, v) ==
  LET node == expressions[e].node IN
  IF node.tag = "Seq" /\ ExpressionAction(e).constructor # None
    THEN {Produces(e, r.output) : r \in
            {x \in ExpressionRows(e) :
               \E a \in DOMAIN ExpressionChildren(e) :
                 ExpressionChildren(e)[a] = child /\ Equivalent(egraph, x.children[a], v)}}
    ELSE {Produces(e, v)}

\* `propagate_sequence_value`, and its counterpart for alternatives: child has
\* got the value v.
PropagateValue(e, child, v) ==
  LET node == expressions[e].node IN
  IF node.tag = "Seq" /\ ExpressionAction(e).constructor # None
    THEN LET children == ExpressionChildren(e) IN
         {Produces(e, r.output) : r \in
            UNION {RowsMatching({r \in ExpressionRows(e) :
                                   Equivalent(egraph, r.children[a], v)},
                                children, {a}) :
                   a \in {x \in DOMAIN children : children[x] = child}}}
    ELSE {Produces(e, v)}

\* What a matching row says of context c: which value its hole needs, if the
\* hole is selected at all.
HoleFact(c, row) ==
  LET children == ContextChildren(c) IN
  IF Hole \in Range(children)
    THEN RealizableFor(ContextSite(c),
           row.children[CHOOSE a \in DOMAIN children : children[a] = Hole])
    ELSE Realizable(ContextSite(c))

DemandedRowsAny(c, demand) ==   \* mutant: rows of any value will do
  Applications(egraph, ContextAction(c).constructor)

DemandedRows(c, demand) ==
  {r \in Applications(egraph, ContextAction(c).constructor) :
     Equivalent(egraph, r.output, demand)}

\* `propagate_context_demand`: the memo that c leads to has got a demand.
PropagateDemand(c, demand) ==
  IF contexts[c].tag = "Alt" THEN {RealizableFor(ContextSite(c), demand)}
  ELSE LET children == ContextChildren(c) IN
       IF ContextAction(c).constructor # None
         THEN {HoleFact(c, r) :
                 r \in RowsMatching(DemandedRows(c, demand), children, {})}
       ELSE IF Head(children) = Hole THEN {RealizableFor(ContextSite(c), demand)}
       ELSE IF HasProduces(Head(children), demand) THEN {Realizable(ContextSite(c))}
       ELSE {}

\* `propagate_context_value`: e, fixed beside the hole of c, has got a value.
PropagateContextValue(c, e, v) ==
  LET children == ContextChildren(c)
      demands == Demands(MemoSite(contexts[c].memo))
  IN IF ContextAction(c).constructor # None
       THEN UNION {{HoleFact(c, r) :
                      r \in RowsMatching({x \in DemandedRows(c, demand) :
                                            Equivalent(egraph, x.children[a], v)},
                                         children, {a})} :
                   demand \in demands,
                   a \in {x \in DOMAIN children : children[x] = e}}
     ELSE IF \E demand \in demands : Equivalent(egraph, demand, v)
       THEN {Realizable(ContextSite(c))}
     ELSE {}

\* mutant: a new context below a site any value suits is given only demands
RecheckContextDemands(c) ==
  IF contexts[c].tag = "Top" THEN {}
  ELSE UNION {PropagateDemand(c, demand) : demand \in Demands(MemoSite(contexts[c].memo))}

\* `recheck_context`
RecheckContext(c) ==
  IF contexts[c].tag = "Top" THEN {}
  ELSE LET outer == MemoSite(contexts[c].memo) IN
       IF Realizable(outer) \in closure THEN {Realizable(ContextSite(c))}
       ELSE UNION {PropagateDemand(c, demand) : demand \in Demands(outer)}

----------------------------------------------------------------------------
(* The indexes: who must be told of what.                                  *)

ExpressionConsumer(e) == [consumer |-> "Expression", id |-> e]
ContextConsumer(c) == [consumer |-> "Context", id |-> c]

NoIndexes ==
  [consumers_by_expression |-> {}, consumers_by_constructor |-> {},
   expressions_by_terminal |-> {}, memos_by_context |-> {},
   contexts_by_outer_memo |-> {}, top_contexts |-> {}]

\* The graph of `Pwz::new` as one log, the way `RealizabilityEngine::new` reads it.
InitialLog ==
  {NewExpression(e) : e \in DOMAIN expressions}
    \cup {NewContext(c) : c \in DOMAIN contexts}
    \cup (UNION {{ParentAppended(m, c) : c \in Range(memos[m].parents)} :
                 m \in DOMAIN memos})

Named(log, kind) == {x \in log : x.change = kind}
NewExpressions(log) == {x.expression : x \in Named(log, "NewExpression")}
NewContexts(log) == {x.context : x \in Named(log, "NewContext")}

SeqExpressions(log) ==
  {e \in NewExpressions(log) : expressions[e].node.tag = "Seq"}
SeqContexts(log) == {c \in NewContexts(log) : contexts[c].tag = "Seq"}

Constructing(log) ==
  {<<ExpressionAction(e).constructor, ExpressionConsumer(e)>> : e \in SeqExpressions(log)}
    \cup {<<ContextAction(c).constructor, ContextConsumer(c)>> : c \in SeqContexts(log)}

\* `index_expression`, `index_context`, `index_parent`, `index_alternative_child`
Indexed(log) ==
  [consumers_by_expression |-> indexes.consumers_by_expression
     \cup (UNION {{<<child, ExpressionConsumer(e)>> : child \in Range(Selected(e))} :
                  e \in NewExpressions(log)})
     \cup {<<x.child, ExpressionConsumer(x.alternative)>> :
             x \in Named(log, "AlternativeChildAppended")}
     \cup (UNION {{<<child, ContextConsumer(c)>> :
                     child \in Range(ContextChildren(c)) \ {Hole}} :
                  c \in SeqContexts(log)}),
   consumers_by_constructor |-> indexes.consumers_by_constructor
     \cup {x \in Constructing(log) : x[1] # None},
   expressions_by_terminal |-> indexes.expressions_by_terminal
     \cup {<<expressions[e].node.terminal, e>> :
             e \in {x \in NewExpressions(log) : expressions[x].node.tag = "Tok"}},
   memos_by_context |-> indexes.memos_by_context
     \cup {<<x.context, x.memo>> : x \in Named(log, "MemoParentAppended")},
   contexts_by_outer_memo |-> indexes.contexts_by_outer_memo
     \cup {<<contexts[c].memo, c>> :
             c \in {x \in NewContexts(log) : contexts[x].tag # "Top"}},
   top_contexts |-> indexes.top_contexts
     \cup {c \in NewContexts(log) : contexts[c].tag = "Top"}]

\* The second of each pair of an index that stands under key.
Under(index, key) == {pair[2] : pair \in {x \in index : x[1] = key}}

\* The facts of one site, passed on to another.
Passed(from, to) ==
  {RealizableFor(to, v) : v \in Demands(from)}
    \cup IF Realizable(from) \in closure THEN {Realizable(to)} ELSE {}

Targets(tops) == {RealizableFor(ContextSite(c), egraph.target) : c \in tops}

\* What the index functions insert while a log is read.
FirstFacts(log) ==
  (UNION {RecheckExpression(e) : e \in NewExpressions(log)})
    \cup (UNION {RecheckContext(c) : c \in NewContexts(log)})
    \cup Targets({c \in NewContexts(log) : contexts[c].tag = "Top"})
    \cup (UNION {Passed(ContextSite(x.context), MemoSite(x.memo)) :
                 x \in Named(log, "MemoParentAppended")})
    \cup (UNION {{Produces(x.alternative, v) : v \in Values(x.child)} :
                 x \in Named(log, "AlternativeChildAppended")})

----------------------------------------------------------------------------
(* The operations.                                                         *)

Stacked(facts, stack) == IF facts = {} THEN stack ELSE <<facts>> \o stack

InsertAboveAgain(facts, stack) ==   \* mutant: a known fact is an event again
  /\ closure' = closure \cup facts
  /\ agenda' = Stacked(facts, stack)

\* Facts are deduplicated; a new one is an event.
InsertAbove(facts, stack) ==
  /\ closure' = closure \cup facts
  /\ agenda' = Stacked(facts \ closure, stack)

Insert(facts) == InsertAbove(facts, agenda)

\* `update_pwz`, and `new` with the whole initial graph as its log.  Nothing
\* is closed before everything is indexed.
UpdatePwz(log) ==
  /\ indexes' = Indexed(log)
  /\ Insert(FirstFacts(log))

TargetMark == [change |-> "Target"]
TerminalMarks == {[change |-> "Terminal", terminal |-> t] : t \in DOMAIN schema.lexemes}
ConstructorMark(c) == [change |-> "Constructor", constructor |-> c]

RecheckConsumer(x) ==
  IF x.consumer = "Expression" THEN RecheckExpression(x.id) ELSE RecheckContext(x.id)

ChangeFacts(x) ==
  CASE x.change = "Target" -> Targets(indexes.top_contexts)
    [] x.change = "Terminal" ->
         UNION {RecheckExpression(e) :
                e \in Under(indexes.expressions_by_terminal, x.terminal)}
    [] x.change = "Constructor" ->
         UNION {RecheckConsumer(consumer) :
                consumer \in Under(indexes.consumers_by_constructor, x.constructor)}

UpdateEGraphAnew(delta) ==   \* mutant: what the delta tells replaces the rest
  /\ closure' = UNION {ChangeFacts(x) : x \in delta}
  /\ agenda' = Stacked(closure', agenda)
  /\ UNCHANGED indexes

\* `update_egraph`
UpdateEGraph(delta) ==
  /\ Insert(UNION {ChangeFacts(x) : x \in delta})
  /\ UNCHANGED indexes

Consequences(event) ==
  CASE event.fact = "Produces" ->
         UNION {IF x.consumer = "Expression"
                  THEN PropagateValue(x.id, event.expression, event.value)
                  ELSE PropagateContextValue(x.id, event.expression, event.value) :
                x \in Under(indexes.consumers_by_expression, event.expression)}
    [] event.fact = "RealizableFor" /\ event.site.site = "Context" ->
         {RealizableFor(MemoSite(m), event.value) :
            m \in Under(indexes.memos_by_context, event.site.id)}
    [] event.fact = "RealizableFor" /\ event.site.site = "Memo" ->
         UNION {PropagateDemand(c, event.value) :
                c \in Under(indexes.contexts_by_outer_memo, event.site.id)}
    [] event.fact = "Realizable" /\ event.site.site = "Context" ->
         {Realizable(MemoSite(m)) : m \in Under(indexes.memos_by_context, event.site.id)}
    [] event.fact = "Realizable" /\ event.site.site = "Memo" ->
         {Realizable(ContextSite(c)) :
            c \in Under(indexes.contexts_by_outer_memo, event.site.id)}

\* One turn of `close`.
CloseEvent(event) ==
  /\ InsertAbove(Consequences(event),
                 Stacked(Head(agenda) \ {event}, Tail(agenda)))
  /\ UNCHANGED indexes

Close == agenda # <<>> /\ \E event \in Head(agenda) : CloseEvent(event)

\* The applications `materialize_expression` asks for: a value of the right
\* sort for each argument.
Combinations(e) ==
  LET children == ExpressionChildren(e)
      inputs == schema.constructors[ExpressionAction(e).constructor].inputs
  IN Products([a \in DOMAIN children |->
                 {Canonical(egraph, v) :
                    v \in {x \in Values(children[a]) : x.sort = inputs[a]}}])

\* `materialize_expression`; what it added must still be reported.
Constructible(e) ==
  /\ expressions[e].fixed
  /\ expressions[e].node.tag = "Seq"
  /\ ExpressionAction(e).constructor # None

MaterializeExpression(e) ==
  LET constructor == ExpressionAction(e).constructor
      sort == schema.constructors[constructor].output
  IN /\ Constructible(e)
     /\ egraph' = AddedAll(egraph, constructor, Combinations(e), sort)
     /\ Insert({Produces(e, v) : v \in
                  UNION {Outputs(egraph', constructor, vs) : vs \in Combinations(e)}})
     /\ UNCHANGED indexes

----------------------------------------------------------------------------
(* The answer.                                                             *)

FocusClasses(focus) ==
  IF focus.tag = "Seq" /\ focus.symbol.tag = "Token"
    THEN focus.symbol.token.payload ELSE {}

\* `is_realizable`
IsRealizable ==
  \E z \in Range(zippers) :
    \/ Realizable(MemoSite(z.memo)) \in closure
    \/ \E v \in FocusClasses(z.focus) : HasRealizableFor(MemoSite(z.memo), v)
=============================================================================
