--------------------------- MODULE Materialization ---------------------------
(***************************************************************************)
(* What src/realizability.rs makes of the current prefix in the e-graph:   *)
(* the applications of the expressions that are fixed, and those on the    *)
(* way from each zipper outwards, until syntax that is still to come stops *)
(* it.  The values it meets are relevant: the backend focuses on them.     *)
(*                                                                         *)
(* `walk` is the local state of materialize_fixed and materialize_focus.   *)
(* Its `steps` are what remains of the loops over expressions and contexts,*)
(* its `agenda` the stack of sites, each with the contexts that led to it. *)
(* After a materialized expression the index is closed before the walk     *)
(* goes on.                                                                *)
(***************************************************************************)
EXTENDS Realizability, Guarantees, SequencesExt

CONSTANT MaxCombinations    \* MAX_DISJOINT_COMBINATIONS

VARIABLES
  guarantees,       \* the user's rewrites that act as guarantees
  walk

NoWalk == [steps |-> <<>>, agenda |-> <<>>, seen |-> {}, materialized |-> {},
           relevant |-> {}, phase |-> "None"]

ExpressionStep(e) == [step |-> "Expression", expression |-> e]
ContextStep(c, value, path) ==
  [step |-> "Context", context |-> c, value |-> value, path |-> path]
CrossStep(c, value, path) ==
  [step |-> "Cross", context |-> c, value |-> value, path |-> path]

Sites(memo, values, path) ==
  LET order == SetToSeq(values)
  IN [i \in DOMAIN order |-> [memo |-> memo, value |-> order[i], path |-> path]]

----------------------------------------------------------------------------
(* `fixed_postorder`.                                                      *)

\* An item of its stack: an expression to enter or, once expanded, to leave.
Item(e, expanded) == [expression |-> e, expanded |-> expanded]
Entries(es) == [i \in DOMAIN es |-> Item(es[i], FALSE)]

\* One round of its loop.  The last child pushed is the next to be entered.
Visited(skip, s) ==
  LET e == Head(s.stack).expression
      popped == [s EXCEPT !.stack = Tail(@)]
  IN IF s.stack = <<>> THEN s
     ELSE IF e \in skip \/ ~expressions[e].fixed THEN popped
     ELSE IF Head(s.stack).expanded THEN [popped EXCEPT !.output = Append(@, e)]
     ELSE IF e \in s.entered THEN popped
     ELSE [popped EXCEPT
             !.entered = @ \cup {e},
             !.stack = Entries(Reverse(Selected(e))) \o (<<Item(e, TRUE)>> \o @)]

\* The items that can ever be pushed: no round is needed for more.
Pushes(roots) ==
  ({None} \X DOMAIN roots)
    \cup (UNION {{e} \X (0 .. Len(Selected(e))) : e \in DOMAIN expressions})

FixedPostorder(roots, skip) ==
  LET after[n \in Nat] ==
        IF n = 0 THEN [stack |-> Entries(Reverse(roots)), entered |-> {}, output |-> <<>>]
        ELSE Visited(skip, after[n - 1])
  IN after[Cardinality(Pushes(roots))].output

----------------------------------------------------------------------------
(* `materialize_context`.                                                  *)

\* `context_values`
ContextValues(child, hole) ==
  IF child = Hole THEN {hole} \ {NoValue} ELSE Values(child)

ArgumentChoices(c, hole) ==
  LET children == ContextChildren(c)
      inputs == schema.constructors[ContextAction(c).constructor].inputs
      Suitable(a) == {Canonical(egraph, v) :
                        v \in {x \in ContextValues(children[a], hole) : x.sort = inputs[a]}}
  IN [a \in DOMAIN children |-> IF Suitable(a) = {} THEN {NoValue} ELSE Suitable(a)]

\* Some argument is syntax that has not been read.
HasFuture(c) ==
  \E position \in Range(ContextAction(c).positions) : position > Len(contexts[c].left) + 1

RowMarks(constructor) == {ConstructorMark(constructor)} \cup TerminalMarks

\* What one combination of children adds to `made`: rows, outputs and marks.
Made(made, g, outputs, marks) ==
  [g |-> g, outputs |-> made.outputs \cup outputs, marks |-> made.marks \cup marks]

Applied(made, constructor, children) ==
  LET g == Added(made.g, constructor, children, schema.constructors[constructor].output)
  IN Made(made, g, Outputs(g, constructor, children),
          IF g = made.g THEN {} ELSE RowMarks(constructor))

\* `materialize_guaranteed_output`: the value of the first guarantee is made.
Promised(made, constructor, output) ==
  LET g == Added(made.g, output, <<>>, schema.constructors[constructor].output)
  IN Made(made, g, NullaryValue(g, output),
          IF output \in DOMAIN schema.constructors /\ g # made.g
            THEN {ConstructorMark(output)} ELSE {})

Guaranteed(made, constructor, matching) ==
  LET outputs == GuaranteedOutputs(made.g, guarantees, matching)
  IN IF outputs # {} THEN Made(made, made.g, outputs, {})
     ELSE Promised(made, constructor, guarantees[Min(matching)].output)

Combined(made, c, children) ==
  LET constructor == ContextAction(c).constructor
      concrete == NoValue \notin Range(children)
      matching == Matching(made.g, guarantees, constructor, children)
  IN IF ~HasFuture(c) /\ concrete THEN Applied(made, constructor, children)
     ELSE IF matching # {} THEN Guaranteed(made, constructor, matching)
     ELSE IF concrete
       THEN Made(made, made.g, Outputs(made.g, constructor, children), {})
     ELSE made

MaterializedContext(c, hole) ==
  LET nothing == [g |-> egraph, outputs |-> {}, marks |-> {}] IN
  IF ContextAction(c).constructor = None
    THEN [nothing EXCEPT !.outputs = ContextValues(Head(ContextChildren(c)), hole)]
  ELSE LET combinations == Products(ArgumentChoices(c, hole)) IN
       IF Cardinality(combinations) > MaxCombinations THEN nothing
       ELSE FoldSet(LAMBDA children, made : Combined(made, c, children),
                    nothing, combinations)

----------------------------------------------------------------------------
(* The walk.                                                               *)

\* `materialize` up to the loop of `materialize_fixed`
BeginWalk(new_expressions) ==
  LET order == FixedPostorder(new_expressions, {}) IN
  walk' = [NoWalk EXCEPT !.steps = [i \in DOMAIN order |-> ExpressionStep(order[i])],
                         !.materialized = Range(order),
                         !.phase = "Fixed"]

FixedDone == walk.phase = "Fixed" /\ walk.steps = <<>>
FixedRelevant == UNION {Values(e) : e \in walk.materialized}

\* The hole of a zipper that is not a token has no value yet.
FocusSites(z) ==
  Sites(z.memo, IF FocusClasses(z.focus) = {} THEN {NoValue} ELSE FocusClasses(z.focus),
        <<>>)

\* From `materialize_fixed` to the first site of `materialize_focus`
BeginFocusWalk ==
  walk' = [NoWalk EXCEPT !.agenda = FoldLeft(LAMBDA sites, z : FocusSites(z) \o sites,
                                             <<>>, zippers),
                         !.phase = "Focus"]

FocusDone == walk.phase = "Focus" /\ walk.steps = <<>> /\ walk.agenda = <<>>

\* The next site of the agenda.
EnterSite ==
  LET site == Head(walk.agenda)
      parents == memos[site.memo].parents
      popped == [walk EXCEPT !.agenda = Tail(@)]
  IN /\ walk.phase = "Focus" /\ walk.steps = <<>> /\ walk.agenda # <<>>
     /\ walk' = IF <<site.memo, site.value>> \in walk.seen THEN popped
                ELSE [popped EXCEPT
                        !.seen = @ \cup {<<site.memo, site.value>>},
                        !.relevant = @ \cup ({site.value} \ {NoValue}),
                        !.steps = [i \in DOMAIN parents |->
                                     ContextStep(parents[i], site.value, site.path)]]

Facing(step) == walk.steps # <<>> /\ Head(walk.steps).step = step
Rest == Tail(walk.steps)

\* One expression of the postorder.
TakeExpression ==
  LET e == Head(walk.steps).expression IN
  /\ Facing("Expression")
  /\ walk' = [walk EXCEPT !.steps = Rest]
  /\ IF Constructible(e) THEN MaterializeExpression(e)
     ELSE UNCHANGED <<egraph, linking>>

ExpressionMarks ==
  IF Facing("Expression") /\ egraph' # egraph
    THEN RowMarks(ExpressionAction(Head(walk.steps).expression).constructor) ELSE {}

\* One parent of the site: its fixed children first, if an action selects any.  The
\* postorder passes over the hole among them, as over what has been materialized.
TakeContext ==
  LET s == Head(walk.steps)
      c == s.context
      path == Append(s.path, c)
      order == FixedPostorder(ContextChildren(c), walk.materialized \cup {Hole})
  IN /\ Facing("Context")
     /\ walk' = IF c \in Range(s.path) \/ contexts[c].tag = "Top"
                  THEN [walk EXCEPT !.steps = Rest]
                ELSE IF contexts[c].tag = "Alt"
                  THEN [walk EXCEPT !.steps = Rest,
                          !.agenda = Sites(contexts[c].memo, {s.value}, path) \o @]
                ELSE [walk EXCEPT
                        !.materialized = @ \cup Range(order),
                        !.steps = [i \in DOMAIN order |-> ExpressionStep(order[i])]
                                    \o <<CrossStep(c, s.value, path)>> \o Rest]
     /\ UNCHANGED <<egraph, linking>>

FixedSiblings(c) ==
  {e \in Range(contexts[c].left) \cup Range(contexts[c].right) : expressions[e].fixed}

Crossing == MaterializedContext(Head(walk.steps).context, Head(walk.steps).value)

\* Out of a sequence, with the values it can have around the hole.
CrossContext(made) ==
  LET s == Head(walk.steps) IN
  /\ egraph' = made.g
  /\ walk' = [walk EXCEPT
       !.relevant = @ \cup UNION {Values(e) : e \in FixedSiblings(s.context)},
       !.agenda = Sites(contexts[s.context].memo, made.outputs, s.path) \o @,
       !.steps = Rest]
  /\ UNCHANGED linking
=============================================================================
