-------------------------------- MODULE Pwz --------------------------------
(***************************************************************************)
(* The Parsing-with-Zippers engine of src/paper_pwz.rs.                    *)
(*                                                                         *)
(* One derivative is not atomic here.  `derive` drives a work list of      *)
(* operations, and every arm of `down`, `down_fresh`, `up` and             *)
(* `up_context` is one action, so the invariants are checked between any   *)
(* two operations, where the memo graph is only partly updated.            *)
(*                                                                         *)
(* The three ID maps are functions on naturals.  A Vec used as a stack is  *)
(* a sequence with its top at the head.                                    *)
(***************************************************************************)
EXTENDS PwzData, FiniteSets, Functions

CONSTANTS
  Grammars,   \* the grammars `new` may be called with
  MaxTokens,  \* bound: at most this many derivatives (usize::MAX in the code)
  IdLimit     \* bound: IDs below this may be allocated (u32::MAX in the code)

ASSUME BoundsAssumption == MaxTokens \in Nat /\ IdLimit \in Nat

----------------------------------------------------------------------------
VARIABLES
  grammar,          \* the argument of `new`; holds self.select, never changed
  expressions, memos, contexts,
  zippers, changes, position,
  next_expression, next_memo, next_context,
  operations,       \* `derive`'s work list, top first
  next,             \* `derive`'s output zippers
  token,            \* `derive`'s argument, NoToken between two calls
  input,            \* history: the tokens consumed so far
  published         \* history: the next free IDs when `new` or the last
                    \* `derive` returned; IDs below are known to the caller

maps == <<expressions, memos, contexts>>
counters == <<next_expression, next_memo, next_context>>
\* What stays as it is while one derivative runs.
frame == <<grammar, zippers, position, token, input, published>>
vars == <<frame, maps, counters, changes, operations, next>>

Allocated(e, m, c) == [expression |-> e, memo |-> m, context |-> c]

NoToken == [terminal |-> None, payload |-> {}]

Idle == token = NoToken          \* no call of `derive` is in progress

\* The child a SELECT set rules out for the current lookahead is skipped;
\* a child without an entry never is.
Selected(child) ==
  child \in DOMAIN grammar.select => token.terminal \in grammar.select[child]

Completed(m) == memos[m].end = position

\* What a memo that has completed here owes a context that joins it.
DeliveryNone(memo, context) == <<>>    \* mutant: the late context is forgotten
DeliveryEager(memo, context) ==        \* mutant: completion is not asked for
  <<UpContextOp(memos[memo].result, context)>>
Delivery(memo, context) ==
  IF Completed(memo) THEN <<UpContextOp(memos[memo].result, context)>> ELSE <<>>

----------------------------------------------------------------------------
(* Insertions.  Each names the next free ID and logs the change.           *)

Insert(map, id, value) ==
  [x \in DOMAIN map \cup {id} |-> IF x = id THEN value ELSE map[x]]

InsertExpression(node) ==
  /\ next_expression < IdLimit
  /\ expressions' = Insert(expressions, next_expression,
                           [memo |-> None, fixed |-> TRUE, node |-> node])
  /\ next_expression' = next_expression + 1

InsertMemo(memo) ==
  /\ next_memo < IdLimit
  /\ memos' = Insert(memos, next_memo, memo)
  /\ next_memo' = next_memo + 1

InsertContext(context) ==
  /\ next_context < IdLimit
  /\ contexts' = Insert(contexts, next_context, context)
  /\ next_context' = next_context + 1

\* mutant: of several changes that one operation makes only the last is kept
LogLast(new) == changes' = Append(changes, new[Len(new)])
Log(new) == changes' = changes \o new

\* Pops the top operation and pushes `ops`, the first of them on top.
PushLast(ops) == operations' = Tail(operations) \o ops  \* mutant: a queue
Push(ops) == operations' = ops \o Tail(operations)

Popped(op) == operations # <<>> /\ Head(operations).op = op

----------------------------------------------------------------------------
(* `new`: the asserts on the grammar, then the initial zipper.             *)

WellFormed(g) ==
  /\ g.root \in DOMAIN g.expressions
  /\ DOMAIN g.expressions \subseteq 0 .. (IdLimit - 1)
  /\ g.expressions \in [DOMAIN g.expressions -> Node(DOMAIN g.expressions)]

\* No zipper at all for a root that is known to have no completion.
InitialZippers(g) ==
  IF g.expressions[g.root] = Alt(<<>>)
    THEN <<>>
    ELSE <<[focus |-> Seqn(Bottom, <<>>), memo |-> 1]>>

Init ==
  /\ grammar \in {g \in Grammars : WellFormed(g)}
  /\ expressions = [id \in DOMAIN grammar.expressions |->
       [memo |-> None, fixed |-> FALSE, node |-> grammar.expressions[id]]]
  /\ next_expression \in {id + 1 : id \in DOMAIN expressions}
  /\ \A id \in DOMAIN expressions : id < next_expression
  /\ memos = [m \in 0 .. 1 |-> FreshMemo(None, m)]
  /\ next_memo = 2
  /\ contexts = [c \in 0 .. 1 |->
       IF c = 0 THEN TopContext
                ELSE SeqContext(0, Bottom, <<>>, <<grammar.root>>)]
  /\ next_context = 2
  /\ zippers = InitialZippers(grammar)
  /\ changes = <<>>
  /\ position = 0
  /\ operations = <<>>
  /\ next = <<>>
  /\ token = NoToken
  /\ input = <<>>
  /\ published = Allocated(next_expression, next_memo, next_context)

----------------------------------------------------------------------------
(* `derive`: one Up per zipper, then the work list until it is empty.      *)

Derive(t) ==
  /\ Idle
  /\ Len(input) < MaxTokens
  /\ token' = t
  /\ operations' = [i \in 1 .. Len(zippers) |->
                      UpOp(zippers[i].focus, zippers[i].memo)]
  /\ zippers' = <<>>
  /\ next' = <<>>
  /\ UNCHANGED <<grammar, maps, counters, changes, position, input,
                 published>>

\* The change log is returned to the caller, which reads the maps with it.
EndDerive ==
  /\ ~Idle
  /\ operations = <<>>
  /\ zippers' = next
  /\ next' = <<>>
  /\ position' = position + 1
  /\ changes' = <<>>
  /\ input' = Append(input, token)
  /\ token' = NoToken
  /\ published' = Allocated(next_expression, next_memo, next_context)
  /\ UNCHANGED <<grammar, maps, counters, operations>>

(* `down`: an expression already entered at this position is shared, and   *)
(* one that has completed here too is delivered at once.                   *)

EnteredEver(e) ==                      \* mutant: a memo is shared for ever
  expressions[e].memo # None
EnteredCompleted(e) ==                 \* mutant: shared only once complete
  /\ expressions[e].memo # None
  /\ Completed(expressions[e].memo)
Entered(e) ==
  /\ expressions[e].memo # None
  /\ memos[expressions[e].memo].start = position

DownSharedAgain ==     \* mutant: every parent of the memo is reported again
  /\ Popped("Down")
  /\ Entered(Head(operations).expression)
  /\ LET context == Head(operations).context
         memo == expressions[Head(operations).expression].memo
         parents == Append(memos[memo].parents, context)
     IN /\ memos' = [memos EXCEPT ![memo].parents = parents]
        /\ Log([i \in DOMAIN parents |-> ParentAppended(memo, parents[i])])
        /\ Push(Delivery(memo, context))
  /\ UNCHANGED <<frame, expressions, contexts, counters, next>>

DownShared ==
  /\ Popped("Down")
  /\ Entered(Head(operations).expression)
  /\ LET context == Head(operations).context
         memo == expressions[Head(operations).expression].memo
     IN /\ memos' = [memos EXCEPT ![memo].parents = Append(@, context)]
        /\ Log(<<ParentAppended(memo, context)>>)
        /\ Push(Delivery(memo, context))
  /\ UNCHANGED <<frame, expressions, contexts, counters, next>>

DownEntered ==
  /\ Popped("Down")
  /\ ~Entered(Head(operations).expression)
  /\ LET context == Head(operations).context
         expression == Head(operations).expression
     IN /\ InsertMemo(FreshMemo(position, context))
        /\ Log(<<ParentAppended(next_memo, context)>>)
        /\ expressions' = [expressions EXCEPT ![expression].memo = next_memo]
        /\ Push(<<FreshOp(next_memo, expressions[expression].node)>>)
  /\ UNCHANGED <<frame, contexts, next_expression, next_context, next>>

(* `down_fresh`, by the kind of node.                                      *)

FreshTok ==
  /\ Popped("DownFresh")
  /\ Head(operations).node.tag = "Tok"
  /\ next' = IF token.terminal = Head(operations).node.terminal
               THEN Append(next, [focus |-> Seqn(TokenSymbol(token), <<>>),
                                  memo |-> Head(operations).memo])
               ELSE next
  /\ Push(<<>>)
  /\ UNCHANGED <<frame, maps, counters, changes>>

FreshEmptySeq ==
  /\ Popped("DownFresh")
  /\ Head(operations).node.tag = "Seq"
  /\ Head(operations).node.children = <<>>
  /\ Push(<<UpOp(Head(operations).node, Head(operations).memo)>>)
  /\ UNCHANGED <<frame, maps, counters, changes, next>>

\* The sequence gets a memo of its own below an Alt context, so that two ways
\* to complete it are packed into one alternative.
FreshSeq ==
  /\ Popped("DownFresh")
  /\ Head(operations).node.tag = "Seq"
  /\ Head(operations).node.children # <<>>
  /\ LET memo == Head(operations).memo
         node == Head(operations).node
         alternative == next_context
         sequence == next_context + 1
     IN /\ InsertMemo(FreshMemo(memos[memo].start, alternative))
        /\ sequence < IdLimit
        /\ contexts' = Insert(Insert(contexts, alternative, AltContext(memo)),
                              sequence,
                              SeqContext(next_memo, node.symbol, <<>>,
                                         Tail(node.children)))
        /\ next_context' = next_context + 2
        /\ Log(<<NewContext(alternative),
                 ParentAppended(next_memo, alternative),
                 NewContext(sequence)>>)
        /\ Push(<<DownOp(sequence, Head(node.children))>>)
  /\ UNCHANGED <<frame, expressions, next_expression, next>>

\* `kept` lists the children the SELECT sets leave, in source order.
FreshAlt ==
  /\ Popped("DownFresh")
  /\ Head(operations).node.tag = "Alt"
  /\ LET children == Head(operations).node.children
         entered == {i \in DOMAIN children : Selected(children[i])}
     IN \E kept \in [1 .. Cardinality(entered) -> entered] :
          /\ \A i, j \in DOMAIN kept : i < j => kept[i] < kept[j]
          /\ Push([i \in 1 .. Cardinality(entered) |->
                     DownOp(next_context, children[kept[i]])])
  /\ InsertContext(AltContext(Head(operations).memo))
  /\ Log(<<NewContext(next_context)>>)
  /\ UNCHANGED <<frame, expressions, memos, next_expression, next_memo, next>>

(* `up`: the memo completes here; every parent it has now hears of it.     *)

Up ==
  /\ Popped("Up")
  /\ LET memo == Head(operations).memo
         parents == memos[memo].parents
     IN /\ InsertExpression(Head(operations).node)
        /\ memos' = [memos EXCEPT ![memo].end = position,
                                  ![memo].result = next_expression]
        /\ Push([i \in 1 .. Len(parents) |->
                   UpContextOp(next_expression, parents[i])])
  /\ Log(<<NewExpression(next_expression)>>)
  /\ UNCHANGED <<frame, contexts, next_memo, next_context, next>>

(* `up_context`, by the kind of context.                                   *)

Rising(tag) ==
  /\ Popped("UpContext")
  /\ contexts[Head(operations).context].tag = tag

UpTop ==
  /\ Rising("Top")
  /\ Push(<<>>)
  /\ UNCHANGED <<frame, maps, counters, changes, next>>

UpLast ==
  /\ Rising("Seq")
  /\ LET context == contexts[Head(operations).context]
     IN /\ context.right = <<>>
        /\ Push(<<UpOp(Seqn(context.symbol,
                            Append(context.left, Head(operations).expression)),
                       context.memo)>>)
  /\ UNCHANGED <<frame, maps, counters, changes, next>>

UpNext ==
  /\ Rising("Seq")
  /\ LET context == contexts[Head(operations).context]
     IN /\ context.right # <<>>
        /\ InsertContext(SeqContext(context.memo, context.symbol,
                            Append(context.left, Head(operations).expression),
                            Tail(context.right)))
        /\ Push(<<DownOp(next_context, Head(context.right))>>)
  /\ Log(<<NewContext(next_context)>>)
  /\ UNCHANGED <<frame, expressions, memos, next_expression, next_memo, next>>

UpPackedEager ==       \* mutant: the parents hear again of a result that grew
  /\ Rising("Alt")
  /\ LET memo == contexts[Head(operations).context].memo
         child == Head(operations).expression
         alternative == memos[memo].result
         parents == memos[memo].parents
     IN /\ Completed(memo)
        /\ expressions' =
             [expressions EXCEPT ![alternative].node.children = Append(@, child)]
        /\ Log(<<ChildAppended(alternative, child)>>)
        /\ Push([i \in DOMAIN parents |-> UpContextOp(alternative, parents[i])])
  /\ UNCHANGED <<frame, memos, contexts, counters, next>>

\* A later alternative of a memo that has completed here joins its result.
UpPacked ==
  /\ Rising("Alt")
  /\ LET memo == contexts[Head(operations).context].memo
         child == Head(operations).expression
         alternative == memos[memo].result
     IN /\ Completed(memo)
        /\ expressions' =
             [expressions EXCEPT ![alternative].node.children = Append(@, child)]
        /\ Log(<<ChildAppended(alternative, child)>>)
        /\ Push(<<>>)
  /\ UNCHANGED <<frame, memos, contexts, counters, next>>

UpFirstUnwrapped ==    \* mutant: a sole alternative is not wrapped in an Alt
  /\ Rising("Alt")
  /\ LET memo == contexts[Head(operations).context].memo
     IN /\ ~Completed(memo)
        /\ Push(<<UpOp(expressions[Head(operations).expression].node, memo)>>)
  /\ UNCHANGED <<frame, maps, counters, changes, next>>

UpFirst ==
  /\ Rising("Alt")
  /\ LET memo == contexts[Head(operations).context].memo
     IN /\ ~Completed(memo)
        /\ Push(<<UpOp(Alt(<<Head(operations).expression>>), memo)>>)
  /\ UNCHANGED <<frame, maps, counters, changes, next>>

----------------------------------------------------------------------------
Step == \/ DownShared \/ DownEntered
        \/ FreshTok \/ FreshEmptySeq \/ FreshSeq \/ FreshAlt
        \/ Up \/ UpTop \/ UpLast \/ UpNext \/ UpPacked \/ UpFirst

Next == \/ \E t \in Tokens : Derive(t)
        \/ Step
        \/ EndDerive

Spec == Init /\ [][Next]_vars

\* `derive` runs to its end: its `while` loop is not preempted for ever.
FairSpec == Spec /\ WF_vars(Step \/ EndDerive)
----------------------------------------------------------------------------
(* Properties.                                                             *)

\* Every map and work item is well formed and no ID in them dangles, so none
\* of the code's "unknown ... ID" panics can be reached.
TypeOK ==
  LET E == DOMAIN expressions
      M == DOMAIN memos
      C == DOMAIN contexts
  IN /\ next_expression \in Nat /\ E \subseteq 0 .. (next_expression - 1)
     /\ next_memo \in Nat /\ M = 0 .. (next_memo - 1)
     /\ next_context \in Nat /\ C = 0 .. (next_context - 1)
     /\ expressions \in [E -> Expression(E, M)]
     /\ memos \in [M -> Memo(E, C)]
     /\ contexts \in [C -> Context(E, M)]
     /\ zippers \in Seq(Zipper(E, M))
     /\ next \in Seq(Zipper(E, M))
     /\ operations \in Seq(Operation(E, M, C))
     /\ changes \in Seq(Change(E, M, C))
     /\ position \in Nat
     /\ token \in Tokens \cup {NoToken}
     /\ published \in [expression : Nat, memo : Nat, context : Nat]

\* Memo m has its completions packed into one Alt expression, or gathers the
\* children of a sequence.
AltTarget(m) ==
  \E c \in DOMAIN contexts : contexts[c].tag = "Alt" /\ contexts[c].memo = m
SeqTarget(m) ==
  \E c \in DOMAIN contexts : contexts[c].tag = "Seq" /\ contexts[c].memo = m

\* A completed memo has a result, and the result of a memo below which
\* alternatives are packed is an Alt expression made by the parse: the three
\* panics of `down`, `up_context` and `append_alternative_child` are dead code.
PackedResults ==
  /\ \A m \in DOMAIN memos :
       memos[m].end # None =>
         /\ memos[m].result # None
         /\ expressions[memos[m].result].fixed
         /\ AltTarget(m) => expressions[memos[m].result].node.tag = "Alt"

\* An expression packs all its alternatives of one span into one result: once
\* it has completed at a position it gets no second result there, whatever the
\* order in which the alternatives arrive.
KeepsResults ==
  \A m \in DOMAIN memos :
    AltTarget(m) /\ Completed(m) /\ position' = position
      => memos'[m].result = memos[m].result

OneResultPerSpan == [][KeepsResults]_vars

\* What a derivative returned is never rewritten: a later one neither adds an
\* alternative to an expression the caller knows nor a parent to such a memo.
KeepsPublished ==
  /\ \A e \in DOMAIN expressions :
       e < published.expression =>
         /\ expressions'[e].node = expressions[e].node
         /\ expressions'[e].fixed = expressions[e].fixed
  /\ \A m \in DOMAIN memos :
       m < published.memo => memos'[m].parents = memos[m].parents

PublishedFrozen == [][KeepsPublished]_vars

\* What the maps hold beyond what the caller knows: expressions and contexts
\* made since it last looked, the parents of the new memos, and the alternatives
\* that the new expressions have got beyond the one they were made with.
GrownExpressions ==
  {NewExpression(e) : e \in {x \in DOMAIN expressions : x >= published.expression}}
GrownContexts ==
  {NewContext(c) : c \in {x \in DOMAIN contexts : x >= published.context}}
GrownParents ==
  UNION {{ParentAppended(m, c) : c \in Range(memos[m].parents)} :
         m \in {x \in DOMAIN memos : x >= published.memo}}
GrownChildren ==
  UNION {{ChildAppended(e, c) : c \in Range(Tail(expressions[e].node.children))} :
         e \in {x \in DOMAIN expressions : /\ x >= published.expression
                                          /\ expressions[x].node.tag = "Alt"}}

\* The changes logged so far tell all of the growth and nothing else, between
\* any two operations of a derivative.
ChangesComplete ==
  ~Idle => Range(changes) = GrownExpressions \cup GrownContexts
                              \cup GrownParents \cup GrownChildren

\* No change is reported twice, which would make a consumer do its work twice.
ChangesOnce == IsInjective(changes)

\* However ambiguous the prefix, there is at most one zipper for each place the
\* grammar names the last token's terminal: shared entry keeps the frontier
\* from growing with the input.
FrontierBounded ==
  Idle /\ input # <<>> =>
    Len(zippers) <= Cardinality({e \in DOMAIN grammar.expressions :
        grammar.expressions[e] = Tok(input[Len(input)].terminal)})

\* Every call of `derive` returns, also for a grammar in which an expression
\* can rewrite to itself.
DeriveReturns == ~Idle ~> Idle

----------------------------------------------------------------------------
(* What ChangesOnce asks of the grammars.                                  *)

\* The node names no alternative twice.
Distinct(node) == node.tag = "Alt" => IsInjective(node.children)

\* `new` does not ask for it; the grammar compiler, which makes one child of a
\* nonterminal for each of its productions, grants it.
DistinctAlternatives ==
  \A g \in Grammars : \A e \in DOMAIN g.expressions : Distinct(g.expressions[e])

----------------------------------------------------------------------------
(* The inductive invariant behind the theorems of PwzProofs.               *)

\* Stamps lie in the past, and what carries the current position was made by
\* the derivative in progress.
Stamped ==
  /\ Idle => operations = <<>>
  /\ ~Idle => zippers = <<>>
  /\ published.expression <= next_expression
  /\ published.memo <= next_memo
  /\ \A m \in DOMAIN memos :
       /\ memos[m].start <= position
       /\ memos[m].end <= position
       /\ memos[m].start = position => ~Idle /\ m >= published.memo
       /\ Completed(m) => ~Idle /\ memos[m].result >= published.expression

\* A memo has one role: a token's, a packer of alternatives, or a gatherer.
Roles ==
  /\ \A m \in DOMAIN memos : ~(AltTarget(m) /\ SeqTarget(m))
  /\ \A z \in DOMAIN zippers : ~AltTarget(zippers[z].memo)
  /\ \A z \in DOMAIN next : ~AltTarget(next[z].memo)

\* A memo just entered is on top of the work list and nothing refers to it yet.
Unclaimed(m) ==
  /\ memos[m].end = None
  /\ ~AltTarget(m) /\ ~SeqTarget(m)
  /\ \A z \in DOMAIN next : next[z].memo # m
  /\ \A i \in DOMAIN operations : operations[i].op = "Up" => operations[i].memo # m

\* Only the top of the work list can enter a memo or complete a packer.
WorkOrdered ==
  \A i \in DOMAIN operations :
    /\ operations[i].op = "DownFresh" => i = 1 /\ Unclaimed(operations[i].memo)
    /\ operations[i].op = "Up" /\ AltTarget(operations[i].memo) =>
         /\ i = 1
         /\ ~Completed(operations[i].memo)
         /\ operations[i].node.tag = "Alt"

Inductive == TypeOK /\ PackedResults /\ Stamped /\ Roles /\ WorkOrdered
=============================================================================
