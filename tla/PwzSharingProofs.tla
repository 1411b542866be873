-------------------------- MODULE PwzSharingProofs --------------------------
(***************************************************************************)
(* What the sharing of memos gives, for every grammar, token set and bound:*)
(* a derivative leaves at most one zipper for each place where the grammar *)
(* names the token's terminal, and, for every grammar whose alternatives   *)
(* name no child twice, it reports no change twice.                        *)
(***************************************************************************)
EXTENDS PwzProofs

----------------------------------------------------------------------------
(* The frontier: the inductive invariant.                                  *)

\* Token leaves are the grammar's own: the parse makes sequences and
\* alternatives only.
LeavesGiven ==
  /\ \A e \in DOMAIN expressions :
       expressions[e].node.tag = "Tok" =>
         /\ e \in DOMAIN grammar.expressions
         /\ grammar.expressions[e] = expressions[e].node
  /\ \A i \in DOMAIN operations :
       operations[i].op = "Up" => operations[i].node.tag # "Tok"
  /\ \A z \in DOMAIN zippers : zippers[z].focus.tag # "Tok"
  /\ \A z \in DOMAIN next : next[z].focus.tag # "Tok"

\* Memo m was made at this position, for expression e.
Owns(e, m) ==
  /\ e \in DOMAIN expressions /\ m \in DOMAIN memos
  /\ expressions[e].memo = m
  /\ memos[m].start = position

\* A memo has one expression, and one zipper waits in it at most: it is the
\* memo of a leaf that names the token.
MemosOwned ==
  /\ \A e, f \in DOMAIN expressions :
       expressions[e].memo # None /\ expressions[e].memo = expressions[f].memo => e = f
  /\ \A i \in DOMAIN operations :
       operations[i].op = "DownFresh" =>
         \E e \in DOMAIN expressions : /\ Owns(e, operations[i].memo)
                                       /\ expressions[e].node = operations[i].node
  /\ \A z \in DOMAIN next :
       \E e \in DOMAIN expressions : /\ Owns(e, next[z].memo)
                                     /\ expressions[e].node = Tok(token.terminal)
  /\ \A y, z \in DOMAIN next : next[y].memo = next[z].memo => y = z

Frontier ==
  /\ input \in Seq(Tokens)
  /\ IsFiniteSet(DOMAIN grammar.expressions)
  /\ FrontierBounded

Bounded == Inductive /\ LeavesGiven /\ MemosOwned /\ Frontier

----------------------------------------------------------------------------
(* When an operation keeps it.                                             *)

\* What is pushed enters no memo and completes none with a leaf.
LEMMA PlainWork ==
  ASSUME Bounded, operations # <<>>,
         NEW T, NEW ops \in Seq(T), Push(ops),
         \A k \in DOMAIN ops : /\ ops[k].op # "DownFresh"
                               /\ ops[k].op = "Up" => ops[k].node.tag # "Tok"
  PROVE  \A i \in DOMAIN operations' :
           /\ operations'[i].op # "DownFresh"
           /\ operations'[i].op = "Up" => operations'[i].node.tag # "Tok"
<1> TAKE i \in DOMAIN operations'
<1>1. DOMAIN ops = 1 .. Len(ops)
  BY LenProperties
<1>2. \/ i \in 1 .. Len(ops) /\ operations'[i] = ops[i]
      \/ \E j \in DOMAIN operations : j > 1 /\ operations'[i] = operations[j]
  BY PushEntries DEF Bounded, Inductive, TypeOK
<1>3. ASSUME NEW j \in DOMAIN operations, j > 1
      PROVE  /\ operations[j].op # "DownFresh"
             /\ operations[j].op = "Up" => operations[j].node.tag # "Tok"
  BY <1>3, DeepEntry DEF Bounded, Inductive, LeavesGiven
<1> QED  BY <1>1, <1>2, <1>3

\* The special cases: nothing is pushed,
LEMMA PlainWorkNone ==
  ASSUME Bounded, operations # <<>>, Push(<<>>)
  PROVE  \A i \in DOMAIN operations' :
           /\ operations'[i].op # "DownFresh"
           /\ operations'[i].op = "Up" => operations'[i].node.tag # "Tok"
<1>1. <<>> \in Seq({}) /\ DOMAIN <<>> = {}
  OBVIOUS
<1> QED  BY <1>1, PlainWork

\* or one item.
LEMMA PlainWorkOne ==
  ASSUME Bounded, operations # <<>>, NEW op, Push(<<op>>),
         op.op # "DownFresh", op.op = "Up" => op.node.tag # "Tok"
  PROVE  \A i \in DOMAIN operations' :
           /\ operations'[i].op # "DownFresh"
           /\ operations'[i].op = "Up" => operations'[i].node.tag # "Tok"
<1>1. <<op>> \in Seq({op}) /\ DOMAIN <<op>> = {1} /\ <<op>>[1] = op
  OBVIOUS
<1> QED  BY <1>1, PlainWork

\* An operation keeps the invariant, except for what it leaves on the work list
\* and in the output, if it makes no leaf and takes no memo of this position
\* from its expression.
LEMMA LeavesKept ==
  ASSUME Bounded, operations # <<>>, UNCHANGED frame,
         \A e \in DOMAIN expressions' : expressions'[e].node.tag = "Tok" =>
           e \in DOMAIN expressions /\ expressions'[e].node = expressions[e].node
  PROVE  /\ \A e \in DOMAIN expressions' :
              expressions'[e].node.tag = "Tok" =>
                /\ e \in DOMAIN grammar'.expressions
                /\ grammar'.expressions[e] = expressions'[e].node
         /\ \A z \in DOMAIN zippers' : zippers'[z].focus.tag # "Tok"
         /\ Frontier'
<1>1. grammar' = grammar /\ zippers' = zippers /\ input' = input /\ token' = token
  BY DEF frame
<1>2. ~Idle /\ ~Idle'
  BY <1>1, Running DEF Bounded, Inductive, Idle
<1>3. Frontier'
  BY <1>1, <1>2 DEF Bounded, Frontier, FrontierBounded
<1>4. \A e \in DOMAIN expressions' : expressions'[e].node.tag = "Tok" =>
        e \in DOMAIN expressions /\ expressions'[e].node = expressions[e].node
  OBVIOUS
<1>5. \A z \in DOMAIN zippers' : zippers'[z].focus.tag # "Tok"
  BY <1>1 DEF Bounded, LeavesGiven
<1> QED  BY <1>1, <1>3, <1>4, <1>5 DEF Bounded, LeavesGiven

\* The zippers in the output still wait in memos of leaves.
LEMMA OutputKept ==
  ASSUME Bounded, operations # <<>>, UNCHANGED frame,
         DOMAIN expressions \subseteq DOMAIN expressions',
         \A e \in DOMAIN expressions : expressions[e].node.tag = "Tok" =>
           expressions'[e].node = expressions[e].node,
         \A e \in DOMAIN expressions : \A m \in DOMAIN memos :
           Owns(e, m) => expressions'[e].memo = m,
         DOMAIN memos \subseteq DOMAIN memos',
         \A m \in DOMAIN memos : memos'[m].start = memos[m].start
  PROVE  \A z \in DOMAIN next : \A m : m = next[z].memo =>
           \E e \in DOMAIN expressions' :
             Owns(e, m)' /\ expressions'[e].node = Tok(token'.terminal)
<1> TAKE z \in DOMAIN next
<1>1. PICK e \in DOMAIN expressions :
        Owns(e, next[z].memo) /\ expressions[e].node = Tok(token.terminal)
  BY DEF Bounded, MemosOwned
<1>2. token' = token /\ position' = position
  BY DEF frame
<1>3. expressions[e].node.tag = "Tok"
  BY <1>1 DEF Tok
<1>4. /\ e \in DOMAIN expressions' /\ next[z].memo \in DOMAIN memos'
      /\ expressions'[e].memo = next[z].memo
      /\ memos'[next[z].memo].start = position
  BY <1>1 DEF Owns
<1>5. expressions'[e].node = Tok(token'.terminal)
  BY <1>1, <1>2, <1>3
<1> QED  BY <1>2, <1>4, <1>5 DEF Owns

\* An operation keeps the invariant if it adds no zipper, enters no memo, makes
\* no leaf and leaves every expression its memo.
LEMMA PlainStep ==
  ASSUME Bounded, operations # <<>>, UNCHANGED frame, next' = next,
         \A e \in DOMAIN expressions :
           /\ e \in DOMAIN expressions'
           /\ expressions'[e].memo = expressions[e].memo
           /\ expressions'[e].node.tag = expressions[e].node.tag
           /\ expressions[e].node.tag = "Tok" =>
                expressions'[e].node = expressions[e].node,
         \A e \in DOMAIN expressions' : e \notin DOMAIN expressions =>
           expressions'[e].memo = None /\ expressions'[e].node.tag # "Tok",
         DOMAIN memos \subseteq DOMAIN memos',
         \A m \in DOMAIN memos : memos'[m].start = memos[m].start,
         \A i \in DOMAIN operations' :
           /\ operations'[i].op # "DownFresh"
           /\ operations'[i].op = "Up" => operations'[i].node.tag # "Tok"
  PROVE  LeavesGiven' /\ MemosOwned' /\ Frontier'
<1>1. /\ \A e \in DOMAIN expressions' :
           expressions'[e].node.tag = "Tok" =>
             /\ e \in DOMAIN grammar'.expressions
             /\ grammar'.expressions[e] = expressions'[e].node
      /\ \A z \in DOMAIN zippers' : zippers'[z].focus.tag # "Tok"
      /\ Frontier'
  <2>1. \A e \in DOMAIN expressions' : expressions'[e].node.tag = "Tok" =>
          e \in DOMAIN expressions /\ expressions'[e].node = expressions[e].node
    OBVIOUS
  <2> QED  BY <2>1, LeavesKept
<1>2. LeavesGiven'
  BY <1>1 DEF LeavesGiven, Bounded
<1>3. \A z \in DOMAIN next : \A m : m = next[z].memo =>
        \E e \in DOMAIN expressions' :
          Owns(e, m)' /\ expressions'[e].node = Tok(token'.terminal)
  <2>1. \A e \in DOMAIN expressions : \A m \in DOMAIN memos :
          Owns(e, m) => expressions'[e].memo = m
    BY DEF Owns
  <2>2. DOMAIN expressions \subseteq DOMAIN expressions'
    OBVIOUS
  <2> QED  BY <2>1, <2>2, OutputKept
<1>4. \A e, f \in DOMAIN expressions' :
        expressions'[e].memo # None /\ expressions'[e].memo = expressions'[f].memo
          => e = f
  BY DEF Bounded, MemosOwned
<1>5. \A z \in DOMAIN next' : \E e \in DOMAIN expressions' :
        Owns(e, next[z].memo)' /\ expressions'[e].node = Tok(token'.terminal)
  BY <1>3 DEF Owns
<1>6. MemosOwned'
  BY <1>4, <1>5 DEF Bounded, MemosOwned, Owns
<1> QED  BY <1>1, <1>2, <1>6

----------------------------------------------------------------------------
(* Each operation keeps it.                                                *)

\* The operations that write no map: an empty sequence, the last child of one
\* and the first alternative complete a memo, with no leaf.
LEMMA CompletionBounded ==
  ASSUME Bounded, FreshEmptySeq \/ UpLast \/ UpFirst
  PROVE  LeavesGiven' /\ MemosOwned' /\ Frontier'
<1>1. PICK node, memo : Push(<<UpOp(node, memo)>>) /\ node.tag # "Tok"
  <2>1. CASE FreshEmptySeq
    BY <2>1 DEF FreshEmptySeq
  <2>2. CASE UpLast
    BY <2>2 DEF UpLast, Seqn
  <2>3. CASE UpFirst
    BY <2>3 DEF UpFirst, Alt
  <2> QED  BY <2>1, <2>2, <2>3
<1>2. /\ operations # <<>> /\ UNCHANGED frame /\ next' = next
      /\ expressions' = expressions /\ memos' = memos
  BY DEF FreshEmptySeq, UpLast, UpFirst, Rising, Popped, maps
<1>3. /\ UpOp(node, memo).op # "DownFresh"
      /\ UpOp(node, memo).op = "Up" => UpOp(node, memo).node.tag # "Tok"
  BY <1>1 DEF UpOp
<1>4. \A i \in DOMAIN operations' :
        /\ operations'[i].op # "DownFresh"
        /\ operations'[i].op = "Up" => operations'[i].node.tag # "Tok"
  BY <1>1, <1>2, <1>3, PlainWorkOne
<1> QED  BY <1>2, <1>4, PlainStep

\* The root's completion is not passed on.
LEMMA UpTopBounded ==
  ASSUME Bounded, UpTop
  PROVE  LeavesGiven' /\ MemosOwned' /\ Frontier'
<1>1. /\ operations # <<>> /\ UNCHANGED frame /\ next' = next /\ Push(<<>>)
      /\ expressions' = expressions /\ memos' = memos
  BY DEF UpTop, Rising, Popped, maps
<1> QED  BY <1>1, PlainWorkNone, PlainStep

\* A shared entry only adds a parent, and passes on a completion.
LEMMA DownSharedBounded ==
  ASSUME Bounded, DownShared
  PROVE  LeavesGiven' /\ MemosOwned' /\ Frontier'
<1> DEFINE o == Head(operations)
           memo == expressions[o.expression].memo
           op == UpContextOp(memos[memo].result, o.context)
<1>1. /\ operations # <<>> /\ UNCHANGED frame /\ next' = next
      /\ expressions' = expressions
      /\ memos' = [memos EXCEPT ![memo].parents = Append(@, o.context)]
      /\ Push(Delivery(memo, o.context))
  BY DEF DownShared, Popped
<1>2. /\ DOMAIN memos' = DOMAIN memos
      /\ \A m \in DOMAIN memos : memos'[m].start = memos[m].start
  BY <1>1 DEF Bounded, Inductive, TypeOK, Memo
<1>3. \A i \in DOMAIN operations' :
        /\ operations'[i].op # "DownFresh"
        /\ operations'[i].op = "Up" => operations'[i].node.tag # "Tok"
  <2>1. op.op # "DownFresh" /\ op.op # "Up"
    BY DEF UpContextOp
  <2>2. Push(<<>>) \/ Push(<<op>>)
    BY <1>1 DEF Delivery
  <2> HIDE DEF op
  <2> QED  BY <1>1, <2>1, <2>2, PlainWorkNone, PlainWorkOne
<1> QED  BY <1>1, <1>2, <1>3, PlainStep

\* A sequence takes a memo of its own, which belongs to no expression.
LEMMA FreshSeqBounded ==
  ASSUME Bounded, FreshSeq
  PROVE  LeavesGiven' /\ MemosOwned' /\ Frontier'
<1> DEFINE o == Head(operations)
           op == DownOp(next_context + 1, Head(o.node.children))
           memo == FreshMemo(memos[o.memo].start, next_context)
<1>1. /\ operations # <<>> /\ UNCHANGED frame /\ next' = next
      /\ expressions' = expressions /\ Push(<<op>>)
      /\ memos' = Insert(memos, next_memo, memo)
  BY DEF FreshSeq, Popped, InsertMemo
<1>2. op.op # "DownFresh" /\ op.op # "Up"
  BY DEF DownOp
<1> HIDE DEF op, memo
<1>3. /\ DOMAIN memos \subseteq DOMAIN memos'
      /\ \A m \in DOMAIN memos : memos'[m].start = memos[m].start
  BY <1>1 DEF Bounded, Inductive, TypeOK, Insert
<1>4. \A i \in DOMAIN operations' :
        /\ operations'[i].op # "DownFresh"
        /\ operations'[i].op = "Up" => operations'[i].node.tag # "Tok"
  BY <1>1, <1>2, PlainWorkOne
<1> QED  BY <1>1, <1>3, <1>4, PlainStep

\* An alternative goes down into its children.
LEMMA FreshAltBounded ==
  ASSUME Bounded, FreshAlt
  PROVE  LeavesGiven' /\ MemosOwned' /\ Frontier'
<1> DEFINE o == Head(operations)
           children == o.node.children
           entered == {i \in DOMAIN children : Selected(children[i])}
           ops(kept) == [i \in 1 .. Cardinality(entered) |->
                           DownOp(next_context, children[kept[i]])]
<1>1. /\ operations # <<>> /\ children \in Seq(DOMAIN expressions)
      /\ UNCHANGED frame /\ expressions' = expressions /\ memos' = memos
      /\ next' = next
  BY PoppedType, OperationFields, NodeFields DEF FreshAlt, Bounded, Inductive
<1>2. \A i \in DOMAIN operations' :
        /\ operations'[i].op # "DownFresh"
        /\ operations'[i].op = "Up" => operations'[i].node.tag # "Tok"
  <2>1. PICK kept \in [1 .. Cardinality(entered) -> entered] : Push(ops(kept))
    BY DEF FreshAlt
  <2>2. Cardinality(entered) \in Nat
    <3>1. DOMAIN children = 1 .. Len(children) /\ Len(children) \in Nat
      BY <1>1, LenProperties
    <3>2. IsFiniteSet(DOMAIN children)
      BY <3>1, FS_Interval
    <3> QED  BY <3>2, FS_Subset, FS_CardinalityType
  <2>3. ops(kept) \in Seq({ops(kept)[i] : i \in 1 .. Cardinality(entered)})
    BY <2>2, FunctionSeq
  <2>4. \A k \in DOMAIN ops(kept) :
          ops(kept)[k].op # "DownFresh" /\ ops(kept)[k].op # "Up"
    BY DEF DownOp
  <2> HIDE DEF ops
  <2> QED  BY <1>1, <2>1, <2>3, <2>4, PlainWork
<1> QED  BY <1>1, <1>2, PlainStep

\* A sequence that moves on goes down into its next child.
LEMMA UpNextBounded ==
  ASSUME Bounded, UpNext
  PROVE  LeavesGiven' /\ MemosOwned' /\ Frontier'
<1> DEFINE op == DownOp(next_context, Head(contexts[Head(operations).context].right))
<1>1. /\ operations # <<>> /\ UNCHANGED frame /\ next' = next /\ Push(<<op>>)
      /\ expressions' = expressions /\ memos' = memos
  BY DEF UpNext, Rising, Popped
<1>2. op.op # "DownFresh" /\ op.op # "Up"
  BY DEF DownOp
<1> HIDE DEF op
<1> QED  BY <1>1, <1>2, PlainWorkOne, PlainStep

\* A completion makes an expression that has no memo and is no leaf.
LEMMA UpBounded ==
  ASSUME Bounded, Up
  PROVE  LeavesGiven' /\ MemosOwned' /\ Frontier'
<1> DEFINE o == Head(operations)
           parents == memos[o.memo].parents
           ops == [i \in 1 .. Len(parents) |->
                     UpContextOp(next_expression, parents[i])]
<1>1. /\ operations # <<>> /\ Push(ops) /\ UNCHANGED frame /\ next' = next
      /\ expressions' = Insert(expressions, next_expression,
                               [memo |-> None, fixed |-> TRUE, node |-> o.node])
  BY DEF Up, Popped, InsertExpression
<1>2. /\ next_expression \notin DOMAIN expressions
      /\ \A e \in DOMAIN expressions : expressions'[e] = expressions[e]
      /\ DOMAIN memos' = DOMAIN memos
      /\ \A m \in DOMAIN memos : memos'[m].start = memos[m].start
      /\ o.memo \in DOMAIN memos /\ o.op = "Up"
      /\ o = operations[1] /\ 1 \in DOMAIN operations
  BY UpEffect DEF Bounded, Inductive
<1>3. o.node.tag # "Tok"
  BY <1>2 DEF Bounded, LeavesGiven
<1>4. /\ DOMAIN expressions' = DOMAIN expressions \cup {next_expression}
      /\ expressions'[next_expression].memo = None
      /\ expressions'[next_expression].node.tag # "Tok"
  BY <1>1, <1>3 DEF Insert
<1>5. \A i \in DOMAIN operations' :
        /\ operations'[i].op # "DownFresh"
        /\ operations'[i].op = "Up" => operations'[i].node.tag # "Tok"
  <2>1. Len(parents) \in Nat
    BY <1>2, LenProperties DEF Bounded, Inductive, TypeOK, Memo
  <2>2. ops \in Seq({ops[i] : i \in 1 .. Len(parents)})
    BY <2>1, FunctionSeq
  <2>3. \A k \in DOMAIN ops : ops[k].op # "DownFresh" /\ ops[k].op # "Up"
    BY DEF UpContextOp
  <2> HIDE DEF ops
  <2> QED  BY <1>1, <2>2, <2>3, PlainWork
<1> HIDE DEF o, ops
<1> QED  BY <1>1, <1>2, <1>4, <1>5, PlainStep

\* Packing changes the children of an alternative.
LEMMA UpPackedBounded ==
  ASSUME Bounded, UpPacked
  PROVE  LeavesGiven' /\ MemosOwned' /\ Frontier'
<1> DEFINE memo == contexts[Head(operations).context].memo
           child == Head(operations).expression
           alternative == memos[memo].result
<1>1. /\ operations # <<>> /\ Push(<<>>) /\ UNCHANGED frame
      /\ memos' = memos /\ next' = next
      /\ expressions' =
           [expressions EXCEPT ![alternative].node.children = Append(@, child)]
  BY DEF UpPacked, Rising, Popped
<1>2. /\ AltTarget(memo) /\ Completed(memo) /\ memo \in DOMAIN memos
  <2>1. Rising("Alt")
    BY DEF UpPacked
  <2>2. /\ Head(operations).context \in DOMAIN contexts
        /\ contexts[Head(operations).context].tag = "Alt"
    BY <2>1, RisingType DEF Bounded, Inductive
  <2>3. memo \in DOMAIN memos /\ Completed(memo)
    BY UpPackedEffect DEF Bounded, Inductive
  <2> QED  BY <2>2, <2>3 DEF AltTarget
<1>3. /\ alternative \in DOMAIN expressions
      /\ expressions[alternative].node.tag = "Alt"
  BY <1>2, CompletedResult DEF Bounded, Inductive
<1> HIDE DEF memo, alternative, child
<1>4. /\ DOMAIN expressions' = DOMAIN expressions
      /\ \A e \in DOMAIN expressions :
           e # alternative => expressions'[e] = expressions[e]
      /\ expressions'[alternative].memo = expressions[alternative].memo
      /\ expressions'[alternative].node.tag = "Alt"
  <2>1. /\ expressions[alternative] \in Expression(DOMAIN expressions, DOMAIN memos)
        /\ expressions[alternative].node = Alt(expressions[alternative].node.children)
    <3>1. expressions[alternative] \in Expression(DOMAIN expressions, DOMAIN memos)
      BY <1>3 DEF Bounded, Inductive, TypeOK
    <3>2. expressions[alternative].node \in Node(DOMAIN expressions)
      BY <3>1 DEF Expression
    <3> QED  BY <1>3, <3>1, <3>2, NodeFields
  <2> QED  BY <1>1, <1>3, <2>1 DEF Expression, Alt
<1> QED  BY <1>1, <1>3, <1>4, PlainWorkNone, PlainStep

\* An expression that is entered gets a memo that no other one has; the one it
\* had was made at an earlier position, so no zipper of this derivative waits
\* in it.
LEMMA DownEnteredBounded ==
  ASSUME Bounded, DownEntered
  PROVE  LeavesGiven' /\ MemosOwned' /\ Frontier'
<1> DEFINE o == Head(operations)
           x == o.expression
           op == FreshOp(next_memo, expressions[x].node)
<1>1. /\ operations # <<>> /\ UNCHANGED frame /\ next' = next /\ Push(<<op>>)
      /\ ~Entered(x)
      /\ memos' = Insert(memos, next_memo, FreshMemo(position, o.context))
      /\ expressions' = [expressions EXCEPT ![x].memo = next_memo]
  BY DEF DownEntered, Popped, InsertMemo
<1>2. x \in DOMAIN expressions
  <2>1. /\ o \in Operation(DOMAIN expressions, DOMAIN memos, DOMAIN contexts)
        /\ o.op = "Down"
    BY PoppedType DEF DownEntered, Bounded, Inductive
  <2> QED  BY <2>1, OperationFields
<1>3. /\ next_memo \notin DOMAIN memos /\ next_memo # None
      /\ DOMAIN memos' = DOMAIN memos \cup {next_memo}
      /\ memos'[next_memo].start = position
      /\ \A m \in DOMAIN memos : memos'[m].start = memos[m].start
  BY <1>1 DEF Bounded, Inductive, TypeOK, Insert, FreshMemo, None
<1>4. /\ DOMAIN expressions' = DOMAIN expressions
      /\ expressions'[x].memo = next_memo
      /\ \A e \in DOMAIN expressions :
           /\ expressions'[e].node = expressions[e].node
           /\ e # x => expressions'[e].memo = expressions[e].memo
           /\ expressions[e].memo # next_memo
  <2>1. \A e \in DOMAIN expressions :
          expressions[e] \in Expression(DOMAIN expressions, DOMAIN memos)
    BY DEF Bounded, Inductive, TypeOK
  <2>2. \A e \in DOMAIN expressions : expressions[e].memo # next_memo
    BY <1>3, <2>1 DEF Expression, Option
  <2> QED  BY <1>1, <1>2, <2>1, <2>2 DEF Expression
<1>5. ASSUME NEW i \in DOMAIN operations'
      PROVE  \/ operations'[i] = op
             \/ /\ operations'[i].op # "DownFresh"
                /\ operations'[i].op = "Up" => operations'[i].node.tag # "Tok"
  <2>1. /\ <<op>> \in Seq({op}) /\ 1 .. Len(<<op>>) = {1} /\ <<op>>[1] = op
    OBVIOUS
  <2> HIDE DEF op
  <2>2. \/ i \in 1 .. Len(<<op>>) /\ operations'[i] = <<op>>[i]
        \/ \E j \in DOMAIN operations : j > 1 /\ operations'[i] = operations[j]
    BY <1>1, <2>1, PushEntries DEF Bounded, Inductive, TypeOK
  <2>3. ASSUME NEW j \in DOMAIN operations, j > 1
        PROVE  /\ operations[j].op # "DownFresh"
               /\ operations[j].op = "Up" => operations[j].node.tag # "Tok"
    BY <2>3, DeepEntry DEF Bounded, Inductive, LeavesGiven
  <2> QED  BY <2>1, <2>2, <2>3
<1>6. LeavesGiven' /\ Frontier'
  <2>1. op.op # "Up"
    BY DEF FreshOp
  <2> HIDE DEF op
  <2>2. /\ \A e \in DOMAIN expressions' :
             expressions'[e].node.tag = "Tok" =>
               /\ e \in DOMAIN grammar'.expressions
               /\ grammar'.expressions[e] = expressions'[e].node
        /\ \A z \in DOMAIN zippers' : zippers'[z].focus.tag # "Tok"
        /\ Frontier'
    <3>1. \A e \in DOMAIN expressions' : expressions'[e].node.tag = "Tok" =>
            e \in DOMAIN expressions /\ expressions'[e].node = expressions[e].node
      BY <1>4
    <3> HIDE DEF x
    <3> QED  BY <1>1, <3>1, LeavesKept
  <2>3. \A i \in DOMAIN operations' :
          operations'[i].op = "Up" => operations'[i].node.tag # "Tok"
    BY <1>5, <2>1
  <2> QED  BY <1>1, <2>2, <2>3 DEF LeavesGiven, Bounded
<1>7. \A e, f \in DOMAIN expressions' :
        expressions'[e].memo # None /\ expressions'[e].memo = expressions'[f].memo
          => e = f
  BY <1>2, <1>4 DEF Bounded, MemosOwned
<1>8. ASSUME NEW i \in DOMAIN operations', operations'[i].op = "DownFresh"
      PROVE  \E e \in DOMAIN expressions' :
               /\ operations'[i].memo \in DOMAIN memos'
               /\ expressions'[e].memo = operations'[i].memo
               /\ memos'[operations'[i].memo].start = position'
               /\ expressions'[e].node = operations'[i].node
  <2>1. operations'[i] = op
    BY <1>5, <1>8
  <2>2. operations'[i].memo = next_memo /\ operations'[i].node = expressions[x].node
    BY <2>1 DEF FreshOp
  <2>3. position' = position
    BY <1>1 DEF frame
  <2> QED  BY <1>2, <1>3, <1>4, <2>2, <2>3
<1>9. \A z \in DOMAIN next : \A m : m = next[z].memo =>
        \E e \in DOMAIN expressions' :
          Owns(e, m)' /\ expressions'[e].node = Tok(token'.terminal)
  <2>1. \A e \in DOMAIN expressions : \A m \in DOMAIN memos :
          Owns(e, m) => expressions'[e].memo = m
    <3>1. ASSUME NEW m \in DOMAIN memos PROVE ~Owns(x, m)
      <4>1. m # None
        BY DEF Bounded, Inductive, TypeOK, None
      <4> QED  BY <1>1, <4>1 DEF Owns, Entered
    <3> QED  BY <1>4, <3>1 DEF Owns
  <2>2. DOMAIN expressions \subseteq DOMAIN expressions' /\ DOMAIN memos \subseteq DOMAIN memos'
    BY <1>3, <1>4
  <2> HIDE DEF x
  <2> QED  BY <1>1, <1>3, <1>4, <2>1, <2>2, OutputKept
<1>10. \A z \in DOMAIN next' : \E e \in DOMAIN expressions' :
         Owns(e, next[z].memo)' /\ expressions'[e].node = Tok(token'.terminal)
  BY <1>1, <1>9 DEF Owns
<1>11. \A y, z \in DOMAIN next' : next'[y].memo = next'[z].memo => y = z
  BY <1>1 DEF Bounded, MemosOwned
<1>12. MemosOwned'
  BY <1>1, <1>7, <1>8, <1>10, <1>11 DEF MemosOwned, Owns
<1> QED  BY <1>6, <1>12

\* A leaf that names the token leaves one zipper, in the memo just entered.
LEMMA FreshTokBounded ==
  ASSUME Bounded, FreshTok
  PROVE  LeavesGiven' /\ MemosOwned' /\ Frontier'
<1> DEFINE o == Head(operations)
           zipper == [focus |-> Seqn(TokenSymbol(token), <<>>), memo |-> o.memo]
<1>1. /\ operations # <<>> /\ UNCHANGED frame /\ Push(<<>>)
      /\ expressions' = expressions /\ memos' = memos
      /\ \/ next' = next
         \/ token.terminal = o.node.terminal /\ next' = Append(next, zipper)
  BY DEF FreshTok, Popped, maps
<1>2. \A i \in DOMAIN operations' :
        /\ operations'[i].op # "DownFresh"
        /\ operations'[i].op = "Up" => operations'[i].node.tag # "Tok"
  BY <1>1, PlainWorkNone
<1>3. CASE next' = next
  BY <1>1, <1>2, <1>3, PlainStep
<1>4. CASE token.terminal = o.node.terminal /\ next' = Append(next, zipper)
  <2>1. /\ o.op = "DownFresh" /\ o.node.tag = "Tok" /\ o = operations[1]
        /\ 1 \in DOMAIN operations /\ Unclaimed(o.memo)
        /\ o.node \in Node(DOMAIN expressions)
    <3>1. Popped("DownFresh") /\ o.node.tag = "Tok"
      BY DEF FreshTok
    <3>2. /\ o.op = "DownFresh" /\ Unclaimed(o.memo)
          /\ o \in Operation(DOMAIN expressions, DOMAIN memos, DOMAIN contexts)
      BY <3>1, FreshTop, PoppedType DEF Bounded, Inductive
    <3>3. o = operations[1] /\ 1 \in DOMAIN operations
      BY <1>1, LenProperties DEF Bounded, Inductive, TypeOK
    <3> QED  BY <3>1, <3>2, <3>3, OperationFields
  <2>2. o.node = Tok(token.terminal)
    BY <1>4, <2>1 DEF Node, Tok
  <2>3. PICK e \in DOMAIN expressions :
          Owns(e, o.memo) /\ expressions[e].node = Tok(token.terminal)
    BY <2>1, <2>2 DEF Bounded, MemosOwned
  <2>4. zipper.memo = o.memo /\ zipper.focus.tag # "Tok"
    BY DEF Seqn
  <2> HIDE DEF zipper, o
  <2>5. /\ DOMAIN next' = 1 .. Len(next) + 1 /\ Len(next) \in Nat
        /\ DOMAIN next = 1 .. Len(next)
        /\ \A z \in 1 .. Len(next) : next'[z] = next[z]
        /\ next'[Len(next) + 1] = zipper
    <3>1. next \in Seq(Zipper(DOMAIN expressions, DOMAIN memos) \cup {zipper})
      BY SeqGrows DEF Bounded, Inductive, TypeOK
    <3> QED  BY <1>4, <3>1, AppendProperties, LenProperties
  <2>6. \A z \in DOMAIN next' : \/ z \in DOMAIN next /\ next'[z] = next[z]
                                \/ z = Len(next) + 1 /\ next'[z] = zipper
    BY <2>5
  <2>7. LeavesGiven' /\ Frontier'
    <3>1. /\ \A f \in DOMAIN expressions' :
               expressions'[f].node.tag = "Tok" =>
                 /\ f \in DOMAIN grammar'.expressions
                 /\ grammar'.expressions[f] = expressions'[f].node
          /\ \A z \in DOMAIN zippers' : zippers'[z].focus.tag # "Tok"
          /\ Frontier'
      BY <1>1, LeavesKept
    <3>2. \A z \in DOMAIN next' : next'[z].focus.tag # "Tok"
      BY <2>4, <2>6 DEF Bounded, LeavesGiven
    <3> QED  BY <1>2, <3>1, <3>2 DEF LeavesGiven
  <2>8. token' = token /\ position' = position
    BY <1>1 DEF frame
  <2>9. ASSUME NEW z \in DOMAIN next'
        PROVE  \E f \in DOMAIN expressions' :
                 /\ next'[z].memo \in DOMAIN memos'
                 /\ expressions'[f].memo = next'[z].memo
                 /\ memos'[next'[z].memo].start = position'
                 /\ expressions'[f].node = Tok(token'.terminal)
    <3>1. CASE z \in DOMAIN next /\ next'[z] = next[z]
      <4>1. PICK f \in DOMAIN expressions :
              Owns(f, next[z].memo) /\ expressions[f].node = Tok(token.terminal)
        BY <3>1 DEF Bounded, MemosOwned
      <4> QED  BY <1>1, <2>8, <3>1, <4>1 DEF Owns
    <3>2. CASE next'[z] = zipper
      BY <1>1, <2>3, <2>4, <2>8, <3>2 DEF Owns
    <3> QED  BY <2>6, <3>1, <3>2
  <2>10. \A y, z \in DOMAIN next' : next'[y].memo = next'[z].memo => y = z
    BY <2>1, <2>4, <2>6 DEF Bounded, MemosOwned, Unclaimed
  <2>11. MemosOwned'
    BY <1>1, <1>2, <2>9, <2>10 DEF Bounded, MemosOwned, Owns
  <2> QED  BY <2>7, <2>11
<1> QED  BY <1>1, <1>3, <1>4

\* A derivative starts with no zipper in its output, and its first work items
\* complete the zippers it was left.
LEMMA DeriveBounded ==
  ASSUME Bounded, NEW t \in Tokens, Derive(t)
  PROVE  LeavesGiven' /\ MemosOwned' /\ Frontier'
<1>1. /\ UNCHANGED maps /\ zippers' = <<>> /\ next' = <<>>
      /\ grammar' = grammar /\ input' = input /\ token' = t
  BY DEF Derive
<1>2. /\ expressions' = expressions /\ memos' = memos
  BY <1>1 DEF maps
<1>3. \A i \in DOMAIN operations' :
        /\ operations'[i].op = "Up"
        /\ operations'[i].node.tag # "Tok"
  <2>1. ASSUME NEW i \in DOMAIN operations'
        PROVE  i \in DOMAIN zippers /\ operations'[i].node = zippers[i].focus
               /\ operations'[i].op = "Up"
    BY LenProperties DEF Derive, Bounded, Inductive, TypeOK, UpOp
  <2> QED  BY <2>1 DEF Bounded, LeavesGiven
<1>4. ~Idle'
  <2>1. t # NoToken
    BY TokensAssumption DEF NoToken, None
  <2> QED  BY <1>1, <2>1 DEF Idle
<1>5. LeavesGiven'
  BY <1>1, <1>2, <1>3 DEF Bounded, LeavesGiven
<1>6. MemosOwned'
  BY <1>1, <1>2, <1>3 DEF Bounded, MemosOwned
<1>7. Frontier'
  BY <1>1, <1>4 DEF Bounded, Frontier, FrontierBounded
<1> QED  BY <1>5, <1>6, <1>7

\* Each zipper of a derivative waits in the memo of a leaf that names the token,
\* and no two of them in the same one.
LEMMA OneZipperPerLeaf ==
  ASSUME Bounded
  PROVE  Len(next) <= Cardinality({e \in DOMAIN grammar.expressions :
                                     grammar.expressions[e] = Tok(token.terminal)})
<1> DEFINE leaves == {e \in DOMAIN grammar.expressions :
                        grammar.expressions[e] = Tok(token.terminal)}
           waits(z, e) == /\ e \in DOMAIN expressions
                          /\ expressions[e].memo = next[z].memo
                          /\ expressions[e].node = Tok(token.terminal)
           leaf == [z \in 1 .. Len(next) |-> CHOOSE e : waits(z, e)]
<1>1. DOMAIN next = 1 .. Len(next) /\ Len(next) \in Nat
  BY LenProperties DEF Bounded, Inductive, TypeOK
<1>2. \A z \in 1 .. Len(next) : waits(z, leaf[z])
  <2> TAKE z \in 1 .. Len(next)
  <2>1. \E e : waits(z, e)
    BY <1>1 DEF Bounded, MemosOwned, Owns
  <2> QED  BY <2>1
<1>3. ASSUME NEW z \in 1 .. Len(next) PROVE leaf[z] \in leaves
  <2>1. /\ leaf[z] \in DOMAIN expressions
        /\ expressions[leaf[z]].node = Tok(token.terminal)
    BY <1>2
  <2> HIDE DEF leaf
  <2>2. expressions[leaf[z]].node.tag = "Tok"
    BY <2>1 DEF Tok
  <2> QED  BY <2>1, <2>2 DEF Bounded, LeavesGiven
<1>4. ASSUME NEW y \in 1 .. Len(next), NEW z \in 1 .. Len(next), leaf[y] = leaf[z]
      PROVE  y = z
  <2>1. next[y].memo = next[z].memo
    BY <1>2, <1>4
  <2> QED  BY <1>1, <2>1 DEF Bounded, MemosOwned
<1> HIDE DEF leaf
<1>5. leaf \in [1 .. Len(next) -> leaves]
  BY <1>3 DEF leaf
<1>6. leaf \in Injection(1 .. Len(next), leaves)
  BY <1>4, <1>5 DEF Injection, IsInjective
<1>7. IsFiniteSet(leaves)
  BY FS_Subset DEF Bounded, Frontier
<1>8. Cardinality(1 .. Len(next)) = Len(next)
  <2>1. Cardinality(1 .. Len(next))
          = IF 1 > Len(next) THEN 0 ELSE Len(next) - 1 + 1
    BY <1>1, FS_Interval
  <2> QED  BY <1>1, <2>1
<1> QED  BY <1>6, <1>7, <1>8, FS_Injection

\* The zippers a derivative leaves are those of its output.
LEMMA EndDeriveBounded ==
  ASSUME Bounded, EndDerive
  PROVE  LeavesGiven' /\ MemosOwned' /\ Frontier'
<1>1. /\ ~Idle /\ UNCHANGED maps /\ zippers' = next /\ next' = <<>>
      /\ operations' = <<>> /\ grammar' = grammar
      /\ input' = Append(input, token)
  BY DEF EndDerive
<1>2. expressions' = expressions /\ memos' = memos
  BY <1>1 DEF maps
<1>3. token \in Tokens
  BY <1>1 DEF Bounded, Inductive, TypeOK, Idle
<1>4. LeavesGiven'
  BY <1>1, <1>2 DEF Bounded, LeavesGiven
<1>5. MemosOwned'
  BY <1>1, <1>2 DEF Bounded, MemosOwned
<1>6. input' \in Seq(Tokens) /\ input'[Len(input')] = token
  BY <1>1, <1>3, AppendProperties DEF Bounded, Frontier
<1>7. Frontier'
  BY <1>1, <1>6, OneZipperPerLeaf DEF Bounded, Frontier, FrontierBounded
<1> QED  BY <1>4, <1>5, <1>7

----------------------------------------------------------------------------
(* The theorem.                                                            *)

\* The grammar's own expressions have no memo yet.
LEMMA BoundedInit == Init => Bounded
<1> SUFFICES ASSUME Init PROVE Bounded  OBVIOUS
<1>1. /\ expressions = [id \in DOMAIN grammar.expressions |->
           [memo |-> None, fixed |-> FALSE, node |-> grammar.expressions[id]]]
      /\ operations = <<>> /\ next = <<>> /\ input = <<>>
  BY DEF Init
<1>2. \A z \in DOMAIN zippers : zippers[z].focus.tag # "Tok"
  BY DEF Init, InitialZippers, Seqn
<1>3. LeavesGiven /\ MemosOwned
  BY <1>1, <1>2 DEF LeavesGiven, MemosOwned
<1>4. IsFiniteSet(DOMAIN grammar.expressions)
  <2>1. DOMAIN grammar.expressions \subseteq 0 .. (IdLimit - 1)
    BY DEF Init, WellFormed
  <2>2. IsFiniteSet(0 .. (IdLimit - 1))
    BY BoundsAssumption, FS_Interval
  <2> QED  BY <2>1, <2>2, FS_Subset
<1>5. Frontier
  BY <1>1, <1>4 DEF Frontier, FrontierBounded
<1> QED  BY <1>3, <1>5, InductiveInit DEF Bounded

\* Every step of Pwz keeps the frontier bounded.
LEMMA BoundedNext == Bounded /\ [Next]_vars => Bounded'
<1> SUFFICES ASSUME Bounded, [Next]_vars PROVE Bounded'  OBVIOUS
<1>1. Inductive'
  BY InductiveNext DEF Bounded
<1>2. CASE Step
  <2>1. LeavesGiven' /\ MemosOwned' /\ Frontier'
    BY <1>2, DownSharedBounded, DownEnteredBounded, FreshTokBounded,
       FreshSeqBounded, FreshAltBounded, UpBounded, UpTopBounded,
       UpNextBounded, UpPackedBounded, CompletionBounded DEF Step
  <2> QED  BY <1>1, <2>1 DEF Bounded
<1>3. CASE \E t \in Tokens : Derive(t)
  BY <1>1, <1>3, DeriveBounded DEF Bounded
<1>4. CASE EndDerive
  BY <1>1, <1>4, EndDeriveBounded DEF Bounded
<1>5. CASE UNCHANGED vars
  <2>1. /\ memos' = memos /\ expressions' = expressions /\ zippers' = zippers
        /\ next' = next /\ operations' = operations /\ token' = token
        /\ position' = position /\ grammar' = grammar /\ input' = input
    BY <1>5 DEF vars, frame, maps
  <2>2. LeavesGiven' /\ Frontier'
    BY <2>1 DEF Bounded, LeavesGiven, Frontier, FrontierBounded, Idle
  <2>3. MemosOwned'
    BY <2>1 DEF Bounded, MemosOwned, Owns
  <2> QED  BY <1>1, <2>2, <2>3 DEF Bounded
<1> QED  BY <1>2, <1>3, <1>4, <1>5 DEF Next

\* However ambiguous the prefix, `derive` leaves at most one zipper for each
\* place where the grammar names the last token's terminal, so that the work of
\* the next token does not start from more and more zippers.
THEOREM FrontierIsBounded == Spec => []FrontierBounded
<1>1. Bounded => FrontierBounded
  BY DEF Bounded, Frontier
<1> QED  BY <1>1, BoundedInit, BoundedNext, PTL DEF Spec

----------------------------------------------------------------------------
(* No change twice: the inductive invariant.                               *)

\* An expression waits to be entered from a context, or to be passed to one.
Asked(e, c) == \E i \in DOMAIN operations : operations[i] = DownOp(c, e)
Sent(x, c) == \E i \in DOMAIN operations : operations[i] = UpContextOp(x, c)

\* Context c has joined every memo that x completes here.
Told(x, c) ==
  \A m \in DOMAIN memos :
    Completed(m) /\ memos[m].result = x => c \in Range(memos[m].parents)

\* The memo that Alt context c packs for has x among its alternatives already,
\* or is about to complete with it.
Packed(c, x) ==
  LET p == contexts[c].memo
  IN \/ Completed(p) /\ x \in Range(expressions[memos[p].result].node.children)
     \/ \E i \in DOMAIN operations : /\ operations[i].op = "Up"
                                     /\ operations[i].memo = p
                                     /\ x \in Range(operations[i].node.children)

\* No expression has an alternative twice, no memo a parent; a result is one
\* memo's, and one Alt context packs for a memo.
Graph ==
  /\ \A e \in DOMAIN expressions : Distinct(expressions[e].node)
  /\ \A i \in DOMAIN operations :
       operations[i].op = "DownFresh" => Distinct(operations[i].node)
  /\ \A m \in DOMAIN memos : IsInjective(memos[m].parents)
  /\ \A m, n \in DOMAIN memos :
       Completed(m) /\ Completed(n) /\ memos[m].result = memos[n].result => m = n
  /\ \A c, d \in DOMAIN contexts :
       contexts[c].tag = "Alt" /\ contexts[d].tag = "Alt"
         /\ contexts[c].memo = contexts[d].memo => c = d

\* A context that waits to enter an expression has not joined its memo.
Joining ==
  \A e \in DOMAIN expressions, c \in DOMAIN contexts :
    Asked(e, c) /\ Entered(e) =>
      c \notin Range(memos[expressions[e].memo].parents)

\* No work item of these kinds is on the list twice.
WorkDistinct ==
  \A i, j \in DOMAIN operations :
    operations[i] = operations[j] /\ operations[i].op \in {"Down", "UpContext"}
      => i = j

\* A result is passed to, and packed below, contexts that have joined its memo,
\* and is not packed yet while it is on its way.
Passing ==
  \A x \in DOMAIN expressions, c \in DOMAIN contexts :
    /\ Sent(x, c) => Told(x, c)
    /\ contexts[c].tag = "Alt" /\ Packed(c, x) => Told(x, c)
    /\ contexts[c].tag = "Alt" /\ Sent(x, c) => ~Packed(c, x)

Once == /\ Reported /\ Bounded
        /\ Graph /\ Joining /\ WorkDistinct /\ Passing /\ ChangesOnce

----------------------------------------------------------------------------
(* Sequences and work items.                                               *)

\* A sequence without duplicates stays one if something new is appended.
LEMMA AppendDistinct ==
  ASSUME NEW S, NEW s \in Seq(S), NEW x \in S, IsInjective(s), x \notin Range(s)
  PROVE  IsInjective(Append(s, x))
<1>1. /\ DOMAIN s = 1 .. Len(s) /\ Len(s) \in Nat
      /\ DOMAIN Append(s, x) = 1 .. Len(s) + 1
      /\ \A i \in 1 .. Len(s) : Append(s, x)[i] = s[i]
      /\ Append(s, x)[Len(s) + 1] = x
  OBVIOUS
<1>2. \A i \in 1 .. Len(s) + 1 : i \in 1 .. Len(s) \/ i = Len(s) + 1
  BY <1>1
<1>3. \A i \in 1 .. Len(s) : s[i] # x
  BY <1>1 DEF Range
<1> QED  BY <1>1, <1>2, <1>3 DEF IsInjective

\* A node with one alternative names none twice.
LEMMA SingleDistinct ==
  ASSUME NEW E, NEW node \in Node(E), Single(node)
  PROVE  Distinct(node)
<1> SUFFICES ASSUME node.tag = "Alt" PROVE IsInjective(node.children)
  BY DEF Distinct
<1> DEFINE s == node.children
<1>1. s \in Seq(E) /\ s # <<>> /\ Range(Tail(s)) = {}
  BY NodeFields DEF Single
<1> HIDE DEF s
<1>2. /\ Len(s) \in Nat /\ DOMAIN s = 1 .. Len(s)
      /\ Tail(s) \in Seq(E) /\ Len(Tail(s)) = Len(s) - 1
  BY <1>1, HeadTailProperties, LenProperties
<1>3. DOMAIN Tail(s) = {}
  BY <1>1 DEF Range
<1>4. Len(s) = 1
  <2>1. DOMAIN Tail(s) = 1 .. Len(Tail(s))
    BY <1>2, LenProperties
  <2>2. Len(s) # 0
    BY <1>1, EmptySeq
  <2>3. 1 \notin 1 .. Len(Tail(s))
    BY <1>3, <2>1
  <2> QED  BY <1>2, <2>2, <2>3
<1>5. \A i \in DOMAIN s : i = 1
  BY <1>2, <1>4
<1> QED  BY <1>5 DEF IsInjective, s

\* What is logged is reported once if it was not reported before.
LEMMA LogOnce ==
  ASSUME NEW S, changes \in Seq(S), ChangesOnce,
         NEW T, NEW new \in Seq(T), Log(new), IsInjective(new),
         \A k \in DOMAIN new : new[k] \notin Range(changes)
  PROVE  ChangesOnce'
<1>1. changes \in Seq(S \cup T) /\ new \in Seq(S \cup T)
  BY SeqGrows
<1>2. /\ Len(changes) \in Nat /\ Len(new) \in Nat
      /\ DOMAIN changes = 1 .. Len(changes) /\ DOMAIN new = 1 .. Len(new)
      /\ DOMAIN changes' = 1 .. Len(changes) + Len(new)
      /\ \A i \in 1 .. Len(changes) + Len(new) :
           changes'[i] = IF i <= Len(changes) THEN changes[i]
                                              ELSE new[i - Len(changes)]
  BY <1>1, ConcatProperties, LenProperties DEF Log
<1>3. ASSUME NEW i \in DOMAIN changes'
      PROVE  \/ i \in DOMAIN changes /\ changes'[i] = changes[i]
             \/ /\ i - Len(changes) \in DOMAIN new
                /\ changes'[i] = new[i - Len(changes)]
  BY <1>2
<1>4. \A i \in DOMAIN changes, k \in DOMAIN new : changes[i] # new[k]
  BY DEF Range
<1>5. ASSUME NEW i \in DOMAIN changes', NEW j \in DOMAIN changes',
             changes'[i] = changes'[j]
      PROVE  i = j
  <2>1. CASE i \in DOMAIN changes /\ changes'[i] = changes[i]
    <3>1. j \in DOMAIN changes /\ changes'[j] = changes[j]
      BY <1>3, <1>4, <1>5, <2>1
    <3> QED  BY <1>5, <2>1, <3>1 DEF ChangesOnce, IsInjective
  <2>2. CASE /\ i - Len(changes) \in DOMAIN new
             /\ changes'[i] = new[i - Len(changes)]
    <3>1. /\ j - Len(changes) \in DOMAIN new
          /\ changes'[j] = new[j - Len(changes)]
      BY <1>3, <1>4, <1>5, <2>2
    <3>2. i - Len(changes) = j - Len(changes)
      BY <1>5, <2>2, <3>1 DEF IsInjective
    <3> QED  BY <1>2, <3>2
  <2> QED  BY <1>3, <2>1, <2>2
<1> QED  BY <1>5 DEF ChangesOnce, IsInjective

\* Work items are told apart by what they name.
LEMMA OperationForms ==
  ASSUME NEW E, NEW M, NEW C, NEW o \in Operation(E, M, C)
  PROVE  /\ o.op = "Down" => o = DownOp(o.context, o.expression)
         /\ o.op = "UpContext" => o = UpContextOp(o.expression, o.context)
BY DEF Operation, DownOp, UpContextOp

\* After a pop and a push, an entry is one pushed or the one that was as far
\* below the top.
LEMMA PushPlaces ==
  ASSUME NEW S, operations \in Seq(S), operations # <<>>,
         NEW T, NEW ops \in Seq(T), Push(ops),
         NEW i \in DOMAIN operations'
  PROVE  LET j == i - Len(ops) + 1
         IN \/ i \in DOMAIN ops /\ operations'[i] = ops[i]
            \/ j \in DOMAIN operations /\ j > 1 /\ operations'[i] = operations[j]
<1>1. Tail(operations) \in Seq(S)
      /\ Len(Tail(operations)) = Len(operations) - 1
      /\ \A k \in 1 .. Len(Tail(operations)) :
           Tail(operations)[k] = operations[k + 1]
  BY HeadTailProperties
<1>2. Tail(operations) \in Seq(S \cup T) /\ ops \in Seq(S \cup T)
  BY <1>1, SeqGrows
<1>3. /\ Len(operations') = Len(ops) + Len(Tail(operations))
      /\ operations' \in Seq(S \cup T)
      /\ \A k \in 1 .. Len(ops) + Len(Tail(operations)) :
           operations'[k] = IF k <= Len(ops) THEN ops[k]
                                             ELSE Tail(operations)[k - Len(ops)]
  BY <1>2, ConcatProperties DEF Push
<1>4. /\ i \in 1 .. Len(operations') /\ Len(ops) \in Nat
      /\ DOMAIN ops = 1 .. Len(ops)
      /\ Len(operations) \in Nat /\ DOMAIN operations = 1 .. Len(operations)
  BY <1>3, LenProperties
<1>5. CASE i <= Len(ops)
  BY <1>3, <1>4, <1>5
<1>6. CASE ~(i <= Len(ops))
  <2>1. i - Len(ops) \in 1 .. Len(Tail(operations))
    BY <1>3, <1>4, <1>6
  <2>2. operations'[i] = Tail(operations)[i - Len(ops)]
    BY <1>3, <1>4, <1>6
  <2>3. i - Len(ops) + 1 \in DOMAIN operations /\ i - Len(ops) + 1 > 1
    BY <1>1, <1>4, <2>1
  <2>4. Tail(operations)[i - Len(ops)] = operations[i - Len(ops) + 1]
    BY <1>1, <2>1
  <2> QED  BY <2>2, <2>3, <2>4
<1> QED  BY <1>5, <1>6

\* The work list gets no duplicate if what is pushed has none and is not there.
LEMMA WorkDistinctStep ==
  ASSUME TypeOK, WorkDistinct, operations # <<>>,
         NEW T, NEW ops \in Seq(T), Push(ops),
         \A k, l \in DOMAIN ops :
           ops[k] = ops[l] /\ ops[k].op \in {"Down", "UpContext"} => k = l,
         \A k \in DOMAIN ops : \A j \in DOMAIN operations :
           j > 1 /\ ops[k].op \in {"Down", "UpContext"} => operations[j] # ops[k]
  PROVE  WorkDistinct'
<1> DEFINE below(i) == i - Len(ops) + 1
<1>1. ASSUME NEW i \in DOMAIN operations'
      PROVE  \/ i \in DOMAIN ops /\ operations'[i] = ops[i]
             \/ /\ below(i) \in DOMAIN operations /\ below(i) > 1
                /\ operations'[i] = operations[below(i)]
  BY PushPlaces DEF TypeOK
<1>2. ASSUME NEW i \in DOMAIN operations', NEW j \in DOMAIN operations',
             below(i) = below(j)
      PROVE  i = j
  <2>1. operations' \in Seq(Operation(DOMAIN expressions, DOMAIN memos, DOMAIN contexts) \cup T)
    <3>1. /\ Tail(operations) \in
               Seq(Operation(DOMAIN expressions, DOMAIN memos, DOMAIN contexts) \cup T)
          /\ ops \in Seq(Operation(DOMAIN expressions, DOMAIN memos, DOMAIN contexts) \cup T)
      BY SeqGrows, HeadTailProperties DEF TypeOK
    <3> QED  BY <3>1, ConcatProperties DEF Push
  <2>2. i \in Int /\ j \in Int /\ Len(ops) \in Int
    BY <2>1, LenProperties
  <2> QED  BY <1>2, <2>2
<1>3. ASSUME NEW i \in DOMAIN operations', NEW j \in DOMAIN operations',
             operations'[i] = operations'[j],
             operations'[i].op \in {"Down", "UpContext"}
      PROVE  i = j
  <2>1. CASE i \in DOMAIN ops /\ operations'[i] = ops[i]
    BY <1>1, <1>3, <2>1
  <2>2. CASE /\ below(i) \in DOMAIN operations /\ below(i) > 1
             /\ operations'[i] = operations[below(i)]
    <3>1. /\ below(j) \in DOMAIN operations
          /\ operations'[j] = operations[below(j)]
      BY <1>1, <1>3, <2>2
    <3>2. below(i) = below(j)
      BY <1>3, <2>2, <3>1 DEF WorkDistinct
    <3> QED  BY <1>2, <3>2
  <2> QED  BY <1>1, <2>1, <2>2
<1> QED  BY <1>3 DEF WorkDistinct

\* Items on the list, from below its top, and the one on top.
AskedBelow(e, c) ==
  \E j \in DOMAIN operations : j > 1 /\ operations[j] = DownOp(c, e)
SentBelow(x, c) ==
  \E j \in DOMAIN operations : j > 1 /\ operations[j] = UpContextOp(x, c)

\* What is on the list after a pop and a push was pushed, or was below the top.
LEMMA PushedWork ==
  ASSUME TypeOK, operations # <<>>, NEW T, NEW ops \in Seq(T), Push(ops)
  PROVE  /\ \A e, c : Asked(e, c)' =>
              AskedBelow(e, c) \/ \E k \in DOMAIN ops : ops[k] = DownOp(c, e)
         /\ \A x, c : Sent(x, c)' =>
              SentBelow(x, c) \/ \E k \in DOMAIN ops : ops[k] = UpContextOp(x, c)
         /\ \A i \in DOMAIN operations' :
              \/ \E k \in DOMAIN ops : operations'[i] = ops[k]
              \/ \E j \in DOMAIN operations : j > 1 /\ operations'[i] = operations[j]
<1>1. DOMAIN ops = 1 .. Len(ops)
  BY LenProperties
<1>2. \A i \in DOMAIN operations' :
        \/ \E k \in DOMAIN ops : operations'[i] = ops[k]
        \/ \E j \in DOMAIN operations : j > 1 /\ operations'[i] = operations[j]
  BY <1>1, PushEntries DEF TypeOK
<1>3. \A e, c : Asked(e, c)' =>
        AskedBelow(e, c) \/ \E k \in DOMAIN ops : ops[k] = DownOp(c, e)
  BY <1>2 DEF Asked, AskedBelow
<1>4. \A x, c : Sent(x, c)' =>
        SentBelow(x, c) \/ \E k \in DOMAIN ops : ops[k] = UpContextOp(x, c)
  BY <1>2 DEF Sent, SentBelow
<1> QED  BY <1>2, <1>3, <1>4

\* The top of the list is not found below it again.
LEMMA TopWork ==
  ASSUME TypeOK, WorkDistinct, operations # <<>>
  PROVE  /\ 1 \in DOMAIN operations /\ operations[1] = Head(operations)
         /\ \A e, c : AskedBelow(e, c) => Asked(e, c)
         /\ \A x, c : SentBelow(x, c) => Sent(x, c)
         /\ Head(operations).op = "Down" =>
              LET o == Head(operations)
              IN /\ o.expression \in DOMAIN expressions
                 /\ o.context \in DOMAIN contexts
                 /\ Asked(o.expression, o.context)
                 /\ ~AskedBelow(o.expression, o.context)
         /\ Head(operations).op = "UpContext" =>
              LET o == Head(operations)
              IN /\ o.expression \in DOMAIN expressions
                 /\ o.context \in DOMAIN contexts
                 /\ Sent(o.expression, o.context)
                 /\ ~SentBelow(o.expression, o.context)
<1> DEFINE o == Head(operations)
<1>1. /\ 1 \in DOMAIN operations /\ operations[1] = o
      /\ o \in Operation(DOMAIN expressions, DOMAIN memos, DOMAIN contexts)
      /\ DOMAIN operations \subseteq Nat
  BY LenProperties DEF TypeOK
<1> HIDE DEF o
<1>2. /\ \A e, c : AskedBelow(e, c) => Asked(e, c)
      /\ \A x, c : SentBelow(x, c) => Sent(x, c)
  BY DEF AskedBelow, Asked, SentBelow, Sent
<1>3. ASSUME NEW j \in DOMAIN operations, j > 1, o.op \in {"Down", "UpContext"}
      PROVE  operations[j] # o
  BY <1>1, <1>3 DEF WorkDistinct
<1>4. /\ o.op = "Down" => o = DownOp(o.context, o.expression)
      /\ o.op = "UpContext" => o = UpContextOp(o.expression, o.context)
  BY <1>1, OperationForms
<1>5. /\ o.op = "Down" => o.context \in DOMAIN contexts /\ o.expression \in DOMAIN expressions
      /\ o.op = "UpContext" => o.context \in DOMAIN contexts /\ o.expression \in DOMAIN expressions
  BY <1>1, OperationFields
<1>6. o.op = "Down" => /\ Asked(o.expression, o.context)
                       /\ ~AskedBelow(o.expression, o.context)
  <2> HAVE o.op = "Down"
  <2>1. Asked(o.expression, o.context)
    BY <1>1, <1>4 DEF Asked
  <2> QED  BY <1>3, <1>4, <2>1 DEF AskedBelow
<1>7. o.op = "UpContext" => /\ Sent(o.expression, o.context)
                            /\ ~SentBelow(o.expression, o.context)
  <2> HAVE o.op = "UpContext"
  <2>1. Sent(o.expression, o.context)
    BY <1>1, <1>4 DEF Sent
  <2> QED  BY <1>3, <1>4, <2>1 DEF SentBelow
<1> QED  BY <1>1, <1>2, <1>5, <1>6, <1>7 DEF o

\* Work items name what is allocated.
LEMMA WorkNames ==
  ASSUME TypeOK
  PROVE  /\ \A e, c : Asked(e, c) => e \in DOMAIN expressions /\ c \in DOMAIN contexts
         /\ \A x, c : Sent(x, c) => x \in DOMAIN expressions /\ c \in DOMAIN contexts
<1>1. ASSUME NEW i \in DOMAIN operations
      PROVE  operations[i] \in Operation(DOMAIN expressions, DOMAIN memos, DOMAIN contexts)
  BY LenProperties DEF TypeOK
<1>2. ASSUME NEW e, NEW c, Asked(e, c)
      PROVE  e \in DOMAIN expressions /\ c \in DOMAIN contexts
  <2>1. DownOp(c, e) \in Operation(DOMAIN expressions, DOMAIN memos, DOMAIN contexts)
    BY <1>1, <1>2 DEF Asked
  <2> QED  BY <2>1 DEF DownOp, Operation
<1>3. ASSUME NEW x, NEW c, Sent(x, c)
      PROVE  x \in DOMAIN expressions /\ c \in DOMAIN contexts
  <2>1. UpContextOp(x, c) \in Operation(DOMAIN expressions, DOMAIN memos, DOMAIN contexts)
    BY <1>1, <1>3 DEF Sent
  <2> QED  BY <2>1 DEF UpContextOp, Operation
<1> QED  BY <1>2, <1>3

\* What an Alt context has packed, or is about to, is allocated.
LEMMA PackedNames ==
  ASSUME Inductive, NEW c \in DOMAIN contexts, contexts[c].tag = "Alt",
         NEW x, Packed(c, x)
  PROVE  x \in DOMAIN expressions
<1> DEFINE p == contexts[c].memo
<1> USE DEF Inductive
<1>1. p \in DOMAIN memos /\ AltTarget(p)
  <2>1. contexts[c] \in Context(DOMAIN expressions, DOMAIN memos)
    BY DEF TypeOK
  <2> QED  BY <2>1, ContextFields DEF AltTarget
<1>2. ASSUME NEW node \in Node(DOMAIN expressions), node.tag = "Alt",
             x \in Range(node.children)
      PROVE  x \in DOMAIN expressions
  <2>1. node.children \in Seq(DOMAIN expressions)
    BY <1>2, NodeFields
  <2> QED  BY <1>2, <2>1, LenProperties DEF Range
<1>3. CASE Completed(p) /\ x \in Range(expressions[memos[p].result].node.children)
  <2>1. /\ memos[p].result \in DOMAIN expressions
        /\ expressions[memos[p].result].node.tag = "Alt"
    BY <1>1, <1>3, CompletedResult
  <2>2. expressions[memos[p].result].node \in Node(DOMAIN expressions)
    BY <2>1 DEF TypeOK, Expression
  <2> QED  BY <1>2, <1>3, <2>1, <2>2
<1>4. ASSUME NEW i \in DOMAIN operations, operations[i].op = "Up",
             operations[i].memo = p, x \in Range(operations[i].node.children)
      PROVE  x \in DOMAIN expressions
  <2>1. operations[i].node.tag = "Alt"
    BY <1>1, <1>4 DEF WorkOrdered
  <2>2. operations[i].node \in Node(DOMAIN expressions)
    <3>1. operations[i]
            \in Operation(DOMAIN expressions, DOMAIN memos, DOMAIN contexts)
      BY <1>4, LenProperties DEF TypeOK
    <3> QED  BY <1>4, <3>1, OperationFields
  <2> QED  BY <1>2, <1>4, <2>1, <2>2
<1> QED  BY <1>3, <1>4 DEF Packed

\* The log of a running derivative names only what the graph has gained.
LEMMA Logged ==
  ASSUME Reported, operations # <<>>
  PROVE  /\ \A e : NewExpression(e) \in Range(changes) => e \in DOMAIN expressions
         /\ \A c : NewContext(c) \in Range(changes) => c \in DOMAIN contexts
         /\ \A m, c : ParentAppended(m, c) \in Range(changes) =>
              m \in DOMAIN memos /\ c \in Range(memos[m].parents)
         /\ \A a, e : ChildAppended(a, e) \in Range(changes) =>
              /\ a \in DOMAIN expressions
              /\ e \in Range(Tail(expressions[a].node.children))
<1>1. Range(changes) = GrownExpressions \cup GrownContexts
                         \cup GrownParents \cup GrownChildren
  BY Above DEF Reported, ChangesComplete
<1>2. \A d \in GrownExpressions : \E e \in DOMAIN expressions : d = NewExpression(e)
  BY DEF GrownExpressions
<1>3. \A d \in GrownContexts : \E c \in DOMAIN contexts : d = NewContext(c)
  BY DEF GrownContexts
<1>4. \A d \in GrownParents : \E m \in DOMAIN memos :
        \E c \in Range(memos[m].parents) : d = ParentAppended(m, c)
  BY DEF GrownParents
<1>5. \A d \in GrownChildren : \E a \in DOMAIN expressions :
        \E e \in Range(Tail(expressions[a].node.children)) : d = ChildAppended(a, e)
  BY DEF GrownChildren
<1>6. \A e : NewExpression(e) \in Range(changes) => e \in DOMAIN expressions
  BY <1>1, <1>2, <1>3, <1>4, <1>5
     DEF NewExpression, NewContext, ParentAppended, ChildAppended
<1>7. \A c : NewContext(c) \in Range(changes) => c \in DOMAIN contexts
  BY <1>1, <1>2, <1>3, <1>4, <1>5
     DEF NewExpression, NewContext, ParentAppended, ChildAppended
<1>8. \A m, c : ParentAppended(m, c) \in Range(changes) =>
        m \in DOMAIN memos /\ c \in Range(memos[m].parents)
  BY <1>1, <1>2, <1>3, <1>4, <1>5
     DEF NewExpression, NewContext, ParentAppended, ChildAppended
<1>9. \A a, e : ChildAppended(a, e) \in Range(changes) =>
        /\ a \in DOMAIN expressions
        /\ e \in Range(Tail(expressions[a].node.children))
  BY <1>1, <1>2, <1>3, <1>4, <1>5
     DEF NewExpression, NewContext, ParentAppended, ChildAppended
<1> QED  BY <1>6, <1>7, <1>8, <1>9

----------------------------------------------------------------------------
(* Each operation keeps it.                                                *)

\* An operation that writes no map keeps the invariant if what it is about to
\* complete packs only what has been passed on and is on its way no more.
LEMMA QuietOnce ==
  ASSUME Once, operations # <<>>, UNCHANGED frame, UNCHANGED maps,
         changes' = changes,
         NEW T, NEW ops \in Seq(T), Push(ops),
         \A k \in DOMAIN ops :
           /\ ops[k].op = "Up"
           /\ \A c \in DOMAIN contexts : \A x \in Range(ops[k].node.children) :
                contexts[c].tag = "Alt" /\ contexts[c].memo = ops[k].memo =>
                  Told(x, c) /\ ~SentBelow(x, c)
  PROVE  Graph' /\ Joining' /\ WorkDistinct' /\ Passing' /\ ChangesOnce'
<1> USE DEF Once, Reported, Inductive
<1>1. /\ expressions' = expressions /\ memos' = memos /\ contexts' = contexts
      /\ position' = position
  BY DEF maps, frame
<1>2. /\ \A e, c : Asked(e, c)' => Asked(e, c)
      /\ \A x, c : Sent(x, c)' => Sent(x, c) /\ SentBelow(x, c)
      /\ \A i \in DOMAIN operations' :
           \/ \E k \in DOMAIN ops : operations'[i] = ops[k]
           \/ \E j \in DOMAIN operations : j > 1 /\ operations'[i] = operations[j]
  BY PushedWork, TopWork DEF DownOp, UpContextOp
<1>3. Graph'
  BY <1>1, <1>2 DEF Graph, Completed
<1>4. Joining'
  BY <1>1, <1>2 DEF Joining, Entered
<1>5. WorkDistinct'
  BY WorkDistinctStep
<1>6. \A x, c : Told(x, c) => Told(x, c)'
  BY <1>1 DEF Told, Completed
<1>7. ASSUME NEW c \in DOMAIN contexts, contexts[c].tag = "Alt",
             NEW x, Packed(c, x)'
      PROVE  \/ Packed(c, x)
             \/ Told(x, c) /\ ~SentBelow(x, c)
  <2>1. CASE \E i \in DOMAIN operations' :
               /\ operations'[i].op = "Up" /\ operations'[i].memo = contexts[c].memo
               /\ x \in Range(operations'[i].node.children)
    BY <1>2, <1>7, <2>1 DEF Packed
  <2>2. CASE /\ Completed(contexts[c].memo)
             /\ x \in Range(expressions[memos[contexts[c].memo].result].node.children)
    BY <2>2 DEF Packed
  <2> QED  BY <1>1, <1>7, <2>1, <2>2 DEF Packed, Completed
<1>8. Passing'
  BY <1>1, <1>2, <1>6, <1>7 DEF Passing
<1>9. ChangesOnce'
  BY DEF ChangesOnce
<1> QED  BY <1>3, <1>4, <1>5, <1>8, <1>9

\* The operations that complete no packer: a token, which only adds a zipper,
\* the root, an empty sequence and the last child of one.
LEMMA PlainOnce ==
  ASSUME Once, FreshTok \/ UpTop \/ FreshEmptySeq \/ UpLast
  PROVE  Graph' /\ Joining' /\ WorkDistinct' /\ Passing' /\ ChangesOnce'
<1>1. /\ operations # <<>> /\ UNCHANGED frame /\ UNCHANGED maps
      /\ changes' = changes
  BY DEF FreshTok, UpTop, FreshEmptySeq, UpLast, Rising, Popped
<1>2. CASE Push(<<>>)
  <2>1. <<>> \in Seq({}) /\ DOMAIN <<>> = {}
    OBVIOUS
  <2> QED  BY <1>1, <1>2, <2>1, QuietOnce
<1>3. ASSUME NEW node, NEW m, Push(<<UpOp(node, m)>>),
             node.children = <<>> \/ SeqTarget(m)
      PROVE  Graph' /\ Joining' /\ WorkDistinct' /\ Passing' /\ ChangesOnce'
  <2> DEFINE op == UpOp(node, m)
  <2>1. op.op = "Up" /\ op.node = node /\ op.memo = m
    BY DEF UpOp
  <2>2. ASSUME NEW c \in DOMAIN contexts, NEW x \in Range(op.node.children),
               contexts[c].tag = "Alt", contexts[c].memo = op.memo
        PROVE  FALSE
    <3>1. CASE node.children = <<>>
      BY <2>1, <2>2, <3>1, RangeShort
    <3>2. CASE SeqTarget(m)
      <4>1. AltTarget(m)
        BY <2>1, <2>2 DEF AltTarget
      <4>2. m \in DOMAIN memos
        BY <3>2, TargetsAllocated DEF Once, Reported, Inductive
      <4> QED  BY <3>2, <4>1, <4>2 DEF Once, Reported, Inductive, Roles
    <3> QED  BY <1>3, <3>1, <3>2
  <2> HIDE DEF op
  <2>3. <<op>> \in Seq({op}) /\ DOMAIN <<op>> = {1} /\ <<op>>[1] = op
    OBVIOUS
  <2>4. Push(<<op>>)
    BY <1>3 DEF op
  <2> QED  BY <1>1, <2>1, <2>2, <2>3, <2>4, QuietOnce
<1>4. CASE UpLast
  <2>1. PICK node : Push(<<UpOp(node, contexts[Head(operations).context].memo)>>)
    BY <1>4 DEF UpLast
  <2>2. SeqTarget(contexts[Head(operations).context].memo)
    BY <1>4, RisingType DEF UpLast, SeqTarget, Once, Reported, Inductive
  <2> QED  BY <1>3, <2>1, <2>2
<1> QED  BY <1>2, <1>3, <1>4 DEF FreshTok, UpTop, FreshEmptySeq

\* The first alternative of a packer is the one that is passed to it here, and
\* to it alone.
LEMMA UpFirstOnce ==
  ASSUME Once, UpFirst
  PROVE  Graph' /\ Joining' /\ WorkDistinct' /\ Passing' /\ ChangesOnce'
<1> DEFINE o == Head(operations)
           memo == contexts[o.context].memo
           op == UpOp(Alt(<<o.expression>>), memo)
<1>1. /\ operations # <<>> /\ UNCHANGED frame /\ UNCHANGED maps
      /\ changes' = changes /\ Push(<<op>>) /\ Rising("Alt") /\ o.op = "UpContext"
  BY DEF UpFirst, Rising, Popped
<1>2. /\ op.op = "Up" /\ op.memo = memo
      /\ Range(op.node.children) = {o.expression}
  BY RangeShort DEF UpOp, Alt
<1>3. /\ o.context \in DOMAIN contexts /\ contexts[o.context].tag = "Alt"
      /\ Told(o.expression, o.context) /\ ~SentBelow(o.expression, o.context)
  BY <1>1, RisingType, TopWork DEF Once, Reported, Inductive, Passing
<1>4. \A c \in DOMAIN contexts :
        contexts[c].tag = "Alt" /\ contexts[c].memo = memo => c = o.context
  BY <1>3 DEF Once, Graph
<1> HIDE DEF o, memo, op
<1>5. <<op>> \in Seq({op}) /\ DOMAIN <<op>> = {1} /\ <<op>>[1] = op
  OBVIOUS
<1> QED  BY <1>1, <1>2, <1>3, <1>4, <1>5, QuietOnce

\* What an operation logs is new to the log if the graph has not gained it yet.
LEMMA ReportOnce ==
  ASSUME Once, operations # <<>>, NEW T, NEW new \in Seq(T), Log(new),
         IsInjective(new),
         \A k \in DOMAIN new :
           \/ \E e : e \notin DOMAIN expressions /\ new[k] = NewExpression(e)
           \/ \E c : c \notin DOMAIN contexts /\ new[k] = NewContext(c)
           \/ \E m, c : /\ m \in DOMAIN memos => c \notin Range(memos[m].parents)
                        /\ new[k] = ParentAppended(m, c)
           \/ \E a, e : /\ e \notin Range(Tail(expressions[a].node.children))
                        /\ new[k] = ChildAppended(a, e)
  PROVE  ChangesOnce'
<1>1. \A k \in DOMAIN new : new[k] \notin Range(changes)
  BY Logged DEF Once
<1>2. changes \in Seq(Change(DOMAIN expressions, DOMAIN memos, DOMAIN contexts))
  BY DEF Once, Reported, Inductive, TypeOK
<1> QED  BY <1>1, <1>2, LogOnce DEF Once

\* The special case of one change.
LEMMA ReportOneOnce ==
  ASSUME Once, operations # <<>>, NEW d, Log(<<d>>),
         \/ \E e : e \notin DOMAIN expressions /\ d = NewExpression(e)
         \/ \E c : c \notin DOMAIN contexts /\ d = NewContext(c)
         \/ \E m, c : /\ m \in DOMAIN memos => c \notin Range(memos[m].parents)
                      /\ d = ParentAppended(m, c)
         \/ \E a, e : /\ e \notin Range(Tail(expressions[a].node.children))
                      /\ d = ChildAppended(a, e)
  PROVE  ChangesOnce'
<1>1. /\ <<d>> \in Seq({d}) /\ DOMAIN <<d>> = {1} /\ <<d>>[1] = d
      /\ IsInjective(<<d>>)
  BY DEF IsInjective
<1> QED  BY <1>1, ReportOnce

\* An operation that inserts contexts, from which it enters expressions, keeps
\* the invariant if a packer gets its first Alt context and what memos it makes
\* are not complete.
LEMMA ContextsOnce ==
  ASSUME Once, operations # <<>>, UNCHANGED frame, expressions' = expressions,
         DOMAIN contexts \subseteq DOMAIN contexts',
         \A c \in DOMAIN contexts : contexts'[c] = contexts[c],
         \A c, d \in DOMAIN contexts' :
           contexts'[c].tag = "Alt" /\ contexts'[d].tag = "Alt"
             /\ contexts'[c].memo = contexts'[d].memo => c = d,
         \A c \in DOMAIN contexts' :
           c \notin DOMAIN contexts /\ contexts'[c].tag = "Alt" =>
             contexts'[c].memo \in DOMAIN memos /\ Unclaimed(contexts'[c].memo),
         DOMAIN memos \subseteq DOMAIN memos',
         \A m \in DOMAIN memos : memos'[m] = memos[m],
         \A m \in DOMAIN memos' : m \notin DOMAIN memos =>
           memos'[m].end = None /\ IsInjective(memos'[m].parents),
         NEW T, NEW ops \in Seq(T), Push(ops),
         \A k \in DOMAIN ops :
           \E e : \E c : c \notin DOMAIN contexts /\ ops[k] = DownOp(c, e),
         IsInjective(ops)
  PROVE  Graph' /\ Joining' /\ WorkDistinct' /\ Passing'
<1> USE DEF Once, Reported, Inductive
<1>1. position' = position /\ position # None
  BY DEF frame, TypeOK, None
<1>2. /\ \A e, c : Asked(e, c)' =>
           (AskedBelow(e, c) /\ Asked(e, c)) \/ c \notin DOMAIN contexts
      /\ \A x, c : Sent(x, c)' => Sent(x, c)
      /\ \A i \in DOMAIN operations' :
           \/ \E k \in DOMAIN ops : operations'[i] = ops[k]
           \/ \E j \in DOMAIN operations : j > 1 /\ operations'[i] = operations[j]
      /\ \A k \in DOMAIN ops : ops[k].op = "Down"
  BY PushedWork, TopWork DEF DownOp, UpContextOp
<1>3. \A m \in DOMAIN memos' :
        memos'[m].end = position' => m \in DOMAIN memos /\ memos[m].end = position
  BY <1>1
<1>4. Graph'
  <2>1. \A i \in DOMAIN operations' :
          operations'[i].op = "DownFresh" => Distinct(operations'[i].node)
    BY <1>2 DEF Graph
  <2>2. \A m \in DOMAIN memos' : IsInjective(memos'[m].parents)
    BY DEF Graph
  <2>3. \A m, n \in DOMAIN memos' :
          memos'[m].end = position' /\ memos'[n].end = position'
            /\ memos'[m].result = memos'[n].result => m = n
    BY <1>3 DEF Graph, Completed
  <2> QED  BY <2>1, <2>2, <2>3 DEF Graph, Completed
<1>5. ASSUME NEW e \in DOMAIN expressions, expressions[e].memo # None
      PROVE  /\ expressions[e].memo \in DOMAIN memos
             /\ Range(memos[expressions[e].memo].parents) \subseteq DOMAIN contexts
  <2>1. expressions[e].memo \in DOMAIN memos
    BY <1>5 DEF TypeOK, Expression, Option
  <2>2. memos[expressions[e].memo].parents \in Seq(DOMAIN contexts)
    BY <2>1 DEF TypeOK, Memo
  <2> QED  BY <2>1, <2>2, LenProperties DEF Range
<1>6. Joining'
  BY <1>1, <1>2, <1>5 DEF Joining, Entered
<1>7. WorkDistinct'
  <2>1. \A k \in DOMAIN ops : \A j \in DOMAIN operations : operations[j] # ops[k]
    <3>1. ASSUME NEW k \in DOMAIN ops, NEW j \in DOMAIN operations,
                 operations[j] = ops[k]
          PROVE  FALSE
      <4>1. PICK e, c : c \notin DOMAIN contexts /\ ops[k] = DownOp(c, e)
        OBVIOUS
      <4>2. Asked(e, c)
        BY <3>1, <4>1 DEF Asked
      <4> QED  BY <4>1, <4>2, WorkNames
    <3> QED  BY <3>1
  <2> QED  BY <2>1, WorkDistinctStep DEF IsInjective
<1>8. \A x, c : Told(x, c) => Told(x, c)'
  BY <1>3 DEF Told, Completed
<1>9. ASSUME NEW c \in DOMAIN contexts', contexts'[c].tag = "Alt",
             NEW x, Packed(c, x)'
      PROVE  c \in DOMAIN contexts /\ Packed(c, x)
  <2> DEFINE p == contexts'[c].memo
  <2>1. p \in DOMAIN memos
    <3>1. CASE c \notin DOMAIN contexts
      BY <1>9, <3>1
    <3>2. CASE c \in DOMAIN contexts
      <4>1. contexts[c] \in Context(DOMAIN expressions, DOMAIN memos)
        BY <3>2 DEF TypeOK
      <4> QED  BY <1>9, <3>2, <4>1, ContextFields
    <3> QED  BY <3>1, <3>2
  <2>2. \/ /\ memos'[p].end = position'
           /\ x \in Range(expressions'[memos'[p].result].node.children)
        \/ \E i \in DOMAIN operations' :
             /\ operations'[i].op = "Up" /\ operations'[i].memo = p
             /\ x \in Range(operations'[i].node.children)
    BY <1>9 DEF Packed, Completed
  <2> HIDE DEF p
  <2>3. \/ /\ memos[p].end = position
           /\ x \in Range(expressions[memos[p].result].node.children)
        \/ \E i \in DOMAIN operations :
             /\ operations[i].op = "Up" /\ operations[i].memo = p
             /\ x \in Range(operations[i].node.children)
    BY <1>1, <1>2, <2>1, <2>2
  <2>4. ~Unclaimed(p)
    BY <1>1, <2>3 DEF Unclaimed
  <2>5. c \in DOMAIN contexts /\ contexts[c].memo = p
    BY <1>9, <2>4 DEF p
  <2> QED  BY <2>3, <2>5 DEF Packed, Completed
<1>10. ASSUME NEW x \in DOMAIN expressions', NEW c \in DOMAIN contexts', Sent(x, c)'
       PROVE  c \in DOMAIN contexts /\ Sent(x, c) /\ Told(x, c)'
  <2>1. Sent(x, c) /\ c \in DOMAIN contexts
    BY <1>2, <1>10, WorkNames
  <2> QED  BY <1>8, <2>1 DEF Passing
<1>11. Passing'
  BY <1>8, <1>9, <1>10 DEF Passing
<1> QED  BY <1>4, <1>6, <1>7, <1>11

\* A sequence gets its packer's only Alt context.
LEMMA FreshSeqOnce ==
  ASSUME Once, FreshSeq
  PROVE  Graph' /\ Joining' /\ WorkDistinct' /\ Passing' /\ ChangesOnce'
<1> DEFINE o == Head(operations)
           op == DownOp(next_context + 1, Head(o.node.children))
           alternative == AltContext(o.memo)
           sequence == SeqContext(next_memo, o.node.symbol, <<>>,
                                  Tail(o.node.children))
           new == <<NewContext(next_context),
                    ParentAppended(next_memo, next_context),
                    NewContext(next_context + 1)>>
<1> USE DEF Once, Reported, Inductive
<1>1. /\ operations # <<>> /\ Log(new) /\ Push(<<op>>) /\ UNCHANGED frame
      /\ expressions' = expressions
      /\ memos' = Insert(memos, next_memo,
                         FreshMemo(memos[o.memo].start, next_context))
      /\ contexts' = Insert(Insert(contexts, next_context, alternative),
                            next_context + 1, sequence)
  BY DEF FreshSeq, Popped, InsertMemo
<1>2. o.memo \in DOMAIN memos /\ Unclaimed(o.memo)
  BY FreshTop DEF FreshSeq
<1>3. /\ next_context \notin DOMAIN contexts /\ next_context + 1 \notin DOMAIN contexts
      /\ next_context # next_context + 1 /\ next_memo \notin DOMAIN memos
  BY DEF TypeOK
<1>4. /\ DOMAIN contexts' = DOMAIN contexts \cup {next_context, next_context + 1}
      /\ \A c \in DOMAIN contexts : contexts'[c] = contexts[c]
      /\ contexts'[next_context].tag = "Alt"
      /\ contexts'[next_context].memo = o.memo
      /\ contexts'[next_context + 1].tag = "Seq"
  <2>1. /\ alternative.tag = "Alt" /\ alternative.memo = o.memo
        /\ sequence.tag = "Seq"
    BY DEF AltContext, SeqContext
  <2> HIDE DEF alternative, sequence
  <2> QED  BY <1>1, <1>3, <2>1 DEF Insert
<1>5. /\ DOMAIN memos' = DOMAIN memos \cup {next_memo}
      /\ memos'[next_memo].end = None
      /\ memos'[next_memo].parents = <<next_context>>
      /\ \A m \in DOMAIN memos : memos'[m] = memos[m]
  BY <1>1, <1>3 DEF Insert, FreshMemo
<1>6. IsInjective(memos'[next_memo].parents)
  BY <1>5 DEF IsInjective
<1>7. \A c \in DOMAIN contexts :
        ~(contexts[c].tag = "Alt" /\ contexts[c].memo = o.memo)
  BY <1>2 DEF Unclaimed, AltTarget
<1>8. /\ <<op>> \in Seq({op}) /\ DOMAIN <<op>> = {1} /\ <<op>>[1] = op
      /\ IsInjective(<<op>>)
  BY DEF IsInjective
<1>9. Graph' /\ Joining' /\ WorkDistinct' /\ Passing'
  <2>1. \A k \in DOMAIN <<op>> :
          \E e : \E c : c \notin DOMAIN contexts /\ <<op>>[k] = DownOp(c, e)
    BY <1>3, <1>8
  <2>2. \A c, d \in DOMAIN contexts' :
          contexts'[c].tag = "Alt" /\ contexts'[d].tag = "Alt"
            /\ contexts'[c].memo = contexts'[d].memo => c = d
    <3>1. \A c \in DOMAIN contexts' : contexts'[c].tag = "Alt" =>
            \/ c \in DOMAIN contexts /\ contexts'[c] = contexts[c]
            \/ c = next_context /\ contexts'[c].memo = o.memo
      BY <1>4
    <3> HIDE DEF o
    <3> QED  BY <1>7, <3>1 DEF Graph
  <2>3. \A c \in DOMAIN contexts' :
          c \notin DOMAIN contexts /\ contexts'[c].tag = "Alt" =>
            contexts'[c].memo \in DOMAIN memos /\ Unclaimed(contexts'[c].memo)
    BY <1>2, <1>4
  <2> HIDE DEF op
  <2> QED  BY <1>1, <1>4, <1>5, <1>6, <1>8, <2>1, <2>2, <2>3, ContextsOnce
<1>10. ChangesOnce'
  <2>1. /\ DOMAIN new = 1 .. 3 /\ new[1] = NewContext(next_context)
        /\ new[2] = ParentAppended(next_memo, next_context)
        /\ new[3] = NewContext(next_context + 1)
        /\ new \in Seq({NewContext(next_context), NewContext(next_context + 1),
                        ParentAppended(next_memo, next_context)})
    OBVIOUS
  <2>2. IsInjective(new)
    BY <1>3, <2>1 DEF IsInjective, NewContext, ParentAppended
  <2>3. \A k \in DOMAIN new :
          \/ \E c : c \notin DOMAIN contexts /\ new[k] = NewContext(c)
          \/ \E m, c : m \notin DOMAIN memos /\ new[k] = ParentAppended(m, c)
    <3>1. \A k \in DOMAIN new : k = 1 \/ k = 2 \/ k = 3
      BY <2>1
    <3> QED  BY <1>3, <2>1, <3>1
  <2> HIDE DEF new
  <2> QED  BY <1>1, <2>1, <2>2, <2>3, ReportOnce
<1> QED  BY <1>9, <1>10

\* An operation that inserts one context and reports it.
LEMMA ContextOnce ==
  ASSUME Once, operations # <<>>, UNCHANGED frame, expressions' = expressions,
         memos' = memos, NEW c, InsertContext(c), Log(<<NewContext(next_context)>>),
         c.tag = "Alt" => c.memo \in DOMAIN memos /\ Unclaimed(c.memo),
         NEW T, NEW ops \in Seq(T), Push(ops), IsInjective(ops),
         \A k \in DOMAIN ops : \E e : ops[k] = DownOp(next_context, e)
  PROVE  Graph' /\ Joining' /\ WorkDistinct' /\ Passing' /\ ChangesOnce'
<1> USE DEF Once, Reported, Inductive
<1>1. next_context \notin DOMAIN contexts
  BY DEF TypeOK
<1>2. /\ DOMAIN contexts' = DOMAIN contexts \cup {next_context}
      /\ \A d \in DOMAIN contexts : contexts'[d] = contexts[d]
      /\ contexts'[next_context] = c
  BY <1>1 DEF InsertContext, Insert
<1>3. \A b, d \in DOMAIN contexts' :
        contexts'[b].tag = "Alt" /\ contexts'[d].tag = "Alt"
          /\ contexts'[b].memo = contexts'[d].memo => b = d
  <2>1. c.tag = "Alt" => \A d \in DOMAIN contexts :
          ~(contexts[d].tag = "Alt" /\ contexts[d].memo = c.memo)
    BY DEF Unclaimed, AltTarget
  <2>2. \A d \in DOMAIN contexts' :
          \/ d \in DOMAIN contexts /\ contexts'[d] = contexts[d]
          \/ d = next_context /\ contexts'[d] = c
    BY <1>2
  <2> QED  BY <2>1, <2>2 DEF Graph
<1>4. \A d \in DOMAIN contexts' :
        d \notin DOMAIN contexts /\ contexts'[d].tag = "Alt" =>
          contexts'[d].memo \in DOMAIN memos /\ Unclaimed(contexts'[d].memo)
  BY <1>2
<1>5. \A k \in DOMAIN ops :
        \E e : \E d : d \notin DOMAIN contexts /\ ops[k] = DownOp(d, e)
  BY <1>1
<1>6. Graph' /\ Joining' /\ WorkDistinct' /\ Passing'
  BY <1>2, <1>3, <1>4, <1>5, ContextsOnce
<1>7. ChangesOnce'
  BY <1>1, ReportOneOnce
<1> QED  BY <1>6, <1>7

\* A sequence that moves on gets a new context and enters one child.
LEMMA UpNextOnce ==
  ASSUME Once, UpNext
  PROVE  Graph' /\ Joining' /\ WorkDistinct' /\ Passing' /\ ChangesOnce'
<1> DEFINE context == contexts[Head(operations).context]
           op == DownOp(next_context, Head(context.right))
           moved == SeqContext(context.memo, context.symbol,
                               Append(context.left, Head(operations).expression),
                               Tail(context.right))
<1>1. /\ operations # <<>> /\ UNCHANGED frame /\ expressions' = expressions
      /\ memos' = memos /\ InsertContext(moved)
      /\ Push(<<op>>) /\ Log(<<NewContext(next_context)>>)
  BY DEF UpNext, Rising, Popped
<1>2. moved.tag # "Alt"
  BY DEF SeqContext
<1>3. \E e : op = DownOp(next_context, e)
  OBVIOUS
<1> HIDE DEF op, moved
<1>4. /\ <<op>> \in Seq({op}) /\ DOMAIN <<op>> = {1} /\ <<op>>[1] = op
      /\ IsInjective(<<op>>)
  BY DEF IsInjective
<1> QED  BY <1>1, <1>2, <1>3, <1>4, ContextOnce

\* An alternative enters each of its children once, because it names each once.
LEMMA FreshAltOnce ==
  ASSUME Once, FreshAlt
  PROVE  Graph' /\ Joining' /\ WorkDistinct' /\ Passing' /\ ChangesOnce'
<1> DEFINE o == Head(operations)
           children == o.node.children
           entered == {i \in DOMAIN children : Selected(children[i])}
           n == Cardinality(entered)
           ops(kept) == [i \in 1 .. n |-> DownOp(next_context, children[kept[i]])]
<1> USE DEF Once, Reported, Inductive
<1>1. /\ operations # <<>> /\ children \in Seq(DOMAIN expressions)
      /\ UNCHANGED frame /\ expressions' = expressions /\ memos' = memos
      /\ InsertContext(AltContext(o.memo)) /\ Log(<<NewContext(next_context)>>)
  BY PoppedType, OperationFields, NodeFields DEF FreshAlt
<1>2. o.memo \in DOMAIN memos /\ Unclaimed(o.memo)
  BY FreshTop DEF FreshAlt
<1>3. /\ AltContext(o.memo).tag = "Alt" /\ AltContext(o.memo).memo = o.memo
  BY DEF AltContext
<1>4. n \in Nat
  <2>1. DOMAIN children = 1 .. Len(children) /\ Len(children) \in Nat
    BY <1>1, LenProperties
  <2>2. IsFiniteSet(DOMAIN children)
    BY <2>1, FS_Interval
  <2> QED  BY <2>2, FS_Subset, FS_CardinalityType
<1>5. IsInjective(children)
  <2>1. 1 \in DOMAIN operations /\ operations[1] = o
    BY <1>1, TopWork
  <2>2. o.op = "DownFresh" /\ o.node.tag = "Alt"
    BY DEF FreshAlt, Popped
  <2> HIDE DEF o
  <2> QED  BY <2>1, <2>2 DEF Graph, Distinct
<1>6. PICK kept \in [1 .. n -> entered] :
        /\ \A i, j \in DOMAIN kept : i < j => kept[i] < kept[j]
        /\ Push(ops(kept))
  BY DEF FreshAlt
<1>7. \A i, j \in 1 .. n : kept[i] = kept[j] => i = j
  <2> TAKE i, j \in 1 .. n
  <2>1. i \in Int /\ j \in Int /\ DOMAIN kept = 1 .. n
    BY <1>4
  <2>2. kept[i] \in DOMAIN children /\ kept[j] \in DOMAIN children
    OBVIOUS
  <2>3. kept[i] \in Int /\ kept[j] \in Int
    BY <1>1, <2>2, LenProperties
  <2>4. /\ i < j => kept[i] < kept[j]
        /\ j < i => kept[j] < kept[i]
    BY <1>6, <2>1
  <2> HIDE DEF n, entered
  <2> QED  BY <2>1, <2>3, <2>4
<1>8. ops(kept) \in Seq({ops(kept)[i] : i \in 1 .. n})
  BY <1>4, FunctionSeq
<1>9. /\ DOMAIN ops(kept) = 1 .. n
      /\ \A i \in 1 .. n : ops(kept)[i] = DownOp(next_context, children[kept[i]])
  OBVIOUS
<1>10. IsInjective(ops(kept))
  <2>1. ASSUME NEW i \in 1 .. n, NEW j \in 1 .. n, ops(kept)[i] = ops(kept)[j]
        PROVE  i = j
    <3>1. children[kept[i]] = children[kept[j]]
      BY <2>1 DEF DownOp
    <3>2. kept[i] \in DOMAIN children /\ kept[j] \in DOMAIN children
      OBVIOUS
    <3>3. kept[i] = kept[j]
      BY <1>5, <3>1, <3>2 DEF IsInjective
    <3> QED  BY <1>7, <3>3
  <2> QED  BY <1>9, <2>1 DEF IsInjective
<1>11. \A k \in DOMAIN ops(kept) : \E e : ops(kept)[k] = DownOp(next_context, e)
  OBVIOUS
<1> HIDE DEF ops
<1> QED  BY <1>1, <1>2, <1>3, <1>6, <1>8, <1>10, <1>11, ContextOnce

\* A memo completes with an expression that nothing refers to yet, and each of
\* its parents is told once.
LEMMA UpOnce ==
  ASSUME Once, Up
  PROVE  Graph' /\ Joining' /\ WorkDistinct' /\ Passing' /\ ChangesOnce'
<1> DEFINE o == Head(operations)
           parents == memos[o.memo].parents
           ops == [i \in 1 .. Len(parents) |->
                     UpContextOp(next_expression, parents[i])]
<1> USE DEF Once, Reported, Inductive
<1>1. /\ operations # <<>> /\ Push(ops) /\ Log(<<NewExpression(next_expression)>>)
      /\ UNCHANGED frame /\ contexts' = contexts
      /\ expressions' = Insert(expressions, next_expression,
                               [memo |-> None, fixed |-> TRUE, node |-> o.node])
  BY DEF Up, Popped, InsertExpression
<1>2. /\ next_expression \notin DOMAIN expressions
      /\ o.memo \in DOMAIN memos /\ o.op = "Up"
      /\ o = operations[1] /\ 1 \in DOMAIN operations
      /\ \A e \in DOMAIN expressions : expressions'[e] = expressions[e]
      /\ DOMAIN memos' = DOMAIN memos
      /\ memos'[o.memo].end = position
      /\ memos'[o.memo].result = next_expression
      /\ \A m \in DOMAIN memos :
           /\ memos'[m].start = memos[m].start
           /\ memos'[m].parents = memos[m].parents
           /\ m # o.memo => memos'[m] = memos[m]
  BY UpEffect
<1>3. /\ DOMAIN expressions' = DOMAIN expressions \cup {next_expression}
      /\ expressions'[next_expression].memo = None
      /\ expressions'[next_expression].node = o.node
  BY <1>1 DEF Insert
<1>4. position' = position
  BY <1>1 DEF frame
<1>5. parents \in Seq(DOMAIN contexts) /\ IsInjective(parents)
  BY <1>2 DEF TypeOK, Memo, Graph
<1>6. /\ DOMAIN parents = 1 .. Len(parents) /\ Len(parents) \in Nat
      /\ DOMAIN ops = 1 .. Len(parents)
      /\ ops \in Seq({ops[i] : i \in 1 .. Len(parents)})
      /\ \A k \in 1 .. Len(parents) :
           ops[k] = UpContextOp(next_expression, parents[k])
  <2>1. DOMAIN parents = 1 .. Len(parents) /\ Len(parents) \in Nat
    BY <1>5, LenProperties
  <2>2. ops \in Seq({ops[i] : i \in 1 .. Len(parents)})
    BY <2>1, FunctionSeq
  <2> QED  BY <2>1, <2>2
<1>7. Distinct(o.node)
  <2>1. Single(o.node)
    BY <1>2 DEF Reporting
  <2>2. o \in Operation(DOMAIN expressions, DOMAIN memos, DOMAIN contexts)
    BY <1>1, LenProperties DEF TypeOK
  <2>3. o.node \in Node(DOMAIN expressions)
    BY <1>2, <2>2, OperationFields
  <2> QED  BY <2>1, <2>3, SingleDistinct
<1>8. ASSUME NEW m \in DOMAIN memos, Completed(m)
      PROVE  memos[m].result \in DOMAIN expressions
  BY <1>8, CompletedResult
<1> HIDE DEF o, parents, ops
<1>9. /\ \A e, c : Asked(e, c)' => Asked(e, c)
      /\ \A x, c : Sent(x, c)' =>
           Sent(x, c) \/ (x = next_expression /\ c \in Range(parents))
      /\ \A i \in DOMAIN operations' :
           \/ \E k \in DOMAIN ops : operations'[i] = ops[k]
           \/ \E j \in DOMAIN operations : j > 1 /\ operations'[i] = operations[j]
      /\ \A k \in DOMAIN ops : ops[k].op = "UpContext"
  <2>1. \A k \in DOMAIN ops : ops[k].op = "UpContext"
    BY <1>6 DEF UpContextOp
  <2>2. \A e, c : \A k \in DOMAIN ops : ops[k] # DownOp(c, e)
    BY <2>1 DEF DownOp
  <2>3. \A x, c : \A k \in DOMAIN ops : ops[k] = UpContextOp(x, c) =>
          x = next_expression /\ c \in Range(parents)
    BY <1>6 DEF UpContextOp, Range
  <2>4. ops \in Seq({ops[i] : i \in 1 .. Len(parents)})
    BY <1>6
  <2>5. /\ \A e, c : Asked(e, c)' => AskedBelow(e, c)
        /\ \A x, c : Sent(x, c)' =>
             SentBelow(x, c) \/ \E k \in DOMAIN ops : ops[k] = UpContextOp(x, c)
        /\ \A i \in DOMAIN operations' :
             \/ \E k \in DOMAIN ops : operations'[i] = ops[k]
             \/ \E j \in DOMAIN operations : j > 1 /\ operations'[i] = operations[j]
    BY <1>1, <2>2, <2>4, PushedWork
  <2>6. /\ \A e, c : AskedBelow(e, c) => Asked(e, c)
        /\ \A x, c : SentBelow(x, c) => Sent(x, c)
    BY <1>1, TopWork
  <2> QED  BY <2>1, <2>3, <2>5, <2>6
<1>10. Graph'
  <2>1. \A e \in DOMAIN expressions' : Distinct(expressions'[e].node)
    BY <1>2, <1>3, <1>7 DEF Graph
  <2>2. \A i \in DOMAIN operations' :
          operations'[i].op = "DownFresh" => Distinct(operations'[i].node)
    BY <1>9 DEF Graph
  <2>3. \A m \in DOMAIN memos' : IsInjective(memos'[m].parents)
    BY <1>2 DEF Graph
  <2>4. \A m, n \in DOMAIN memos' :
          memos'[m].end = position' /\ memos'[n].end = position'
            /\ memos'[m].result = memos'[n].result => m = n
    BY <1>2, <1>4, <1>8 DEF Graph, Completed
  <2> QED  BY <1>1, <2>1, <2>2, <2>3, <2>4 DEF Graph, Completed
<1>11. Joining'
  <2>1. ASSUME NEW e \in DOMAIN expressions', NEW c \in DOMAIN contexts',
               Asked(e, c)', Entered(e)'
        PROVE  c \notin Range(memos'[expressions'[e].memo].parents)
    <3>1. e \in DOMAIN expressions /\ c \in DOMAIN contexts /\ Asked(e, c)
      BY <1>1, <1>9, <2>1, WorkNames
    <3>2. expressions'[e] = expressions[e]
      BY <1>2, <3>1
    <3>3. expressions[e].memo # None /\ memos'[expressions[e].memo].start = position
      BY <1>4, <2>1, <3>2 DEF Entered
    <3>4. expressions[e].memo \in DOMAIN memos
      BY <3>1, <3>3 DEF TypeOK, Expression, Option
    <3>5. Entered(e)
      BY <1>2, <3>3, <3>4 DEF Entered
    <3> QED  BY <1>2, <3>1, <3>2, <3>4, <3>5 DEF Joining
  <2> QED  BY <2>1 DEF Joining
<1>12. WorkDistinct'
  <2>1. \A k \in DOMAIN ops : \A j \in DOMAIN operations : operations[j] # ops[k]
    <3>1. ASSUME NEW k \in DOMAIN ops, NEW j \in DOMAIN operations,
                 operations[j] = ops[k]
          PROVE  FALSE
      <4>1. Sent(next_expression, parents[k])
        BY <1>6, <3>1 DEF Sent
      <4> QED  BY <1>2, <4>1, WorkNames
    <3> QED  BY <3>1
  <2>2. \A k, l \in DOMAIN ops : ops[k] = ops[l] => k = l
    BY <1>5, <1>6 DEF UpContextOp, IsInjective
  <2> QED  BY <1>1, <1>6, <2>1, <2>2, WorkDistinctStep
<1>13. ASSUME NEW x \in DOMAIN expressions, NEW c, Told(x, c)
       PROVE  Told(x, c)'
  BY <1>2, <1>4, <1>13 DEF Told, Completed
<1>14. ASSUME NEW x, x = next_expression, NEW c \in Range(parents)
       PROVE  Told(x, c)'
  <2>1. \A m \in DOMAIN memos' :
          memos'[m].end = position' /\ memos'[m].result = next_expression =>
            m = o.memo
    BY <1>2, <1>4, <1>8 DEF Completed
  <2>2. memos'[o.memo].parents = parents
    BY <1>2 DEF parents
  <2> QED  BY <1>14, <2>1, <2>2 DEF Told, Completed
<1>15. ASSUME NEW c \in DOMAIN contexts, contexts[c].tag = "Alt",
              NEW x, Packed(c, x)'
       PROVE  Packed(c, x)
  <2> DEFINE p == contexts[c].memo
  <2>1. p \in DOMAIN memos
    <3>1. contexts[c] \in Context(DOMAIN expressions, DOMAIN memos)
      BY DEF TypeOK
    <3> QED  BY <1>15, <3>1, ContextFields
  <2>2. \/ /\ memos'[p].end = position'
           /\ x \in Range(expressions'[memos'[p].result].node.children)
        \/ \E i \in DOMAIN operations' :
             /\ operations'[i].op = "Up" /\ operations'[i].memo = p
             /\ x \in Range(operations'[i].node.children)
    BY <1>1, <1>15 DEF Packed, Completed
  <2> HIDE DEF p
  <2>3. \/ /\ memos[p].end = position
           /\ x \in Range(expressions[memos[p].result].node.children)
        \/ \E i \in DOMAIN operations :
             /\ operations[i].op = "Up" /\ operations[i].memo = p
             /\ x \in Range(operations[i].node.children)
    <3>1. CASE \E i \in DOMAIN operations' :
                 /\ operations'[i].op = "Up" /\ operations'[i].memo = p
                 /\ x \in Range(operations'[i].node.children)
      BY <1>9, <3>1
    <3>2. CASE /\ memos'[p].end = position'
               /\ x \in Range(expressions'[memos'[p].result].node.children)
      <4>1. CASE p = o.memo
        BY <1>2, <1>3, <3>2, <4>1
      <4>2. CASE p # o.memo
        <5>1. memos'[p] = memos[p]
          BY <1>2, <2>1, <4>2
        <5>2. memos[p].result \in DOMAIN expressions
          BY <1>4, <1>8, <2>1, <3>2, <5>1 DEF Completed
        <5> QED  BY <1>2, <1>4, <3>2, <5>1, <5>2
      <4> QED  BY <4>1, <4>2
    <3> QED  BY <2>2, <3>1, <3>2
  <2> QED  BY <2>3 DEF Packed, Completed, p
<1>16. ASSUME NEW x \in DOMAIN expressions', NEW c \in DOMAIN contexts'
       PROVE  /\ Sent(x, c)' => Told(x, c)'
              /\ contexts'[c].tag = "Alt" /\ Packed(c, x)' => Told(x, c)'
              /\ contexts'[c].tag = "Alt" /\ Sent(x, c)' => ~Packed(c, x)'
  <2>1. c \in DOMAIN contexts /\ contexts'[c] = contexts[c]
    BY <1>1
  <2>2. contexts[c].tag = "Alt" /\ Packed(c, x)' =>
          x \in DOMAIN expressions /\ Packed(c, x)
    BY <1>15, <2>1, PackedNames
  <2>3. Sent(x, c)' => Told(x, c)'
    <3>1. Sent(x, c) => x \in DOMAIN expressions /\ Told(x, c)
      BY <2>1, WorkNames DEF Passing
    <3> QED  BY <1>9, <1>13, <1>14, <3>1
  <2>4. contexts[c].tag = "Alt" /\ Packed(c, x)' => Told(x, c)'
    BY <1>13, <2>1, <2>2 DEF Passing
  <2>5. contexts[c].tag = "Alt" /\ Sent(x, c)' => ~Packed(c, x)'
    BY <1>2, <1>9, <2>1, <2>2 DEF Passing
  <2> QED  BY <2>1, <2>3, <2>4, <2>5
<1>17. Passing'
  BY <1>16 DEF Passing
<1>18. ChangesOnce'
  BY <1>1, <1>2, ReportOneOnce
<1> QED  BY <1>10, <1>11, <1>12, <1>17, <1>18

\* A later alternative joins the result of the one memo its context packs for,
\* and is not there yet.
LEMMA UpPackedOnce ==
  ASSUME Once, UpPacked
  PROVE  Graph' /\ Joining' /\ WorkDistinct' /\ Passing' /\ ChangesOnce'
<1> DEFINE o == Head(operations)
           memo == contexts[o.context].memo
           alternative == memos[memo].result
           children == expressions[alternative].node.children
<1> USE DEF Once, Reported, Inductive
<1>1. /\ operations # <<>> /\ Push(<<>>) /\ UNCHANGED frame
      /\ Log(<<ChildAppended(alternative, o.expression)>>)
      /\ contexts' = contexts /\ memos' = memos
      /\ expressions' = [expressions EXCEPT ![alternative].node.children =
                           Append(@, o.expression)]
      /\ Rising("Alt") /\ o.op = "UpContext"
  BY DEF UpPacked, Rising, Popped
<1>2. /\ o.context \in DOMAIN contexts /\ contexts[o.context].tag = "Alt"
      /\ o.expression \in DOMAIN expressions
      /\ Sent(o.expression, o.context) /\ ~SentBelow(o.expression, o.context)
      /\ memo \in DOMAIN memos /\ Completed(memo)
  BY <1>1, RisingType, TopWork, UpPackedEffect
<1>3. Told(o.expression, o.context) /\ ~Packed(o.context, o.expression)
  BY <1>2 DEF Passing
<1>4. /\ alternative \in DOMAIN expressions
      /\ expressions[alternative].node.tag = "Alt"
      /\ expressions[alternative] \in Expression(DOMAIN expressions, DOMAIN memos)
      /\ children \in Seq(DOMAIN expressions)
      /\ expressions[alternative].node = Alt(children)
  <2>1. AltTarget(memo)
    BY <1>2 DEF AltTarget
  <2>2. alternative \in DOMAIN expressions /\ expressions[alternative].node.tag = "Alt"
    BY <1>2, <2>1, CompletedResult
  <2>3. expressions[alternative] \in Expression(DOMAIN expressions, DOMAIN memos)
    BY <2>2 DEF TypeOK
  <2>4. expressions[alternative].node \in Node(DOMAIN expressions)
    BY <2>3 DEF Expression
  <2> QED  BY <2>2, <2>3, <2>4, NodeFields
<1>5. o.expression \notin Range(children)
  BY <1>2, <1>3 DEF Packed
<1>6. position' = position
  BY <1>1 DEF frame
<1>7. /\ <<>> \in Seq({}) /\ DOMAIN <<>> = {}
  OBVIOUS
<1> HIDE DEF o, memo, alternative
<1>8. /\ DOMAIN expressions' = DOMAIN expressions
      /\ \A e \in DOMAIN expressions :
           e # alternative => expressions'[e] = expressions[e]
      /\ expressions'[alternative].memo = expressions[alternative].memo
      /\ expressions'[alternative].node.tag = "Alt"
      /\ expressions'[alternative].node.children = Append(children, o.expression)
  BY <1>1, <1>4 DEF Expression, Alt
<1>9. /\ Range(Append(children, o.expression)) = Range(children) \cup {o.expression}
      /\ IsInjective(Append(children, o.expression))
  <2>1. IsInjective(children)
    BY <1>4 DEF Graph, Distinct
  <2> HIDE DEF children
  <2> QED  BY <1>2, <1>4, <1>5, <2>1, RangeAppend, AppendDistinct
<1>10. /\ \A e, c : Asked(e, c)' => Asked(e, c)
       /\ \A x, c : Sent(x, c)' => SentBelow(x, c) /\ Sent(x, c)
       /\ \A i \in DOMAIN operations' :
            \E j \in DOMAIN operations : j > 1 /\ operations'[i] = operations[j]
  BY <1>1, <1>7, PushedWork, TopWork
<1>11. Graph'
  <2>1. \A e \in DOMAIN expressions' : Distinct(expressions'[e].node)
    BY <1>8, <1>9 DEF Graph, Distinct
  <2>2. \A i \in DOMAIN operations' :
          operations'[i].op = "DownFresh" => Distinct(operations'[i].node)
    BY <1>10 DEF Graph
  <2> QED  BY <1>1, <1>6, <2>1, <2>2 DEF Graph, Completed
<1>12. \A e \in DOMAIN expressions : expressions'[e].memo = expressions[e].memo
  BY <1>4, <1>8
<1>13. Joining'
  BY <1>1, <1>6, <1>8, <1>10, <1>12 DEF Joining, Entered
<1>14. WorkDistinct'
  BY <1>1, <1>7, WorkDistinctStep
<1>15. \A x, c : Told(x, c) => Told(x, c)'
  BY <1>1, <1>6 DEF Told, Completed
<1>16. ASSUME NEW c \in DOMAIN contexts, contexts[c].tag = "Alt",
              NEW x, Packed(c, x)'
       PROVE  Packed(c, x) \/ (c = o.context /\ x = o.expression)
  <2> DEFINE p == contexts[c].memo
  <2>1. p \in DOMAIN memos
    <3>1. contexts[c] \in Context(DOMAIN expressions, DOMAIN memos)
      BY DEF TypeOK
    <3> QED  BY <1>16, <3>1, ContextFields
  <2>2. \/ /\ memos[p].end = position
           /\ x \in Range(expressions'[memos[p].result].node.children)
        \/ \E i \in DOMAIN operations' :
             /\ operations'[i].op = "Up" /\ operations'[i].memo = p
             /\ x \in Range(operations'[i].node.children)
    BY <1>1, <1>6, <1>16 DEF Packed, Completed
  <2>3. CASE \E i \in DOMAIN operations' :
               /\ operations'[i].op = "Up" /\ operations'[i].memo = p
               /\ x \in Range(operations'[i].node.children)
    <3> HIDE DEF p
    <3>1. \E i \in DOMAIN operations :
            /\ operations[i].op = "Up" /\ operations[i].memo = p
            /\ x \in Range(operations[i].node.children)
      BY <1>10, <2>3
    <3> QED  BY <3>1 DEF Packed, p
  <2>4. CASE /\ memos[p].end = position
             /\ x \in Range(expressions'[memos[p].result].node.children)
    <3>1. Completed(p)
      BY <2>4 DEF Completed
    <3>2. memos[p].result \in DOMAIN expressions
      BY <2>1, <3>1, CompletedResult
    <3>3. CASE memos[p].result # alternative
      BY <1>8, <2>4, <3>1, <3>2, <3>3 DEF Packed
    <3>4. CASE memos[p].result = alternative
      <4>1. p = memo
        BY <1>2, <2>1, <3>1, <3>4 DEF Graph, alternative
      <4>2. c = o.context
        BY <1>2, <1>16, <4>1 DEF Graph, memo
      <4>3. x \in Range(children) \/ x = o.expression
        BY <1>8, <1>9, <2>4, <3>4
      <4> QED  BY <3>1, <3>4, <4>2, <4>3 DEF Packed
    <3> QED  BY <3>3, <3>4
  <2> QED  BY <2>2, <2>3, <2>4
<1>17. ASSUME NEW x \in DOMAIN expressions', NEW c \in DOMAIN contexts'
       PROVE  /\ Sent(x, c)' => Told(x, c)'
              /\ contexts'[c].tag = "Alt" /\ Packed(c, x)' => Told(x, c)'
              /\ contexts'[c].tag = "Alt" /\ Sent(x, c)' => ~Packed(c, x)'
  <2>1. c \in DOMAIN contexts /\ contexts'[c] = contexts[c] /\ x \in DOMAIN expressions
    BY <1>1, <1>8
  <2>2. Sent(x, c)' => Told(x, c)'
    BY <1>10, <1>15, <2>1 DEF Passing
  <2>3. contexts[c].tag = "Alt" /\ Packed(c, x)' => Told(x, c)'
    BY <1>3, <1>15, <1>16, <2>1 DEF Passing
  <2>4. contexts[c].tag = "Alt" /\ Sent(x, c)' => ~Packed(c, x)'
    BY <1>2, <1>10, <1>16, <2>1 DEF Passing
  <2> QED  BY <2>1, <2>2, <2>3, <2>4
<1>18. Passing'
  BY <1>17 DEF Passing
<1>19. ChangesOnce'
  <2>1. o.expression \notin Range(Tail(expressions[alternative].node.children))
    <3>1. children # <<>>
      <4>1. alternative >= published.expression
        BY <1>2 DEF Stamped, alternative
      <4> QED  BY <1>4, <4>1 DEF Reporting
    <3> HIDE DEF children
    <3>2. /\ DOMAIN children = 1 .. Len(children) /\ Len(children) \in Nat
          /\ Tail(children) \in Seq(DOMAIN expressions)
          /\ DOMAIN Tail(children) = 1 .. Len(children) - 1
          /\ \A i \in 1 .. Len(children) - 1 : Tail(children)[i] = children[i + 1]
      BY <1>4, <3>1, HeadTailProperties, LenProperties
    <3>3. Range(Tail(children)) \subseteq Range(children)
      BY <3>2 DEF Range
    <3> QED  BY <1>5, <3>3 DEF children
  <2> QED  BY <1>1, <2>1, ReportOneOnce
<1> QED  BY <1>11, <1>13, <1>14, <1>18, <1>19

\* A context joins a memo it has not joined, so that it is told the memo's
\* result, if there is one, for the first time.
LEMMA DownSharedOnce ==
  ASSUME Once, DownShared
  PROVE  Graph' /\ Joining' /\ WorkDistinct' /\ Passing' /\ ChangesOnce'
<1> DEFINE o == Head(operations)
           memo == expressions[o.expression].memo
           parents == memos[memo].parents
           ops == Delivery(memo, o.context)
<1> USE DEF Once, Reported, Inductive
<1>1. /\ operations # <<>> /\ UNCHANGED frame /\ o.op = "Down"
      /\ expressions' = expressions /\ contexts' = contexts
      /\ memos' = [memos EXCEPT ![memo].parents = Append(@, o.context)]
      /\ Log(<<ParentAppended(memo, o.context)>>) /\ Push(ops)
      /\ Entered(o.expression)
  BY DEF DownShared, Popped
<1>2. /\ o.expression \in DOMAIN expressions /\ o.context \in DOMAIN contexts
      /\ Asked(o.expression, o.context) /\ ~AskedBelow(o.expression, o.context)
  BY <1>1, TopWork
<1>3. memo \in DOMAIN memos /\ memo # None /\ position' = position
  BY <1>1, <1>2 DEF Entered, TypeOK, Expression, Option, frame
<1>4. o.context \notin Range(parents)
  BY <1>1, <1>2 DEF Joining
<1>5. parents \in Seq(DOMAIN contexts) /\ IsInjective(parents)
  BY <1>3 DEF TypeOK, Memo, Graph
<1>6. /\ DOMAIN memos' = DOMAIN memos
      /\ memos'[memo].parents = Append(parents, o.context)
      /\ \A m \in DOMAIN memos :
           /\ m # memo => memos'[m] = memos[m]
           /\ memos'[m].start = memos[m].start /\ memos'[m].end = memos[m].end
           /\ memos'[m].result = memos[m].result
  BY <1>1, <1>3 DEF TypeOK, Memo
<1>7. \/ ops = <<>>
      \/ Completed(memo) /\ ops = <<UpContextOp(memos[memo].result, o.context)>>
  BY DEF Delivery
<1> HIDE DEF o, memo, parents, ops
<1> DEFINE op == UpContextOp(memos[memo].result, o.context)
<1>8. /\ ops \in Seq({op})
      /\ \A k \in DOMAIN ops : k = 1 /\ Completed(memo) /\ ops[k] = op
  <2> HIDE DEF op
  <2>1. /\ <<>> \in Seq({op}) /\ DOMAIN <<>> = {}
        /\ <<op>> \in Seq({op}) /\ DOMAIN <<op>> = {1} /\ <<op>>[1] = op
    OBVIOUS
  <2>2. ops = <<>> \/ (Completed(memo) /\ ops = <<op>>)
    BY <1>7 DEF op
  <2> QED  BY <2>1, <2>2
<1>9. /\ Range(memos'[memo].parents) = Range(parents) \cup {o.context}
      /\ IsInjective(memos'[memo].parents)
  BY <1>2, <1>4, <1>5, <1>6, RangeAppend, AppendDistinct
<1>10. /\ \A e, c : Asked(e, c)' => AskedBelow(e, c) /\ Asked(e, c)
       /\ \A x, c : Sent(x, c)' =>
            \/ Sent(x, c)
            \/ Completed(memo) /\ x = memos[memo].result /\ c = o.context
       /\ \A i \in DOMAIN operations' :
            \/ operations'[i].op = "UpContext"
            \/ \E j \in DOMAIN operations : j > 1 /\ operations'[i] = operations[j]
  <2>1. \A k \in DOMAIN ops : ops[k].op = "UpContext"
    BY <1>8 DEF UpContextOp
  <2>2. \A e, c : \A k \in DOMAIN ops : ops[k] # DownOp(c, e)
    BY <2>1 DEF DownOp
  <2>3. \A x, c : \A k \in DOMAIN ops : ops[k] = UpContextOp(x, c) =>
          Completed(memo) /\ x = memos[memo].result /\ c = o.context
    BY <1>8 DEF UpContextOp
  <2>4. /\ \A e, c : Asked(e, c)' => AskedBelow(e, c)
        /\ \A x, c : Sent(x, c)' =>
             SentBelow(x, c) \/ \E k \in DOMAIN ops : ops[k] = UpContextOp(x, c)
        /\ \A i \in DOMAIN operations' :
             \/ \E k \in DOMAIN ops : operations'[i] = ops[k]
             \/ \E j \in DOMAIN operations : j > 1 /\ operations'[i] = operations[j]
    BY <1>1, <1>8, <2>2, PushedWork
  <2>5. /\ \A e, c : AskedBelow(e, c) => Asked(e, c)
        /\ \A x, c : SentBelow(x, c) => Sent(x, c)
    BY <1>1, TopWork
  <2> QED  BY <2>1, <2>3, <2>4, <2>5
<1>11. Graph'
  <2>1. \A i \in DOMAIN operations' :
          operations'[i].op = "DownFresh" => Distinct(operations'[i].node)
    BY <1>10 DEF Graph
  <2>2. \A m \in DOMAIN memos' : IsInjective(memos'[m].parents)
    BY <1>6, <1>9 DEF Graph
  <2>3. \A m, n \in DOMAIN memos' :
          memos'[m].end = position' /\ memos'[n].end = position'
            /\ memos'[m].result = memos'[n].result => m = n
    BY <1>3, <1>6 DEF Graph, Completed
  <2> QED  BY <1>1, <2>1, <2>2, <2>3 DEF Graph, Completed
<1>12. Joining'
  <2>1. ASSUME NEW e \in DOMAIN expressions', NEW c \in DOMAIN contexts',
               Asked(e, c)', Entered(e)'
        PROVE  c \notin Range(memos'[expressions[e].memo].parents)
    <3>1. /\ e \in DOMAIN expressions /\ c \in DOMAIN contexts
          /\ Asked(e, c) /\ AskedBelow(e, c)
      BY <1>1, <1>10, <2>1
    <3>2. expressions[e].memo # None /\ memos'[expressions[e].memo].start = position
      BY <1>1, <1>3, <2>1 DEF Entered
    <3>3. expressions[e].memo \in DOMAIN memos
      BY <3>1, <3>2 DEF TypeOK, Expression, Option
    <3>4. Entered(e)
      BY <1>6, <3>2, <3>3 DEF Entered
    <3>5. c \notin Range(memos[expressions[e].memo].parents)
      BY <3>1, <3>4 DEF Joining
    <3>6. CASE expressions[e].memo = memo
      <4>1. e = o.expression
        BY <1>2, <3>1, <3>2, <3>6 DEF Bounded, MemosOwned, memo
      <4>2. c # o.context
        BY <1>2, <3>1, <4>1
      <4> QED  BY <1>9, <3>5, <3>6, <4>2 DEF parents
    <3>7. CASE expressions[e].memo # memo
      BY <1>6, <3>3, <3>5, <3>7
    <3> QED  BY <3>6, <3>7
  <2> QED  BY <1>1, <2>1 DEF Joining
<1>13. Completed(memo) => ~Sent(memos[memo].result, o.context)
  <2>1. Completed(memo) /\ Sent(memos[memo].result, o.context) =>
          Told(memos[memo].result, o.context)
    BY WorkNames DEF Passing
  <2> QED  BY <1>3, <1>4, <2>1 DEF Told, parents
<1>14. WorkDistinct'
  <2>1. \A k \in DOMAIN ops : \A j \in DOMAIN operations : operations[j] # ops[k]
    BY <1>8, <1>13 DEF Sent
  <2>2. \A k, l \in DOMAIN ops : k = l
    BY <1>8
  <2> QED  BY <1>1, <1>8, <2>1, <2>2, WorkDistinctStep
<1>15. ASSUME NEW x, NEW c, Told(x, c)
       PROVE  Told(x, c)'
  BY <1>3, <1>6, <1>9, <1>15 DEF Told, Completed, parents
<1>16. ASSUME NEW x, x = memos[memo].result, Completed(memo),
              NEW c, c = o.context
       PROVE  Told(x, c)'
  <2>1. \A m \in DOMAIN memos' :
          memos'[m].end = position' /\ memos'[m].result = x => m = memo
    BY <1>3, <1>6, <1>16 DEF Graph, Completed
  <2> QED  BY <1>9, <1>16, <2>1 DEF Told, Completed
<1>17. ASSUME NEW c \in DOMAIN contexts, contexts[c].tag = "Alt",
              NEW x, Packed(c, x)'
       PROVE  Packed(c, x)
  <2> DEFINE p == contexts[c].memo
  <2>1. p \in DOMAIN memos
    <3>1. contexts[c] \in Context(DOMAIN expressions, DOMAIN memos)
      BY DEF TypeOK
    <3> QED  BY <1>17, <3>1, ContextFields
  <2>2. \/ /\ memos'[p].end = position'
           /\ x \in Range(expressions[memos'[p].result].node.children)
        \/ \E i \in DOMAIN operations' :
             /\ operations'[i].op = "Up" /\ operations'[i].memo = p
             /\ x \in Range(operations'[i].node.children)
    BY <1>1, <1>17 DEF Packed, Completed
  <2> HIDE DEF p
  <2>3. \/ /\ memos[p].end = position
           /\ x \in Range(expressions[memos[p].result].node.children)
        \/ \E i \in DOMAIN operations :
             /\ operations[i].op = "Up" /\ operations[i].memo = p
             /\ x \in Range(operations[i].node.children)
    BY <1>3, <1>6, <1>10, <2>1, <2>2
  <2> QED  BY <2>3 DEF Packed, Completed, p
<1>18. Completed(memo) =>
         ~(contexts[o.context].tag = "Alt" /\ Packed(o.context, memos[memo].result))
  <2> SUFFICES ASSUME Completed(memo), contexts[o.context].tag = "Alt",
                      Packed(o.context, memos[memo].result)
               PROVE  FALSE
    OBVIOUS
  <2>1. memos[memo].result \in DOMAIN expressions
    BY <1>3, CompletedResult
  <2>2. Told(memos[memo].result, o.context)
    BY <1>2, <2>1 DEF Passing
  <2> QED  BY <1>3, <1>4, <2>2 DEF Told, parents
<1>19. ASSUME NEW x \in DOMAIN expressions', NEW c \in DOMAIN contexts'
       PROVE  /\ Sent(x, c)' => Told(x, c)'
              /\ contexts'[c].tag = "Alt" /\ Packed(c, x)' => Told(x, c)'
              /\ contexts'[c].tag = "Alt" /\ Sent(x, c)' => ~Packed(c, x)'
  <2>1. c \in DOMAIN contexts /\ contexts'[c] = contexts[c] /\ x \in DOMAIN expressions
    BY <1>1
  <2>2. Sent(x, c)' => Told(x, c)'
    BY <1>10, <1>15, <1>16, <2>1 DEF Passing
  <2>3. contexts[c].tag = "Alt" /\ Packed(c, x)' => Told(x, c)'
    BY <1>15, <1>17, <2>1 DEF Passing
  <2>4. contexts[c].tag = "Alt" /\ Sent(x, c)' => ~Packed(c, x)'
    BY <1>10, <1>17, <1>18, <2>1 DEF Passing
  <2> QED  BY <2>1, <2>2, <2>3, <2>4
<1>20. Passing'
  BY <1>19 DEF Passing
<1>21. ChangesOnce'
  BY <1>1, <1>4, ReportOneOnce DEF parents
<1> QED  BY <1>11, <1>12, <1>14, <1>20, <1>21

\* An expression entered afresh gets a memo with one parent, which no other
\* context that waits to enter it can be.
LEMMA DownEnteredOnce ==
  ASSUME Once, DownEntered
  PROVE  Graph' /\ Joining' /\ WorkDistinct' /\ Passing' /\ ChangesOnce'
<1> DEFINE o == Head(operations)
           op == FreshOp(next_memo, expressions[o.expression].node)
<1> USE DEF Once, Reported, Inductive
<1>1. /\ operations # <<>> /\ UNCHANGED frame /\ o.op = "Down"
      /\ contexts' = contexts /\ Push(<<op>>)
      /\ memos' = Insert(memos, next_memo, FreshMemo(position, o.context))
      /\ expressions' = [expressions EXCEPT ![o.expression].memo = next_memo]
      /\ Log(<<ParentAppended(next_memo, o.context)>>)
  BY DEF DownEntered, Popped, InsertMemo
<1>2. /\ o.expression \in DOMAIN expressions /\ o.context \in DOMAIN contexts
      /\ ~AskedBelow(o.expression, o.context)
  BY <1>1, TopWork
<1>3. position' = position /\ position # None
  BY <1>1 DEF frame, TypeOK, None
<1>4. /\ next_memo \notin DOMAIN memos
      /\ DOMAIN memos' = DOMAIN memos \cup {next_memo}
      /\ memos'[next_memo].end = None
      /\ memos'[next_memo].parents = <<o.context>>
      /\ \A m \in DOMAIN memos : memos'[m] = memos[m]
  BY <1>1 DEF TypeOK, Insert, FreshMemo
<1>5. /\ DOMAIN expressions' = DOMAIN expressions
      /\ expressions'[o.expression].memo = next_memo
      /\ \A e \in DOMAIN expressions :
           /\ expressions'[e].node = expressions[e].node
           /\ e # o.expression => expressions'[e].memo = expressions[e].memo
  BY <1>1, <1>2 DEF TypeOK, Expression
<1>6. op.op = "DownFresh" /\ op.node = expressions[o.expression].node
  BY DEF FreshOp
<1> HIDE DEF o, op
<1>7. /\ <<op>> \in Seq({op}) /\ DOMAIN <<op>> = {1} /\ <<op>>[1] = op
  OBVIOUS
<1>8. /\ \A e, c : Asked(e, c)' => AskedBelow(e, c) /\ Asked(e, c)
      /\ \A x, c : Sent(x, c)' => Sent(x, c)
      /\ \A i \in DOMAIN operations' :
           \/ operations'[i] = op
           \/ \E j \in DOMAIN operations : j > 1 /\ operations'[i] = operations[j]
  <2>1. /\ \A e, c : op # DownOp(c, e)
        /\ \A x, c : op # UpContextOp(x, c)
    BY <1>6 DEF DownOp, UpContextOp
  <2>2. /\ \A e, c : Asked(e, c)' => AskedBelow(e, c)
        /\ \A x, c : Sent(x, c)' => SentBelow(x, c)
        /\ \A i \in DOMAIN operations' :
             \/ operations'[i] = op
             \/ \E j \in DOMAIN operations : j > 1 /\ operations'[i] = operations[j]
    <3>1. /\ \A e, c : Asked(e, c)' =>
               AskedBelow(e, c) \/ \E k \in DOMAIN <<op>> : <<op>>[k] = DownOp(c, e)
          /\ \A x, c : Sent(x, c)' =>
               SentBelow(x, c) \/ \E k \in DOMAIN <<op>> : <<op>>[k] = UpContextOp(x, c)
          /\ \A i \in DOMAIN operations' :
               \/ \E k \in DOMAIN <<op>> : operations'[i] = <<op>>[k]
               \/ \E j \in DOMAIN operations : j > 1 /\ operations'[i] = operations[j]
      BY <1>1, <1>7, PushedWork
    <3> QED  BY <1>7, <2>1, <3>1
  <2>3. /\ \A e, c : AskedBelow(e, c) => Asked(e, c)
        /\ \A x, c : SentBelow(x, c) => Sent(x, c)
    BY <1>1, TopWork
  <2> QED  BY <2>2, <2>3
<1>9. \A m \in DOMAIN memos' :
        memos'[m].end = position' => m \in DOMAIN memos /\ memos[m].end = position
  BY <1>3, <1>4
<1>10. Graph'
  <2>1. \A e \in DOMAIN expressions' : Distinct(expressions'[e].node)
    BY <1>5 DEF Graph
  <2>2. \A i \in DOMAIN operations' :
          operations'[i].op = "DownFresh" => Distinct(operations'[i].node)
    BY <1>2, <1>6, <1>8 DEF Graph
  <2>3. \A m \in DOMAIN memos' : IsInjective(memos'[m].parents)
    <3>1. IsInjective(memos'[next_memo].parents)
      BY <1>4 DEF IsInjective
    <3> QED  BY <1>4, <3>1 DEF Graph
  <2>4. \A m, n \in DOMAIN memos' :
          memos'[m].end = position' /\ memos'[n].end = position'
            /\ memos'[m].result = memos'[n].result => m = n
    BY <1>4, <1>9 DEF Graph, Completed
  <2> QED  BY <1>1, <2>1, <2>2, <2>3, <2>4 DEF Graph, Completed
<1>11. Joining'
  <2>1. ASSUME NEW e \in DOMAIN expressions', NEW c \in DOMAIN contexts',
               Asked(e, c)', Entered(e)'
        PROVE  c \notin Range(memos'[expressions'[e].memo].parents)
    <3>1. /\ e \in DOMAIN expressions /\ c \in DOMAIN contexts
          /\ Asked(e, c) /\ AskedBelow(e, c)
      BY <1>1, <1>5, <1>8, <2>1
    <3>2. CASE e = o.expression
      <4>1. c # o.context
        BY <1>2, <3>1, <3>2
      <4>2. Range(<<o.context>>) = {o.context}
        BY RangeShort
      <4> QED  BY <1>4, <1>5, <3>2, <4>1, <4>2
    <3>3. CASE e # o.expression
      <4>1. expressions'[e].memo = expressions[e].memo
        BY <1>5, <3>1, <3>3
      <4>2. /\ expressions[e].memo # None
            /\ memos'[expressions[e].memo].start = position
        BY <1>3, <2>1, <4>1 DEF Entered
      <4>3. expressions[e].memo \in DOMAIN memos
        BY <3>1, <4>2 DEF TypeOK, Expression, Option
      <4>4. Entered(e)
        BY <1>4, <4>2, <4>3 DEF Entered
      <4> QED  BY <1>4, <3>1, <4>1, <4>3, <4>4 DEF Joining
    <3> QED  BY <3>2, <3>3
  <2> QED  BY <2>1 DEF Joining
<1>12. WorkDistinct'
  <2>1. \A k \in DOMAIN <<op>> : <<op>>[k].op \notin {"Down", "UpContext"}
    BY <1>6, <1>7
  <2> QED  BY <1>1, <1>7, <2>1, WorkDistinctStep
<1>13. \A x, c : Told(x, c) => Told(x, c)'
  BY <1>4, <1>9 DEF Told, Completed
<1>14. ASSUME NEW c \in DOMAIN contexts, contexts[c].tag = "Alt",
              NEW x, Packed(c, x)'
       PROVE  Packed(c, x)
  <2> DEFINE p == contexts[c].memo
  <2>1. p \in DOMAIN memos
    <3>1. contexts[c] \in Context(DOMAIN expressions, DOMAIN memos)
      BY <1>14 DEF TypeOK
    <3> QED  BY <1>14, <3>1, ContextFields
  <2>2. \/ /\ memos'[p].end = position'
           /\ x \in Range(expressions'[memos'[p].result].node.children)
        \/ \E i \in DOMAIN operations' :
             /\ operations'[i].op = "Up" /\ operations'[i].memo = p
             /\ x \in Range(operations'[i].node.children)
    BY <1>1, <1>14 DEF Packed, Completed
  <2> HIDE DEF p
  <2>3. memos'[p].end = position' =>
          /\ Completed(p)
          /\ expressions'[memos'[p].result].node = expressions[memos[p].result].node
    <3>1. Completed(p) => memos[p].result \in DOMAIN expressions
      BY <2>1, CompletedResult
    <3> QED  BY <1>3, <1>4, <1>5, <2>1, <3>1 DEF Completed
  <2>4. (\E i \in DOMAIN operations' :
           /\ operations'[i].op = "Up" /\ operations'[i].memo = p
           /\ x \in Range(operations'[i].node.children)) =>
        \E i \in DOMAIN operations :
          /\ operations[i].op = "Up" /\ operations[i].memo = p
          /\ x \in Range(operations[i].node.children)
    BY <1>6, <1>8
  <2>5. memos'[p] = memos[p]
    BY <1>4, <2>1
  <2> QED  BY <2>2, <2>3, <2>4, <2>5 DEF Packed, p
<1>15. ASSUME NEW x \in DOMAIN expressions', NEW c \in DOMAIN contexts'
       PROVE  /\ Sent(x, c)' => Told(x, c)'
              /\ contexts'[c].tag = "Alt" /\ Packed(c, x)' => Told(x, c)'
              /\ contexts'[c].tag = "Alt" /\ Sent(x, c)' => ~Packed(c, x)'
  <2>1. c \in DOMAIN contexts /\ contexts'[c] = contexts[c] /\ x \in DOMAIN expressions
    BY <1>1, <1>5
  <2>2. Sent(x, c)' => Told(x, c)'
    BY <1>8, <1>13, <2>1 DEF Passing
  <2>3. contexts[c].tag = "Alt" /\ Packed(c, x)' => Told(x, c)'
    BY <1>13, <1>14, <2>1 DEF Passing
  <2>4. contexts[c].tag = "Alt" /\ Sent(x, c)' => ~Packed(c, x)'
    BY <1>8, <1>14, <2>1 DEF Passing
  <2> QED  BY <2>1, <2>2, <2>3, <2>4
<1>16. Passing'
  BY <1>15 DEF Passing
<1>17. ChangesOnce'
  BY <1>1, <1>4, ReportOneOnce
<1> QED  BY <1>10, <1>11, <1>12, <1>16, <1>17

\* A derivative starts with completions only, and none of them of a packer.
LEMMA DeriveOnce ==
  ASSUME Once, NEW t \in Tokens, Derive(t)
  PROVE  Graph' /\ Joining' /\ WorkDistinct' /\ Passing' /\ ChangesOnce'
<1> USE DEF Once, Reported, Inductive
<1>1. /\ expressions' = expressions /\ memos' = memos /\ contexts' = contexts
      /\ changes' = changes /\ position' = position /\ Idle
  BY DEF Derive, maps
<1>2. ASSUME NEW i \in DOMAIN operations'
      PROVE  /\ i \in DOMAIN zippers /\ operations'[i].op = "Up"
             /\ operations'[i].memo = zippers[i].memo
  BY LenProperties DEF Derive, TypeOK, UpOp
<1>3. \A m \in DOMAIN memos : ~Completed(m)
  BY <1>1 DEF Stamped
<1>4. \A x, c : ~Asked(x, c)' /\ ~Sent(x, c)'
  BY <1>2 DEF Asked, Sent, DownOp, UpContextOp
<1>5. Graph'
  BY <1>1, <1>2 DEF Graph, Completed
<1>6. Joining' /\ WorkDistinct'
  BY <1>2, <1>4 DEF Joining, WorkDistinct
<1>7. ASSUME NEW c \in DOMAIN contexts', contexts'[c].tag = "Alt", NEW x, Packed(c, x)'
      PROVE  FALSE
  <2> DEFINE p == contexts[c].memo
  <2>1. p \in DOMAIN memos /\ AltTarget(p)
    <3>1. contexts[c] \in Context(DOMAIN expressions, DOMAIN memos)
      BY <1>1, <1>7 DEF TypeOK
    <3> QED  BY <1>1, <1>7, <3>1, ContextFields DEF AltTarget
  <2>2. ~Completed(p)'
    BY <1>1, <1>3, <2>1 DEF Completed
  <2>3. \A i \in DOMAIN operations' : operations'[i].memo # p
    BY <1>2, <2>1 DEF Roles
  <2> QED  BY <1>1, <1>7, <2>2, <2>3 DEF Packed
<1>8. Passing'
  BY <1>4, <1>7 DEF Passing
<1>9. ChangesOnce'
  BY <1>1 DEF ChangesOnce
<1> QED  BY <1>5, <1>6, <1>8, <1>9

\* When a derivative ends, no work is left and no memo completes at the next
\* position.
LEMMA EndDeriveOnce ==
  ASSUME Once, EndDerive
  PROVE  Graph' /\ Joining' /\ WorkDistinct' /\ Passing' /\ ChangesOnce'
<1> USE DEF Once, Reported, Inductive
<1>1. /\ expressions' = expressions /\ memos' = memos /\ contexts' = contexts
      /\ changes' = <<>> /\ position' = position + 1
      /\ operations' = <<>>
  BY DEF EndDerive, maps
<1>2. DOMAIN <<>> = {}
  OBVIOUS
<1>3. \A m \in DOMAIN memos : memos'[m].end # position'
  BY <1>1 DEF Stamped, TypeOK, Memo, Option, None
<1>4. Graph'
  BY <1>1, <1>2, <1>3 DEF Graph, Completed
<1>5. Joining' /\ WorkDistinct'
  BY <1>1, <1>2 DEF Joining, WorkDistinct, Asked
<1>6. ASSUME NEW c \in DOMAIN contexts', contexts'[c].tag = "Alt", NEW x, Packed(c, x)'
      PROVE  FALSE
  <2>1. contexts[c].memo \in DOMAIN memos
    <3>1. contexts[c] \in Context(DOMAIN expressions, DOMAIN memos)
      BY <1>1, <1>6 DEF TypeOK
    <3> QED  BY <1>1, <1>6, <3>1, ContextFields
  <2> QED  BY <1>1, <1>2, <1>3, <1>6, <2>1 DEF Packed, Completed
<1>7. Passing'
  BY <1>1, <1>2, <1>6 DEF Passing, Sent
<1>8. ChangesOnce'
  BY <1>1, <1>2 DEF ChangesOnce, IsInjective
<1> QED  BY <1>4, <1>5, <1>7, <1>8

----------------------------------------------------------------------------
(* The theorem.                                                            *)

\* `new` enters nothing, and the grammar names no alternative twice.
LEMMA OnceInit ==
  ASSUME DistinctAlternatives
  PROVE  Init => Once
<1> SUFFICES ASSUME Init PROVE Once  OBVIOUS
<1>1. Reported /\ Bounded
  BY ReportedInit, BoundedInit
<1>2. /\ grammar \in Grammars
      /\ expressions = [id \in DOMAIN grammar.expressions |->
           [memo |-> None, fixed |-> FALSE, node |-> grammar.expressions[id]]]
      /\ memos = [m \in 0 .. 1 |-> FreshMemo(None, m)]
      /\ contexts = [c \in 0 .. 1 |->
           IF c = 0 THEN TopContext
                    ELSE SeqContext(0, Bottom, <<>>, <<grammar.root>>)]
      /\ operations = <<>> /\ changes = <<>> /\ position = 0
  BY DEF Init
<1>3. DOMAIN <<>> = {}
  OBVIOUS
<1>4. \A c \in DOMAIN contexts : contexts[c].tag # "Alt"
  BY <1>2 DEF TopContext, SeqContext
<1>5. \A m \in DOMAIN memos : ~Completed(m) /\ memos[m].parents = <<m>>
  BY <1>2 DEF FreshMemo, Completed, None
<1>6. Graph
  <2>1. \A e \in DOMAIN expressions : Distinct(expressions[e].node)
    BY <1>2 DEF DistinctAlternatives
  <2>2. \A m \in DOMAIN memos : IsInjective(memos[m].parents)
    BY <1>5 DEF IsInjective
  <2> QED  BY <1>2, <1>3, <1>4, <1>5, <2>1, <2>2 DEF Graph
<1>7. Joining /\ WorkDistinct /\ Passing /\ ChangesOnce
  BY <1>2, <1>3, <1>4
     DEF Joining, WorkDistinct, Passing, Asked, Sent, ChangesOnce, IsInjective
<1> QED  BY <1>1, <1>6, <1>7 DEF Once

\* Every step of Pwz keeps the invariant.
LEMMA OnceNext == Once /\ [Next]_vars => Once'
<1> SUFFICES ASSUME Once, [Next]_vars PROVE Once'  OBVIOUS
<1>1. Reported' /\ Bounded'
  BY ReportedNext, BoundedNext DEF Once
<1>2. CASE Step
  <2>1. Graph' /\ Joining' /\ WorkDistinct' /\ Passing' /\ ChangesOnce'
    BY <1>2, DownSharedOnce, DownEnteredOnce, PlainOnce, FreshSeqOnce,
       FreshAltOnce, UpOnce, UpNextOnce, UpPackedOnce, UpFirstOnce DEF Step
  <2> QED  BY <1>1, <2>1 DEF Once
<1>3. CASE \E t \in Tokens : Derive(t)
  BY <1>1, <1>3, DeriveOnce DEF Once
<1>4. CASE EndDerive
  BY <1>1, <1>4, EndDeriveOnce DEF Once
<1>5. CASE UNCHANGED vars
  <2>1. /\ memos' = memos /\ contexts' = contexts /\ expressions' = expressions
        /\ operations' = operations /\ changes' = changes /\ position' = position
    BY <1>5 DEF vars, frame, maps
  <2>2. Graph' /\ Joining' /\ WorkDistinct' /\ ChangesOnce'
    BY <2>1 DEF Once, Graph, Joining, WorkDistinct, ChangesOnce, Asked, Entered,
       Completed
  <2>3. Passing'
    BY <2>1 DEF Once, Passing, Sent, Told, Packed, Completed
  <2> QED  BY <1>1, <2>2, <2>3 DEF Once
<1> QED  BY <1>2, <1>3, <1>4, <1>5 DEF Next

\* A derivative never reports a change twice, in whatever order its operations
\* meet, so that a consumer never does a piece of work again: a context enters
\* an expression once, joins a memo once and is passed its result once.
THEOREM ChangesAreReportedOnce ==
  ASSUME DistinctAlternatives
  PROVE  Spec => []ChangesOnce
<1>1. Once => ChangesOnce
  BY DEF Once
<1> QED  BY <1>1, OnceInit, OnceNext, PTL DEF Spec

=============================================================================
