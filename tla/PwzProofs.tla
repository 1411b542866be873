----------------------------- MODULE PwzProofs -----------------------------
(***************************************************************************)
(* The theorems about Pwz, for every grammar, token set and bound: its     *)
(* types and the results of its memos, and that the change log tells what  *)
(* the graph has gained.                                                   *)
(*                                                                         *)
(* Type correctness comes first.  A step allocates IDs, and TypeOK is      *)
(* stated over the allocated ones: the lemmas named ...Grow say that a     *)
(* type over some IDs is included in the type over more.  Two steps follow *)
(* the result of a completed memo, so that they need PackedResults too.    *)
(***************************************************************************)
EXTENDS Pwz, SequenceTheorems, FiniteSetTheorems, TLAPS

\* A sequence over S is one over any larger set.
LEMMA SeqGrows ==
  ASSUME NEW S, NEW T, S \subseteq T
  PROVE  Seq(S) \subseteq Seq(T)
BY SeqMonotonic

\* The sequences the work list is extended by have at most one element.
LEMMA ShortSeqs ==
  ASSUME NEW S
  PROVE  /\ <<>> \in Seq(S)
         /\ \A x \in S : <<x>> \in Seq(S)
OBVIOUS

\* A function on 1 .. n is a sequence.
LEMMA FunctionSeq ==
  ASSUME NEW S, NEW n \in Nat, NEW f \in [1 .. n -> S]
  PROVE  f \in Seq(S)
BY SeqDef

\* A node stays a node when expressions are inserted.
LEMMA NodeGrows ==
  ASSUME NEW E, NEW F, E \subseteq F
  PROVE  Node(E) \subseteq Node(F)
BY SeqGrows DEF Node

\* An expression stays one when expressions or memos are inserted.
LEMMA ExpressionsGrow ==
  ASSUME NEW E, NEW F, E \subseteq F, NEW M, NEW K, M \subseteq K
  PROVE  Expression(E, M) \subseteq Expression(F, K)
BY NodeGrows DEF Expression, Option

\* A memo stays one when expressions or contexts are inserted.
LEMMA MemosGrow ==
  ASSUME NEW E, NEW F, E \subseteq F, NEW C, NEW D, C \subseteq D
  PROVE  Memo(E, C) \subseteq Memo(F, D)
<1>1. Seq(C) \subseteq Seq(D)  BY SeqGrows
<1> QED  BY <1>1 DEF Memo, Option

\* A context stays one when expressions or memos are inserted.
LEMMA ContextsGrow ==
  ASSUME NEW E, NEW F, E \subseteq F, NEW M, NEW K, M \subseteq K
  PROVE  Context(E, M) \subseteq Context(F, K)
<1>1. Seq(E) \subseteq Seq(F)  BY SeqGrows
<1> QED  BY <1>1 DEF Context

\* Zippers stay zippers when expressions or memos are inserted.
LEMMA ZippersGrow ==
  ASSUME NEW E, NEW F, E \subseteq F, NEW M, NEW K, M \subseteq K
  PROVE  Seq(Zipper(E, M)) \subseteq Seq(Zipper(F, K))
<1>1. Zipper(E, M) \subseteq Zipper(F, K)
  BY NodeGrows DEF Zipper
<1> QED  BY <1>1, SeqGrows

\* Work items and changes stay well formed under every insertion.
LEMMA WorkGrows ==
  ASSUME NEW E, NEW F, E \subseteq F, NEW M, NEW K, M \subseteq K,
         NEW C, NEW D, C \subseteq D
  PROVE  /\ Seq(Operation(E, M, C)) \subseteq Seq(Operation(F, K, D))
         /\ Seq(Change(E, M, C)) \subseteq Seq(Change(F, K, D))
<1>1. Operation(E, M, C) \subseteq Operation(F, K, D)
  BY NodeGrows DEF Operation
<1>2. Change(E, M, C) \subseteq Change(F, K, D)
  BY DEF Change
<1> QED  BY <1>1, <1>2, SeqGrows

----------------------------------------------------------------------------
\* The symbols the parse itself makes.
LEMMA SymbolTypes ==
  /\ Bottom \in Symbol
  /\ \A t \in Tokens : TokenSymbol(t) \in Symbol
BY DEF Symbol, TokenSymbol

\* The nodes the parse makes: token leaves, sequences and alternatives.
LEMMA NodeTypes ==
  ASSUME NEW E, NEW cs \in Seq(E), NEW s \in Symbol
  PROVE  /\ Seqn(s, cs) \in Node(E)
         /\ Seqn(s, <<>>) \in Node(E)
         /\ Alt(cs) \in Node(E)
BY EmptySeq DEF Seqn, Alt, Node

\* The contexts the parse makes.
LEMMA ContextTypes ==
  ASSUME NEW E, NEW M, NEW m \in M, NEW s \in Symbol,
         NEW l \in Seq(E), NEW r \in Seq(E)
  PROVE  /\ TopContext \in Context(E, M)
         /\ SeqContext(m, s, l, r) \in Context(E, M)
         /\ AltContext(m) \in Context(E, M)
BY DEF TopContext, SeqContext, AltContext, Context

\* The work items the parse makes.
LEMMA OperationTypes ==
  ASSUME NEW E, NEW M, NEW C, NEW e \in E, NEW m \in M, NEW c \in C,
         NEW n \in Node(E)
  PROVE  /\ DownOp(c, e) \in Operation(E, M, C)
         /\ FreshOp(m, n) \in Operation(E, M, C)
         /\ UpOp(n, m) \in Operation(E, M, C)
         /\ UpContextOp(e, c) \in Operation(E, M, C)
BY DEF DownOp, FreshOp, UpOp, UpContextOp, Operation

----------------------------------------------------------------------------
\* `new`: the initial graph and its zipper are well formed.
LEMMA TypeInit == Init => TypeOK
<1> SUFFICES ASSUME Init PROVE TypeOK  OBVIOUS
<1> DEFINE E == DOMAIN expressions
<1>1. /\ E = DOMAIN grammar.expressions
      /\ E \subseteq 0 .. (IdLimit - 1)
      /\ grammar.expressions \in [E -> Node(E)]
      /\ grammar.root \in E
  BY DEF Init, WellFormed
<1>2. next_expression \in Nat /\ E \subseteq 0 .. (next_expression - 1)
  BY <1>1, BoundsAssumption DEF Init
<1>3. DOMAIN memos = 0 .. 1 /\ DOMAIN contexts = 0 .. 1
  BY DEF Init
<1>4. expressions \in [E -> Expression(E, 0 .. 1)]
  BY <1>1 DEF Init, Expression, Option
<1>5. memos \in [0 .. 1 -> Memo(E, 0 .. 1)]
  BY DEF Init, FreshMemo, Memo, Option
<1>6. contexts \in [0 .. 1 -> Context(E, 0 .. 1)]
  <2>1. <<>> \in Seq(E) /\ <<grammar.root>> \in Seq(E)
    BY <1>1, ShortSeqs
  <2>2. TopContext \in Context(E, 0 .. 1)
    BY DEF Context
  <2>3. SeqContext(0, Bottom, <<>>, <<grammar.root>>) \in Context(E, 0 .. 1)
    BY <2>1, 0 \in 0 .. 1, ContextTypes, SymbolTypes
  <2> QED  BY <2>2, <2>3 DEF Init
<1>7. zippers \in Seq(Zipper(E, 0 .. 1))
  <2>1. Seqn(Bottom, <<>>) \in Node(E)
    BY NodeTypes, SymbolTypes, ShortSeqs
  <2>2. [focus |-> Seqn(Bottom, <<>>), memo |-> 1] \in Zipper(E, 0 .. 1)
    BY <2>1 DEF Zipper
  <2> QED  BY <2>2, ShortSeqs DEF Init, InitialZippers
<1> QED
  BY <1>2, <1>3, <1>4, <1>5, <1>6, <1>7 DEF Init, TypeOK, Allocated

----------------------------------------------------------------------------
(* What the pieces of an action do.                                        *)

\* What a work item names is allocated.
LEMMA OperationFields ==
  ASSUME NEW E, NEW M, NEW C, NEW o \in Operation(E, M, C)
  PROVE  /\ o.op = "Down" => o.context \in C /\ o.expression \in E
         /\ o.op = "DownFresh" => o.memo \in M /\ o.node \in Node(E)
         /\ o.op = "Up" => o.memo \in M /\ o.node \in Node(E)
         /\ o.op = "UpContext" => o.context \in C /\ o.expression \in E
BY DEF Operation

\* What a context names is allocated.
LEMMA ContextFields ==
  ASSUME NEW E, NEW M, NEW c \in Context(E, M)
  PROVE  /\ c.tag = "Seq" => /\ c.memo \in M /\ c.symbol \in Symbol
                             /\ c.left \in Seq(E) /\ c.right \in Seq(E)
         /\ c.tag = "Alt" => c.memo \in M
BY DEF Context, TopContext

\* The fields of a node, by its kind.
LEMMA NodeFields ==
  ASSUME NEW E, NEW n \in Node(E)
  PROVE  /\ n.tag = "Seq" => n.symbol \in Symbol /\ n.children \in Seq(E)
         /\ n.tag = "Alt" => n.children \in Seq(E) /\ n = Alt(n.children)
BY DEF Node, Alt

\* The next free ID extends an initial segment by one.
LEMMA NextId ==
  ASSUME NEW n \in Nat
  PROVE  n + 1 \in Nat /\ (0 .. (n - 1)) \cup {n} = 0 .. ((n + 1) - 1)
OBVIOUS

\* An insertion adds one entry and keeps the others.
LEMMA InsertProperties ==
  ASSUME NEW S, NEW T, S \subseteq T, NEW D, NEW f \in [D -> S],
         NEW id, NEW v \in T
  PROVE  /\ Insert(f, id, v) \in [D \cup {id} -> T]
         /\ Insert(f, id, v)[id] = v
         /\ \A x \in D : x # id => Insert(f, id, v)[x] = f[x]
BY DEF Insert

\* `pop` and `push` keep the work list well formed.
LEMMA PushType ==
  ASSUME NEW S, NEW T, S \subseteq T, operations \in Seq(S), operations # <<>>,
         NEW ops \in Seq(T), Push(ops)
  PROVE  operations' \in Seq(T)
<1>1. Tail(operations) \in Seq(T)
  BY HeadTailProperties, SeqGrows
<1> QED  BY <1>1, ConcatProperties DEF Push

\* Logging keeps the change log well formed.
LEMMA LogType ==
  ASSUME NEW S, NEW T, S \subseteq T, changes \in Seq(S),
         NEW new \in Seq(T), Log(new)
  PROVE  changes' \in Seq(T)
<1>1. changes \in Seq(T)  BY SeqGrows
<1> QED  BY <1>1, ConcatProperties DEF Log

\* The popped work item is well formed.
LEMMA PoppedType ==
  ASSUME TypeOK, NEW op, Popped(op)
  PROVE  /\ operations # <<>>
         /\ Head(operations).op = op
         /\ Head(operations)
              \in Operation(DOMAIN expressions, DOMAIN memos, DOMAIN contexts)
<1>1. operations # <<>> /\ Head(operations).op = op
  BY DEF Popped
<1>2. operations \in Seq(Operation(DOMAIN expressions, DOMAIN memos, DOMAIN contexts))
  BY DEF TypeOK
<1> QED  BY <1>1, <1>2, HeadTailProperties

----------------------------------------------------------------------------
(* Each action preserves TypeOK.                                           *)

\* The part of TypeOK that a step of a running derivative can disturb, over the
\* IDs that are allocated after it.
NextGraph(E, M, C) ==
  /\ next_expression' \in Nat /\ E \subseteq 0 .. (next_expression' - 1)
  /\ next_memo' \in Nat /\ M = 0 .. (next_memo' - 1)
  /\ next_context' \in Nat /\ C = 0 .. (next_context' - 1)
  /\ expressions' \in [E -> Expression(E, M)]
  /\ memos' \in [M -> Memo(E, C)]
  /\ contexts' \in [C -> Context(E, M)]

NextWork(E, M, C) ==
  /\ next' \in Seq(Zipper(E, M))
  /\ operations' \in Seq(Operation(E, M, C))
  /\ changes' \in Seq(Change(E, M, C))

\* A step of a running derivative preserves TypeOK if the graph and the
\* work are well formed over the IDs allocated after it.
LEMMA TypeStep ==
  ASSUME TypeOK, UNCHANGED frame, NEW STATE E, NEW STATE M, NEW STATE C,
         DOMAIN expressions \subseteq E, DOMAIN memos \subseteq M,
         NextGraph(E, M, C), NextWork(E, M, C)
  PROVE  TypeOK'
<1>1. DOMAIN expressions' = E /\ DOMAIN memos' = M /\ DOMAIN contexts' = C
  BY DEF NextGraph
<1>2. zippers' \in Seq(Zipper(E, M))
  BY ZippersGrow DEF TypeOK, frame
<1> QED  BY <1>1, <1>2 DEF TypeOK, frame, NextGraph, NextWork

\* `derive` starts with one Up for each zipper.
LEMMA DeriveType ==
  ASSUME TypeOK, NEW t \in Tokens, Derive(t)
  PROVE  TypeOK'
<1> DEFINE E == DOMAIN expressions
           M == DOMAIN memos
           C == DOMAIN contexts
<1>1. ASSUME NEW z \in 1 .. Len(zippers)
      PROVE  UpOp(zippers[z].focus, zippers[z].memo) \in Operation(E, M, C)
  <2>1. zippers[z] \in Zipper(E, M)
    BY ElementOfSeq DEF TypeOK
  <2> QED  BY <2>1 DEF Zipper, UpOp, Operation
<1>2. Len(zippers) \in Nat
  BY LenProperties DEF TypeOK
<1>3. operations' \in Seq(Operation(E, M, C))
  BY <1>1, <1>2, FunctionSeq DEF Derive
<1>4. zippers' \in Seq(Zipper(E, M)) /\ next' \in Seq(Zipper(E, M))
  BY ShortSeqs DEF Derive
<1> QED  BY <1>3, <1>4 DEF TypeOK, Derive, maps, counters

\* `derive` ends: the collected zippers become the current ones.
LEMMA EndDeriveType ==
  ASSUME TypeOK, EndDerive
  PROVE  TypeOK'
<1>1. changes' \in Seq(Change(DOMAIN expressions, DOMAIN memos, DOMAIN contexts))
  BY ShortSeqs DEF EndDerive
<1>2. next' \in Seq(Zipper(DOMAIN expressions, DOMAIN memos))
  BY ShortSeqs DEF EndDerive
<1>3. /\ zippers' = next /\ position' = position + 1 /\ token' = NoToken
      /\ published' = Allocated(next_expression, next_memo, next_context)
      /\ operations' = operations /\ UNCHANGED <<maps, counters>>
  BY DEF EndDerive
<1>4. published' \in [expression : Nat, memo : Nat, context : Nat]
  BY <1>3 DEF TypeOK, Allocated
<1>5. zippers' \in Seq(Zipper(DOMAIN expressions, DOMAIN memos))
  BY <1>3 DEF TypeOK
<1>6. position' \in Nat
  BY <1>3 DEF TypeOK
<1> QED  BY <1>1, <1>2, <1>3, <1>4, <1>5, <1>6 DEF TypeOK, maps, counters

\* `down`, shared: a completed memo has a result to deliver.
LEMMA DownSharedType ==
  ASSUME TypeOK, PackedResults, DownShared
  PROVE  TypeOK'
<1> DEFINE E == DOMAIN expressions
           M == DOMAIN memos
           C == DOMAIN contexts
           o == Head(operations)
           memo == expressions[o.expression].memo
           ops == IF Completed(memo)
                    THEN <<UpContextOp(memos[memo].result, o.context)>> ELSE <<>>
<1>1. o \in Operation(E, M, C) /\ o.op = "Down" /\ operations # <<>>
  BY PoppedType DEF DownShared
<1>2. o.context \in C /\ o.expression \in E
  BY <1>1, OperationFields
<1>3. memo \in M
  BY <1>2 DEF TypeOK, DownShared, Entered, Expression, Option
<1>4. memos[memo] \in Memo(E, C)
  BY <1>3 DEF TypeOK
<1>5. memos' \in [M -> Memo(E, C)]
  <2>1. Append(memos[memo].parents, o.context) \in Seq(C)
    BY <1>2, <1>4, AppendProperties DEF Memo
  <2>2. [memos[memo] EXCEPT !.parents = Append(memos[memo].parents, o.context)]
          \in Memo(E, C)
    BY <2>1, <1>4 DEF Memo
  <2> QED  BY <2>2 DEF TypeOK, DownShared
<1>6. operations' \in Seq(Operation(E, M, C))
  <2>1. ops \in Seq(Operation(E, M, C))
    <3>1. CASE Completed(memo)
      <4>1. memos[memo].result \in E
        <5>1. memos[memo].end # None
          BY <3>1 DEF TypeOK, Completed, None
        <5>2. memos[memo].result # None
          BY <1>3, <5>1 DEF PackedResults
        <5> QED  BY <1>4, <5>2 DEF Memo, Option
      <4> QED  BY <4>1, <3>1, <1>2, ShortSeqs DEF UpContextOp, Operation
    <3>2. CASE ~Completed(memo)
      BY <3>2, ShortSeqs
    <3> QED  BY <3>1, <3>2
  <2> QED  BY <2>1, <1>1, PushType DEF TypeOK, DownShared, Delivery
<1>7. changes' \in Seq(Change(E, M, C))
  <2>1. ParentAppended(memo, o.context) \in Change(E, M, C)
    BY <1>2, <1>3 DEF ParentAppended, Change
  <2> QED  BY <2>1, ShortSeqs, LogType DEF TypeOK, DownShared
<1>8. NextGraph(E, M, C)
  BY <1>5 DEF TypeOK, NextGraph, DownShared, counters
<1>9. NextWork(E, M, C)
  BY <1>6, <1>7 DEF TypeOK, NextWork, DownShared
<1> QED  BY <1>8, <1>9, TypeStep DEF DownShared

\* `down`, entered: the expression points to the memo inserted for it.
LEMMA DownEnteredType ==
  ASSUME TypeOK, DownEntered
  PROVE  TypeOK'
<1> DEFINE E == DOMAIN expressions
           M == DOMAIN memos
           C == DOMAIN contexts
           K == M \cup {next_memo}
           o == Head(operations)
<1>0. /\ Expression(E, M) \subseteq Expression(E, K)
      /\ Context(E, M) \subseteq Context(E, K)
      /\ Seq(Zipper(E, M)) \subseteq Seq(Zipper(E, K))
      /\ Seq(Operation(E, M, C)) \subseteq Seq(Operation(E, K, C))
      /\ Seq(Change(E, M, C)) \subseteq Seq(Change(E, K, C))
  BY ExpressionsGrow, MemosGrow, ContextsGrow, ZippersGrow, WorkGrows
<1>1. o \in Operation(E, M, C) /\ o.op = "Down" /\ operations # <<>>
  BY PoppedType DEF DownEntered
<1>2. o.context \in C /\ o.expression \in E
  BY <1>1, OperationFields
<1>3. FreshMemo(position, o.context) \in Memo(E, C)
  BY <1>2 DEF TypeOK, FreshMemo, Memo, Option
<1>4. memos' \in [K -> Memo(E, C)]
  BY <1>3, InsertProperties DEF TypeOK, DownEntered, InsertMemo
<1>5. expressions' \in [E -> Expression(E, K)]
  <2>1. \A e \in E : expressions[e] \in Expression(E, K)
    BY <1>0 DEF TypeOK
  <2>2. [expressions[o.expression] EXCEPT !.memo = next_memo] \in Expression(E, K)
    BY <2>1, <1>2 DEF Expression, Option
  <2> QED  BY <2>1, <2>2 DEF TypeOK, DownEntered
<1>6. contexts' \in [C -> Context(E, K)]
  BY <1>0 DEF TypeOK, DownEntered
<1>7. operations' \in Seq(Operation(E, K, C))
  <2>1. expressions[o.expression].node \in Node(E)
    BY <1>2 DEF TypeOK, Expression
  <2>2. FreshOp(next_memo, expressions[o.expression].node) \in Operation(E, K, C)
    BY <2>1 DEF FreshOp, Operation
  <2>3. operations \in Seq(Operation(E, K, C))
    BY <1>0 DEF TypeOK
  <2> QED  BY <2>2, <2>3, <1>1, ShortSeqs, PushType DEF DownEntered
<1>8. changes' \in Seq(Change(E, K, C))
  <2>1. ParentAppended(next_memo, o.context) \in Change(E, K, C)
    BY <1>2 DEF ParentAppended, Change
  <2>2. changes \in Seq(Change(E, K, C))
    BY <1>0 DEF TypeOK
  <2> QED  BY <2>1, <2>2, ShortSeqs, LogType DEF DownEntered
<1>9. NextGraph(E, K, C)
  <2>1. next_memo' \in Nat /\ K = 0 .. (next_memo' - 1)
    BY NextId DEF TypeOK, DownEntered, InsertMemo
  <2> QED  BY <2>1, <1>4, <1>5, <1>6 DEF TypeOK, NextGraph, DownEntered
<1>10. NextWork(E, K, C)
  BY <1>7, <1>8, <1>0 DEF TypeOK, NextWork, DownEntered
<1> QED  BY <1>9, <1>10, TypeStep DEF DownEntered

\* `down_fresh` of a token.
LEMMA FreshTokType ==
  ASSUME TypeOK, FreshTok
  PROVE  TypeOK'
<1> DEFINE E == DOMAIN expressions
           M == DOMAIN memos
           C == DOMAIN contexts
           o == Head(operations)
<1>1. o \in Operation(E, M, C) /\ o.op = "DownFresh" /\ operations # <<>>
  BY PoppedType DEF FreshTok
<1>2. operations' \in Seq(Operation(E, M, C))
  BY <1>1, ShortSeqs, PushType DEF TypeOK, FreshTok
<1>3. next' \in Seq(Zipper(E, M))
  <2>1. CASE token.terminal = o.node.terminal
    <3>1. o.memo \in M /\ o.node \in Node(E)
      BY <1>1, OperationFields
    <3>2. o.node.terminal \in Nat
      BY <3>1 DEF FreshTok, Node
    <3>3. token \in Tokens
      BY <2>1, <3>2 DEF TypeOK, NoToken, None
    <3>4. Seqn(TokenSymbol(token), <<>>) \in Node(E)
      BY <3>3, NodeTypes, SymbolTypes, ShortSeqs
    <3>5. [focus |-> Seqn(TokenSymbol(token), <<>>), memo |-> o.memo] \in Zipper(E, M)
      BY <3>1, <3>4 DEF Zipper
    <3> QED  BY <3>5, <2>1, AppendProperties DEF TypeOK, FreshTok
  <2>2. CASE token.terminal # o.node.terminal
    BY <2>2 DEF TypeOK, FreshTok
  <2> QED  BY <2>1, <2>2
<1>4. NextGraph(E, M, C)
  BY DEF TypeOK, NextGraph, FreshTok, maps, counters
<1>5. NextWork(E, M, C)
  BY <1>2, <1>3 DEF TypeOK, NextWork, FreshTok
<1> QED  BY <1>4, <1>5, TypeStep DEF FreshTok

\* `down_fresh` of an empty sequence.
LEMMA FreshEmptySeqType ==
  ASSUME TypeOK, FreshEmptySeq
  PROVE  TypeOK'
<1> DEFINE E == DOMAIN expressions
           M == DOMAIN memos
           C == DOMAIN contexts
           o == Head(operations)
<1>1. o \in Operation(E, M, C) /\ o.op = "DownFresh" /\ operations # <<>>
  BY PoppedType DEF FreshEmptySeq
<1>2. UpOp(o.node, o.memo) \in Operation(E, M, C)
  BY <1>1, OperationFields DEF UpOp, Operation
<1>3. operations' \in Seq(Operation(E, M, C))
  BY <1>1, <1>2, ShortSeqs, PushType DEF TypeOK, FreshEmptySeq
<1>4. NextGraph(E, M, C)
  BY DEF TypeOK, NextGraph, FreshEmptySeq, maps, counters
<1>5. NextWork(E, M, C)
  BY <1>3 DEF TypeOK, NextWork, FreshEmptySeq
<1> QED  BY <1>4, <1>5, TypeStep DEF FreshEmptySeq

\* `down_fresh` of a sequence: two contexts and a memo are inserted.
LEMMA FreshSeqType ==
  ASSUME TypeOK, FreshSeq
  PROVE  TypeOK'
<1> DEFINE E == DOMAIN expressions
           M == DOMAIN memos
           C == DOMAIN contexts
           K == M \cup {next_memo}
           B == C \cup {next_context}
           D == B \cup {next_context + 1}
           o == Head(operations)
           sequence == SeqContext(next_memo, o.node.symbol, <<>>,
                                  Tail(o.node.children))
<1>a. M \subseteq K /\ C \subseteq D
  OBVIOUS
<1> HIDE DEF K, D
<1>0. /\ Expression(E, M) \subseteq Expression(E, K)
      /\ Memo(E, C) \subseteq Memo(E, D)
      /\ Context(E, M) \subseteq Context(E, K)
      /\ Seq(Zipper(E, M)) \subseteq Seq(Zipper(E, K))
      /\ Seq(Operation(E, M, C)) \subseteq Seq(Operation(E, K, D))
      /\ Seq(Change(E, M, C)) \subseteq Seq(Change(E, K, D))
  BY <1>a, ExpressionsGrow, MemosGrow, ContextsGrow, ZippersGrow, WorkGrows
<1>1. o \in Operation(E, M, C) /\ o.op = "DownFresh" /\ operations # <<>>
  BY PoppedType DEF FreshSeq
<1>2. o.memo \in M /\ o.node \in Node(E)
  BY <1>1, OperationFields
<1>3. /\ o.node.symbol \in Symbol
      /\ Head(o.node.children) \in E
      /\ Tail(o.node.children) \in Seq(E)
  <2>1. o.node.symbol \in Symbol /\ o.node.children \in Seq(E)
    BY <1>2, NodeFields DEF FreshSeq
  <2> QED  BY <2>1, HeadTailProperties DEF FreshSeq
<1>4. memos' \in [K -> Memo(E, D)]
  <2>1. memos[o.memo].start \in Option(Nat)
    BY <1>2 DEF TypeOK, Memo
  <2>2. FreshMemo(memos[o.memo].start, next_context) \in Memo(E, D)
    BY <2>1 DEF FreshMemo, Memo, Option, D
  <2> QED  BY <2>2, <1>0, InsertProperties DEF TypeOK, FreshSeq, InsertMemo, K
<1>5. contexts' \in [D -> Context(E, K)]
  <2>1. AltContext(o.memo) \in Context(E, K)
    BY <1>2, <1>a DEF AltContext, Context
  <2>2. sequence \in Context(E, K)
    BY <1>3, ShortSeqs DEF SeqContext, Context, K
  <2> DEFINE packed == Insert(contexts, next_context, AltContext(o.memo))
  <2>4. packed \in [B -> Context(E, K)]
    BY <2>1, <1>0, InsertProperties DEF TypeOK
  <2>5. Insert(packed, next_context + 1, sequence) \in [D -> Context(E, K)]
    <3> HIDE DEF packed, sequence
    <3> QED  BY <2>2, <2>4, InsertProperties DEF D
  <2> QED  BY <2>5 DEF FreshSeq
<1>6. expressions' \in [E -> Expression(E, K)]
  BY <1>0 DEF TypeOK, FreshSeq
<1>7. operations' \in Seq(Operation(E, K, D))
  <2>1. DownOp(next_context + 1, Head(o.node.children)) \in Operation(E, K, D)
    BY <1>3 DEF DownOp, Operation, D
  <2>2. operations \in Seq(Operation(E, K, D))
    BY <1>0 DEF TypeOK
  <2> QED  BY <2>1, <2>2, <1>1, ShortSeqs, PushType DEF FreshSeq
<1>8. changes' \in Seq(Change(E, K, D))
  <2> DEFINE new == <<NewContext(next_context),
                      ParentAppended(next_memo, next_context),
                      NewContext(next_context + 1)>>
  <2>1. /\ NewContext(next_context) \in Change(E, K, D)
        /\ ParentAppended(next_memo, next_context) \in Change(E, K, D)
        /\ NewContext(next_context + 1) \in Change(E, K, D)
    BY DEF NewContext, ParentAppended, Change, K, D
  <2>2. new \in Seq(Change(E, K, D))
    BY <2>1, ShortSeqs
  <2>3. changes \in Seq(Change(E, K, D))
    BY <1>0 DEF TypeOK
  <2> QED  BY <2>2, <2>3, LogType DEF FreshSeq
<1>9. NextGraph(E, K, D)
  <2>1. next_memo' \in Nat /\ K = 0 .. (next_memo' - 1)
    BY NextId DEF TypeOK, FreshSeq, InsertMemo, K
  <2>2. next_context' \in Nat /\ D = 0 .. (next_context' - 1)
    BY NextId, next_context + 2 = (next_context + 1) + 1 DEF TypeOK, FreshSeq, D
  <2> QED  BY <2>1, <2>2, <1>4, <1>5, <1>6 DEF TypeOK, NextGraph, FreshSeq
<1>10. NextWork(E, K, D)
  BY <1>7, <1>8, <1>0 DEF TypeOK, NextWork, FreshSeq
<1> QED  BY <1>a, <1>9, <1>10, TypeStep DEF FreshSeq

\* `down_fresh` of an alternative: one Down for each selected child.
LEMMA FreshAltType ==
  ASSUME TypeOK, FreshAlt
  PROVE  TypeOK'
<1> DEFINE E == DOMAIN expressions
           M == DOMAIN memos
           C == DOMAIN contexts
           D == C \cup {next_context}
           o == Head(operations)
           children == o.node.children
           entered == {i \in DOMAIN children : Selected(children[i])}
<1>0. /\ Memo(E, C) \subseteq Memo(E, D)
      /\ Seq(Operation(E, M, C)) \subseteq Seq(Operation(E, M, D))
      /\ Seq(Change(E, M, C)) \subseteq Seq(Change(E, M, D))
  BY ExpressionsGrow, MemosGrow, ContextsGrow, ZippersGrow, WorkGrows
<1>1. o \in Operation(E, M, C) /\ o.op = "DownFresh" /\ operations # <<>>
  BY PoppedType DEF FreshAlt
<1>2. o.memo \in M /\ children \in Seq(E)
  BY <1>1, OperationFields, NodeFields DEF FreshAlt
<1>3. contexts' \in [D -> Context(E, M)]
  <2>1. AltContext(o.memo) \in Context(E, M)
    BY <1>2 DEF AltContext, Context
  <2> QED  BY <2>1, InsertProperties DEF TypeOK, FreshAlt, InsertContext
<1>4. operations' \in Seq(Operation(E, M, D))
  <2>1. PICK kept \in [1 .. Cardinality(entered) -> entered] :
          Push([i \in 1 .. Cardinality(entered) |->
                  DownOp(next_context, children[kept[i]])])
    BY DEF FreshAlt
  <2>2. Cardinality(entered) \in Nat
    <3>1. DOMAIN children = 1 .. Len(children) /\ Len(children) \in Nat
      BY <1>2, LenProperties
    <3>2. IsFiniteSet(DOMAIN children)
      BY <3>1, FS_Interval
    <3>3. IsFiniteSet(entered)
      BY <3>2, FS_Subset
    <3> QED  BY <3>3, FS_CardinalityType
  <2>3. ASSUME NEW i \in 1 .. Cardinality(entered)
        PROVE  DownOp(next_context, children[kept[i]]) \in Operation(E, M, D)
    <3>1. kept[i] \in DOMAIN children
      BY <2>1
    <3>2. children[kept[i]] \in E
      BY <1>2, <3>1, ElementOfSeq, LenProperties
    <3> QED  BY <3>2 DEF DownOp, Operation
  <2>4. [i \in 1 .. Cardinality(entered) |->
           DownOp(next_context, children[kept[i]])] \in Seq(Operation(E, M, D))
    BY <2>2, <2>3, FunctionSeq
  <2>5. operations \in Seq(Operation(E, M, D))
    BY <1>0 DEF TypeOK
  <2> QED  BY <2>1, <2>4, <2>5, <1>1, PushType
<1>5. changes' \in Seq(Change(E, M, D))
  <2>1. NewContext(next_context) \in Change(E, M, D)
    BY DEF NewContext, Change
  <2>2. changes \in Seq(Change(E, M, D))
    BY <1>0 DEF TypeOK
  <2> QED  BY <2>1, <2>2, ShortSeqs, LogType DEF FreshAlt
<1>6. memos' \in [M -> Memo(E, D)]
  BY <1>0 DEF TypeOK, FreshAlt
<1>7. NextGraph(E, M, D)
  <2>1. next_context' \in Nat /\ D = 0 .. (next_context' - 1)
    BY NextId DEF TypeOK, FreshAlt, InsertContext
  <2> QED  BY <2>1, <1>3, <1>6 DEF TypeOK, NextGraph, FreshAlt
<1>8. NextWork(E, M, D)
  BY <1>4, <1>5 DEF TypeOK, NextWork, FreshAlt
<1> QED  BY <1>7, <1>8, TypeStep DEF FreshAlt

\* `up`: the new expression becomes the result of an allocated memo.
LEMMA UpType ==
  ASSUME TypeOK, Up
  PROVE  TypeOK'
<1> DEFINE E == DOMAIN expressions
           M == DOMAIN memos
           C == DOMAIN contexts
           F == E \cup {next_expression}
           o == Head(operations)
           parents == memos[o.memo].parents
<1>a. E \subseteq F /\ next_expression \in F
  OBVIOUS
<1> HIDE DEF F
<1>0. /\ Expression(E, M) \subseteq Expression(F, M)
      /\ Memo(E, C) \subseteq Memo(F, C)
      /\ Context(E, M) \subseteq Context(F, M)
      /\ Seq(Zipper(E, M)) \subseteq Seq(Zipper(F, M))
      /\ Seq(Operation(E, M, C)) \subseteq Seq(Operation(F, M, C))
      /\ Seq(Change(E, M, C)) \subseteq Seq(Change(F, M, C))
  BY <1>a, ExpressionsGrow, MemosGrow, ContextsGrow, ZippersGrow, WorkGrows
<1>1. o \in Operation(E, M, C) /\ o.op = "Up" /\ operations # <<>>
  BY PoppedType DEF Up
<1>2. o.memo \in M /\ o.node \in Node(F)
  BY <1>a, <1>1, OperationFields, NodeGrows
<1>3. memos[o.memo] \in Memo(F, C)
  BY <1>0, <1>2 DEF TypeOK
<1>4. expressions' \in [F -> Expression(F, M)]
  <2>1. [memo |-> None, fixed |-> TRUE, node |-> o.node] \in Expression(F, M)
    BY <1>2 DEF Expression, Option
  <2> QED  BY <2>1, <1>0, InsertProperties DEF TypeOK, Up, InsertExpression, F
<1>5. memos' \in [M -> Memo(F, C)]
  <2>1. [memos[o.memo] EXCEPT !.end = position, !.result = next_expression]
          \in Memo(F, C)
    BY <1>3, <1>a DEF TypeOK, Memo, Option
  <2>2. memos' = [memos EXCEPT ![o.memo] =
          [memos[o.memo] EXCEPT !.end = position, !.result = next_expression]]
    BY <1>2 DEF TypeOK, Up
  <2> QED  BY <2>1, <2>2, <1>0 DEF TypeOK
<1>6. operations' \in Seq(Operation(F, M, C))
  <2>1. Len(parents) \in Nat /\ parents \in [1 .. Len(parents) -> C]
    BY <1>3, LenProperties DEF Memo
  <2>2. ASSUME NEW i \in 1 .. Len(parents)
        PROVE  UpContextOp(next_expression, parents[i]) \in Operation(F, M, C)
    BY <2>1, <1>a DEF UpContextOp, Operation
  <2>3. [i \in 1 .. Len(parents) |-> UpContextOp(next_expression, parents[i])]
          \in Seq(Operation(F, M, C))
    BY <2>1, <2>2, FunctionSeq
  <2>4. operations \in Seq(Operation(F, M, C))
    BY <1>0 DEF TypeOK
  <2> QED  BY <2>3, <2>4, <1>1, PushType DEF Up
<1>7. changes' \in Seq(Change(F, M, C))
  <2>1. NewExpression(next_expression) \in Change(F, M, C)
    BY <1>a DEF Change, NewExpression
  <2>2. changes \in Seq(Change(F, M, C))
    BY <1>0 DEF TypeOK
  <2> QED  BY <2>1, <2>2, ShortSeqs, LogType DEF Up
<1>8. contexts' \in [C -> Context(F, M)]
  BY <1>0 DEF TypeOK, Up
<1>9. NextGraph(F, M, C)
  <2>1. next_expression' \in Nat /\ F \subseteq 0 .. (next_expression' - 1)
    BY NextId DEF TypeOK, Up, InsertExpression, F
  <2> QED  BY <2>1, <1>4, <1>5, <1>8 DEF TypeOK, NextGraph, Up
<1>10. NextWork(F, M, C)
  BY <1>6, <1>7, <1>0 DEF TypeOK, NextWork, Up
<1> QED  BY <1>a, <1>9, <1>10, TypeStep DEF Up

\* `up_context` of the top context.
LEMMA UpTopType ==
  ASSUME TypeOK, UpTop
  PROVE  TypeOK'
<1> DEFINE E == DOMAIN expressions
           M == DOMAIN memos
           C == DOMAIN contexts
<1>1. operations # <<>>
  BY PoppedType DEF UpTop, Rising
<1>2. operations' \in Seq(Operation(E, M, C))
  BY <1>1, ShortSeqs, PushType DEF TypeOK, UpTop
<1>3. NextGraph(E, M, C)
  BY DEF TypeOK, NextGraph, UpTop, maps, counters
<1>4. NextWork(E, M, C)
  BY <1>2 DEF TypeOK, NextWork, UpTop
<1> QED  BY <1>3, <1>4, TypeStep DEF UpTop

\* The context an UpContext rises through is allocated and well formed.
LEMMA RisingType ==
  ASSUME TypeOK, NEW tag, Rising(tag)
  PROVE  /\ operations # <<>>
         /\ Head(operations).expression \in DOMAIN expressions
         /\ Head(operations).context \in DOMAIN contexts
         /\ contexts[Head(operations).context].tag = tag
         /\ contexts[Head(operations).context]
              \in Context(DOMAIN expressions, DOMAIN memos)
<1>1. /\ operations # <<>>
      /\ Head(operations).op = "UpContext"
      /\ Head(operations)
           \in Operation(DOMAIN expressions, DOMAIN memos, DOMAIN contexts)
  BY PoppedType DEF Rising
<1>2. /\ Head(operations).expression \in DOMAIN expressions
      /\ Head(operations).context \in DOMAIN contexts
  BY <1>1, OperationFields
<1> QED  BY <1>1, <1>2 DEF TypeOK, Rising

\* `up_context` of a sequence whose last child is complete.
LEMMA UpLastType ==
  ASSUME TypeOK, UpLast
  PROVE  TypeOK'
<1> DEFINE E == DOMAIN expressions
           M == DOMAIN memos
           C == DOMAIN contexts
           o == Head(operations)
           context == contexts[o.context]
           node == Seqn(context.symbol, Append(context.left, o.expression))
<1>1. /\ operations # <<>> /\ o.expression \in E
      /\ context.memo \in M /\ context.symbol \in Symbol
      /\ context.left \in Seq(E)
  BY RisingType, ContextFields DEF UpLast
<1>2. node \in Node(E)
  BY <1>1, AppendProperties, NodeTypes
<1>3. UpOp(node, context.memo) \in Operation(E, M, C)
  BY <1>1, <1>2 DEF UpOp, Operation
<1>4. operations' \in Seq(Operation(E, M, C))
  BY <1>1, <1>3, ShortSeqs, PushType DEF TypeOK, UpLast
<1>5. NextGraph(E, M, C)
  BY DEF TypeOK, NextGraph, UpLast, maps, counters
<1>6. NextWork(E, M, C)
  BY <1>4 DEF TypeOK, NextWork, UpLast
<1> QED  BY <1>5, <1>6, TypeStep DEF UpLast

\* `up_context` of a sequence that expects another child.
LEMMA UpNextType ==
  ASSUME TypeOK, UpNext
  PROVE  TypeOK'
<1> DEFINE E == DOMAIN expressions
           M == DOMAIN memos
           C == DOMAIN contexts
           D == C \cup {next_context}
           o == Head(operations)
           context == contexts[o.context]
           moved == SeqContext(context.memo, context.symbol,
                               Append(context.left, o.expression),
                               Tail(context.right))
<1>a. C \subseteq D /\ next_context \in D
  OBVIOUS
<1> HIDE DEF D
<1>0. /\ Memo(E, C) \subseteq Memo(E, D)
      /\ Seq(Operation(E, M, C)) \subseteq Seq(Operation(E, M, D))
      /\ Seq(Change(E, M, C)) \subseteq Seq(Change(E, M, D))
  BY <1>a, MemosGrow, WorkGrows
<1>1. /\ operations # <<>> /\ o.expression \in E
      /\ context.memo \in M /\ context.symbol \in Symbol
      /\ context.left \in Seq(E) /\ context.right \in Seq(E)
  BY RisingType, ContextFields DEF UpNext
<1>2. Head(context.right) \in E /\ Tail(context.right) \in Seq(E)
  BY <1>1, HeadTailProperties DEF UpNext
<1>3. moved \in Context(E, M)
  <2>1. Append(context.left, o.expression) \in Seq(E)
    BY <1>1, AppendProperties
  <2> QED  BY <2>1, <1>1, <1>2, ContextTypes
<1>4. contexts' \in [D -> Context(E, M)]
  <2>1. contexts' = Insert(contexts, next_context, moved)
    BY DEF UpNext, InsertContext
  <2> HIDE DEF moved
  <2> QED  BY <2>1, <1>3, InsertProperties DEF TypeOK, D
<1>5. operations' \in Seq(Operation(E, M, D))
  <2>1. DownOp(next_context, Head(context.right)) \in Operation(E, M, D)
    BY <1>2, <1>a DEF DownOp, Operation
  <2>2. operations \in Seq(Operation(E, M, D))
    BY <1>0 DEF TypeOK
  <2> QED  BY <2>1, <2>2, <1>1, ShortSeqs, PushType DEF UpNext
<1>6. changes' \in Seq(Change(E, M, D))
  <2>1. NewContext(next_context) \in Change(E, M, D)
    BY <1>a DEF NewContext, Change
  <2>2. changes \in Seq(Change(E, M, D))
    BY <1>0 DEF TypeOK
  <2> QED  BY <2>1, <2>2, ShortSeqs, LogType DEF UpNext
<1>7. memos' \in [M -> Memo(E, D)]
  BY <1>0 DEF TypeOK, UpNext
<1>8. NextGraph(E, M, D)
  <2>1. next_context' \in Nat /\ D = 0 .. (next_context' - 1)
    BY NextId DEF TypeOK, UpNext, InsertContext, D
  <2> QED  BY <2>1, <1>4, <1>7 DEF TypeOK, NextGraph, UpNext
<1>9. NextWork(E, M, D)
  BY <1>5, <1>6 DEF TypeOK, NextWork, UpNext
<1> QED  BY <1>8, <1>9, TypeStep DEF UpNext

\* `up_context` of a packer that has not completed here.
LEMMA UpFirstType ==
  ASSUME TypeOK, UpFirst
  PROVE  TypeOK'
<1> DEFINE E == DOMAIN expressions
           M == DOMAIN memos
           C == DOMAIN contexts
           o == Head(operations)
           memo == contexts[o.context].memo
<1>1. operations # <<>> /\ o.expression \in E /\ memo \in M
  BY RisingType, ContextFields DEF UpFirst
<1>2. Alt(<<o.expression>>) \in Node(E)
  BY <1>1, ShortSeqs DEF Alt, Node
<1>3. UpOp(Alt(<<o.expression>>), memo) \in Operation(E, M, C)
  BY <1>1, <1>2 DEF UpOp, Operation
<1>4. operations' \in Seq(Operation(E, M, C))
  BY <1>1, <1>3, ShortSeqs, PushType DEF TypeOK, UpFirst
<1>5. NextGraph(E, M, C)
  BY DEF TypeOK, NextGraph, UpFirst, maps, counters
<1>6. NextWork(E, M, C)
  BY <1>4 DEF TypeOK, NextWork, UpFirst
<1> QED  BY <1>5, <1>6, TypeStep DEF UpFirst

\* The result of a memo completed here exists and, for a packer, is an Alt.
LEMMA CompletedResult ==
  ASSUME TypeOK, PackedResults, NEW m \in DOMAIN memos, Completed(m)
  PROVE  /\ memos[m].end # None
         /\ memos[m].result \in DOMAIN expressions
         /\ AltTarget(m) => expressions[memos[m].result].node.tag = "Alt"
<1>1. memos[m].end # None
  BY DEF TypeOK, Completed, None
<1>2. memos[m].result # None
  BY <1>1 DEF PackedResults
<1>3. memos[m] \in Memo(DOMAIN expressions, DOMAIN contexts)
  BY DEF TypeOK
<1>4. memos[m].result \in DOMAIN expressions
  BY <1>2, <1>3 DEF Memo, Option
<1> QED  BY <1>1, <1>4 DEF PackedResults

\* `up_context` of a packer that has: the child joins an existing Alt.
LEMMA UpPackedType ==
  ASSUME TypeOK, PackedResults, UpPacked
  PROVE  TypeOK'
<1> DEFINE E == DOMAIN expressions
           M == DOMAIN memos
           C == DOMAIN contexts
           o == Head(operations)
           memo == contexts[o.context].memo
           alternative == memos[memo].result
           node == expressions[alternative].node
<1>1. /\ operations # <<>> /\ o.expression \in E /\ memo \in M
      /\ o.context \in C /\ contexts[o.context].tag = "Alt"
  BY RisingType, ContextFields DEF UpPacked
<1>2. Completed(memo)
  BY DEF UpPacked
<1>3. AltTarget(memo)
  BY <1>1 DEF AltTarget
<1>4. alternative \in E /\ node.tag = "Alt"
  BY <1>1, <1>2, <1>3, CompletedResult
<1>5. expressions[alternative] \in Expression(E, M) /\ node \in Node(E)
  BY <1>4 DEF TypeOK, Expression
<1>6. expressions' \in [E -> Expression(E, M)]
  <2>1. Append(node.children, o.expression) \in Seq(E)
    BY <1>1, <1>4, <1>5, NodeFields, AppendProperties
  <2>2. [node EXCEPT !.children = Append(node.children, o.expression)] \in Node(E)
    BY <2>1, <1>4, <1>5 DEF Node
  <2>3. [expressions[alternative] EXCEPT !.node =
           [node EXCEPT !.children = Append(node.children, o.expression)]]
          \in Expression(E, M)
    BY <2>2, <1>5 DEF Expression
  <2>4. expressions' = [expressions EXCEPT ![alternative] =
          [expressions[alternative] EXCEPT !.node =
             [node EXCEPT !.children = Append(node.children, o.expression)]]]
    BY <1>4 DEF TypeOK, UpPacked
  <2> QED  BY <2>3, <2>4 DEF TypeOK
<1>7. operations' \in Seq(Operation(E, M, C))
  BY <1>1, ShortSeqs, PushType DEF TypeOK, UpPacked
<1>8. changes' \in Seq(Change(E, M, C))
  <2>1. ChildAppended(alternative, o.expression) \in Change(E, M, C)
    BY <1>1, <1>4 DEF Change, ChildAppended
  <2> QED  BY <2>1, ShortSeqs, LogType DEF TypeOK, UpPacked
<1>9. NextGraph(E, M, C)
  BY <1>6 DEF TypeOK, NextGraph, UpPacked, counters
<1>10. NextWork(E, M, C)
  BY <1>7, <1>8 DEF TypeOK, NextWork, UpPacked
<1> QED  BY <1>9, <1>10, TypeStep DEF UpPacked

\* Every step of Pwz preserves TypeOK.
LEMMA TypeNext ==
  ASSUME TypeOK, PackedResults, [Next]_vars
  PROVE  TypeOK'
<1>1. CASE Step
  BY <1>1, DownSharedType, DownEnteredType, FreshTokType, FreshEmptySeqType,
     FreshSeqType, FreshAltType, UpType, UpTopType, UpLastType, UpNextType,
     UpPackedType, UpFirstType DEF Step
<1>2. CASE \E t \in Tokens : Derive(t)
  BY <1>2, DeriveType
<1>3. CASE EndDerive
  BY <1>3, EndDeriveType
<1>4. CASE UNCHANGED vars
  BY <1>4 DEF TypeOK, vars, frame, maps, counters
<1> QED  BY <1>1, <1>2, <1>3, <1>4 DEF Next

----------------------------------------------------------------------------
(* Which memos a new context claims.                                       *)

\* Only an allocated memo is the target of a context.
LEMMA TargetsAllocated ==
  ASSUME TypeOK, NEW m
  PROVE  AltTarget(m) \/ SeqTarget(m) => m \in DOMAIN memos
BY ContextFields DEF TypeOK, AltTarget, SeqTarget

\* While no context is inserted, no memo changes its role.
LEMMA TargetsKept ==
  ASSUME UNCHANGED contexts, NEW m
  PROVE  (AltTarget(m)' <=> AltTarget(m)) /\ (SeqTarget(m)' <=> SeqTarget(m))
BY DEF AltTarget, SeqTarget

\* One inserted context claims one memo.
LEMMA TargetsInserted ==
  ASSUME TypeOK, NEW c, contexts' = Insert(contexts, next_context, c), NEW m
  PROVE  /\ AltTarget(m)' <=> AltTarget(m) \/ (c.tag = "Alt" /\ c.memo = m)
         /\ SeqTarget(m)' <=> SeqTarget(m) \/ (c.tag = "Seq" /\ c.memo = m)
<1>1. /\ DOMAIN contexts' = DOMAIN contexts \cup {next_context}
      /\ contexts'[next_context] = c
      /\ \A x \in DOMAIN contexts : contexts'[x] = contexts[x]
  BY DEF TypeOK, Insert
<1> QED  BY <1>1 DEF AltTarget, SeqTarget

\* A sequence makes the entered memo a packer and the new one a gatherer.
LEMMA FreshSeqTargets ==
  ASSUME TypeOK, FreshSeq, NEW m
  PROVE  /\ AltTarget(m)' <=> AltTarget(m) \/ m = Head(operations).memo
         /\ SeqTarget(m)' <=> SeqTarget(m) \/ m = next_memo
<1> DEFINE o == Head(operations)
           alternative == AltContext(o.memo)
           sequence == SeqContext(next_memo, o.node.symbol, <<>>,
                                  Tail(o.node.children))
<1>1. contexts' = Insert(Insert(contexts, next_context, alternative),
                         next_context + 1, sequence)
  BY DEF FreshSeq
<1>2. /\ alternative.tag = "Alt" /\ alternative.memo = o.memo
      /\ sequence.tag = "Seq" /\ sequence.memo = next_memo
  BY DEF AltContext, SeqContext
<1> HIDE DEF alternative, sequence
<1>3. /\ DOMAIN contexts'
           = DOMAIN contexts \cup {next_context, next_context + 1}
      /\ contexts'[next_context] = alternative
      /\ contexts'[next_context + 1] = sequence
      /\ \A x \in DOMAIN contexts : contexts'[x] = contexts[x]
  BY <1>1 DEF TypeOK, Insert
<1> QED  BY <1>2, <1>3 DEF AltTarget, SeqTarget

\* An alternative makes the entered memo a packer.
LEMMA FreshAltTargets ==
  ASSUME TypeOK, FreshAlt, NEW m
  PROVE  /\ AltTarget(m)' <=> AltTarget(m) \/ m = Head(operations).memo
         /\ SeqTarget(m)' <=> SeqTarget(m)
<1>1. contexts' = Insert(contexts, next_context, AltContext(Head(operations).memo))
  BY DEF FreshAlt, InsertContext
<1> QED  BY <1>1, TargetsInserted DEF AltContext

\* A sequence that moves on keeps its gatherer.
LEMMA UpNextTargets ==
  ASSUME TypeOK, UpNext, NEW m
  PROVE  /\ AltTarget(m)' <=> AltTarget(m)
         /\ SeqTarget(m)' <=> SeqTarget(m)
<1> DEFINE o == Head(operations)
           context == contexts[o.context]
           moved == SeqContext(context.memo, context.symbol,
                               Append(context.left, o.expression),
                               Tail(context.right))
<1>1. contexts' = Insert(contexts, next_context, moved)
  BY DEF UpNext, InsertContext
<1>2. moved.tag = "Seq" /\ moved.memo = context.memo
  BY DEF SeqContext
<1>3. SeqTarget(context.memo)
  BY RisingType DEF UpNext, SeqTarget
<1> HIDE DEF moved
<1> QED  BY <1>1, <1>2, <1>3, TargetsInserted

----------------------------------------------------------------------------
(* The work list after a pop and a push.                                   *)

\* After a pop and a push, an entry is one pushed or one from below the top.
LEMMA PushEntries ==
  ASSUME NEW S, operations \in Seq(S), operations # <<>>,
         NEW T, NEW ops \in Seq(T), Push(ops),
         NEW i \in DOMAIN operations'
  PROVE  \/ i \in 1 .. Len(ops) /\ operations'[i] = ops[i]
         \/ \E j \in DOMAIN operations : j > 1 /\ operations'[i] = operations[j]
<1>1. Tail(operations) \in Seq(S)
      /\ Len(Tail(operations)) = Len(operations) - 1
      /\ \A k \in 1 .. Len(Tail(operations)) :
           Tail(operations)[k] = operations[k + 1]
  BY HeadTailProperties
<1>2. Tail(operations) \in Seq(S \cup T) /\ ops \in Seq(S \cup T)
  BY <1>1, SeqGrows
<1>3. operations' = ops \o Tail(operations)
  BY DEF Push
<1>4. /\ Len(operations') = Len(ops) + Len(Tail(operations))
      /\ operations' \in Seq(S \cup T)
      /\ \A k \in 1 .. Len(ops) + Len(Tail(operations)) :
           operations'[k] = IF k <= Len(ops) THEN ops[k]
                                             ELSE Tail(operations)[k - Len(ops)]
  BY <1>2, <1>3, ConcatProperties
<1>5. /\ i \in 1 .. Len(operations') /\ Len(ops) \in Nat
      /\ Len(operations) \in Nat /\ DOMAIN operations = 1 .. Len(operations)
  BY <1>4, LenProperties
<1>6. CASE i <= Len(ops)
  BY <1>4, <1>5, <1>6
<1>7. CASE i > Len(ops)
  <2>1. i - Len(ops) \in 1 .. Len(Tail(operations))
    BY <1>1, <1>4, <1>5, <1>7
  <2>2. operations'[i] = Tail(operations)[i - Len(ops)]
    <3>1. i \in 1 .. Len(ops) + Len(Tail(operations))
      BY <1>4, <1>5
    <3>2. ~(i <= Len(ops))
      BY <1>5, <1>7
    <3>3. operations'[i] = IF i <= Len(ops) THEN ops[i]
                                            ELSE Tail(operations)[i - Len(ops)]
      BY <1>4, <3>1
    <3> QED  BY <3>2, <3>3
  <2>3. i - Len(ops) + 1 \in DOMAIN operations /\ i - Len(ops) + 1 > 1
    BY <1>1, <1>5, <2>1
  <2>4. Tail(operations)[i - Len(ops)] = operations[i - Len(ops) + 1]
    BY <1>1, <2>1
  <2> QED  BY <2>2, <2>3, <2>4
<1> QED  BY <1>5, <1>6, <1>7

\* An entry of a sequence with one more element is an old one or the new one.
LEMMA AppendEntries ==
  ASSUME NEW S, NEW s \in Seq(S), NEW x, NEW i \in DOMAIN Append(s, x)
  PROVE  \/ i \in DOMAIN s /\ Append(s, x)[i] = s[i]
         \/ Append(s, x)[i] = x
<1>1. s \in Seq(S \cup {x}) /\ x \in S \cup {x}
  BY SeqGrows
<1>2. /\ Append(s, x) \in Seq(S \cup {x})
      /\ Len(Append(s, x)) = Len(s) + 1
      /\ \A k \in 1 .. Len(s) : Append(s, x)[k] = s[k]
      /\ Append(s, x)[Len(s) + 1] = x
  BY <1>1, AppendProperties
<1>3. /\ DOMAIN s = 1 .. Len(s) /\ Len(s) \in Nat
      /\ DOMAIN Append(s, x) = 1 .. Len(Append(s, x))
  BY <1>1, <1>2, LenProperties
<1>4. i \in 1 .. Len(s) \/ i = Len(s) + 1
  BY <1>2, <1>3
<1> QED  BY <1>2, <1>3, <1>4

\* What lies below the top of the work list neither enters a memo nor completes
\* a packer: this is all that WorkOrdered says of it.
LEMMA DeepEntry ==
  ASSUME WorkOrdered, NEW j \in DOMAIN operations, j > 1
  PROVE  /\ operations[j].op # "DownFresh"
         /\ operations[j].op = "Up" => ~AltTarget(operations[j].memo)
BY DEF WorkOrdered

\* Pushing work that neither enters a memo nor completes a packer keeps the
\* order of the work list, if no memo it is about to complete becomes a packer.
LEMMA DeepWork ==
  ASSUME TypeOK, WorkOrdered, operations # <<>>,
         NEW T, NEW ops \in Seq(T), Push(ops),
         \A k \in DOMAIN ops :
           /\ ops[k].op # "DownFresh"
           /\ \A m : ops[k].op = "Up" /\ ops[k].memo = m => ~AltTarget(m)',
         \A m : AltTarget(m)' =>
           \/ AltTarget(m)
           \/ \A j \in DOMAIN operations :
                operations[j].op = "Up" => operations[j].memo # m
  PROVE  WorkOrdered'
<1> SUFFICES ASSUME NEW i \in DOMAIN operations'
             PROVE  /\ operations'[i].op # "DownFresh"
                    /\ \A m : operations'[i].op = "Up" /\ operations'[i].memo = m
                                => ~AltTarget(m)'
  BY DEF WorkOrdered, AltTarget
<1>0. DOMAIN ops = 1 .. Len(ops)
  BY LenProperties
<1>1. CASE i \in 1 .. Len(ops) /\ operations'[i] = ops[i]
  BY <1>0, <1>1
<1>2. ASSUME NEW j \in DOMAIN operations, j > 1, operations'[i] = operations[j]
      PROVE  /\ operations'[i].op # "DownFresh"
             /\ \A m : operations'[i].op = "Up" /\ operations'[i].memo = m
                         => ~AltTarget(m)'
  BY <1>2, DeepEntry
<1>3. \/ i \in 1 .. Len(ops) /\ operations'[i] = ops[i]
      \/ \E j \in DOMAIN operations : j > 1 /\ operations'[i] = operations[j]
  BY PushEntries DEF TypeOK
<1> QED  BY <1>1, <1>2, <1>3

\* The special cases: nothing is pushed,
LEMMA DeepWorkNone ==
  ASSUME TypeOK, WorkOrdered, operations # <<>>, Push(<<>>), UNCHANGED contexts
  PROVE  WorkOrdered'
<1>1. <<>> \in Seq({}) /\ DOMAIN <<>> = {}
  OBVIOUS
<1>2. \A m : AltTarget(m)' => AltTarget(m)
  BY TargetsKept
<1> QED  BY <1>1, <1>2, DeepWork

\* or one item.
LEMMA DeepWorkOne ==
  ASSUME TypeOK, WorkOrdered, operations # <<>>, NEW op, Push(<<op>>),
         op.op # "DownFresh",
         \A m : op.op = "Up" /\ op.memo = m => ~AltTarget(m)',
         \A m : AltTarget(m)' =>
           \/ AltTarget(m)
           \/ \A j \in DOMAIN operations :
                operations[j].op = "Up" => operations[j].memo # m
  PROVE  WorkOrdered'
<1>1. <<op>> \in Seq({op}) /\ DOMAIN <<op>> = {1} /\ <<op>>[1] = op
  OBVIOUS
<1> QED  BY <1>1, DeepWork

\* The memo of a DownFresh on top of the work list is allocated and unclaimed.
LEMMA FreshTop ==
  ASSUME TypeOK, WorkOrdered, Popped("DownFresh")
  PROVE  /\ operations # <<>>
         /\ Head(operations).memo \in DOMAIN memos
         /\ Unclaimed(Head(operations).memo)
<1>1. /\ operations # <<>> /\ Head(operations).op = "DownFresh"
      /\ Head(operations).memo \in DOMAIN memos
  BY PoppedType, OperationFields
<1>2. 1 \in DOMAIN operations /\ Head(operations) = operations[1]
  BY <1>1, LenProperties DEF TypeOK
<1> QED  BY <1>1, <1>2 DEF WorkOrdered

----------------------------------------------------------------------------
(* When a step keeps the other parts.                                      *)

\* Work on the list means that a derivative runs.
LEMMA Running ==
  ASSUME Stamped, operations # <<>>
  PROVE  ~Idle /\ zippers = <<>>
BY DEF Stamped

\* IDs are not given back.
LEMMA CountersKept ==
  ASSUME TypeOK, UNCHANGED counters
  PROVE  next_memo' >= next_memo /\ next_expression' >= next_expression
<1>1. next_memo' = next_memo /\ next_expression' = next_expression
  BY DEF counters
<1> QED  BY <1>1 DEF TypeOK

\* A step keeps the stamps in the past if a memo it touches is new, keeps its
\* stamps, or completes at the current position with a result of this derivative.
LEMMA StampedStep ==
  ASSUME TypeOK, TypeOK', Stamped, operations # <<>>, UNCHANGED frame,
         next_expression' >= next_expression, next_memo' >= next_memo,
         \A m \in DOMAIN memos' :
           \/ /\ m \in DOMAIN memos
              /\ memos'[m].start = memos[m].start
              /\ \/ /\ memos'[m].end = memos[m].end
                    /\ memos'[m].result = memos[m].result
                 \/ /\ memos'[m].end = position
                    /\ memos'[m].result >= published.expression
           \/ /\ m >= published.memo
              /\ memos'[m].start <= position
              /\ memos'[m].end = None
  PROVE  Stamped'
<1>1. ~Idle /\ zippers = <<>> /\ ~Idle'
  BY Running DEF frame, Idle
<1>2. /\ published \in [expression : Nat, memo : Nat, context : Nat]
      /\ next_expression \in Nat /\ next_memo \in Nat /\ position \in Nat
      /\ next_expression' \in Nat /\ next_memo' \in Nat
  BY DEF TypeOK
<1>3. ASSUME NEW m \in DOMAIN memos'
      PROVE  /\ memos'[m].start <= position
             /\ memos'[m].end <= position
             /\ memos'[m].start = position => m >= published.memo
             /\ memos'[m].end = position => memos'[m].result >= published.expression
  BY <1>2, <1>3 DEF Stamped, Completed, None
<1>4. published.expression <= next_expression' /\ published.memo <= next_memo'
  BY <1>2 DEF Stamped
<1> QED  BY <1>1, <1>3, <1>4 DEF Stamped, Completed, frame

\* A step keeps the results packed if it completes no memo and leaves the kinds
\* of the existing expressions alone.
LEMMA PackedStep ==
  ASSUME TypeOK, PackedResults, UNCHANGED contexts,
         \A m \in DOMAIN memos' : memos'[m].end # None =>
           /\ m \in DOMAIN memos
           /\ memos'[m].end = memos[m].end
           /\ memos'[m].result = memos[m].result,
         \A e \in DOMAIN expressions :
           /\ expressions'[e].fixed = expressions[e].fixed
           /\ expressions'[e].node.tag = expressions[e].node.tag
  PROVE  PackedResults'
<1> SUFFICES ASSUME NEW m \in DOMAIN memos', memos'[m].end # None
             PROVE  /\ memos'[m].result # None
                    /\ expressions'[memos'[m].result].fixed
                    /\ AltTarget(m)' =>
                         expressions'[memos'[m].result].node.tag = "Alt"
  BY DEF PackedResults
<1>1. /\ m \in DOMAIN memos /\ memos[m].end # None
      /\ memos'[m].result = memos[m].result
  OBVIOUS
<1>2. memos[m].result # None /\ memos[m] \in Memo(DOMAIN expressions, DOMAIN contexts)
  BY <1>1 DEF PackedResults, TypeOK
<1>3. memos[m].result \in DOMAIN expressions
  BY <1>2 DEF Memo, Option
<1>4. AltTarget(m)' => AltTarget(m)
  BY TargetsKept
<1> QED  BY <1>1, <1>3, <1>4 DEF PackedResults

\* A step that inserts no context and no zipper keeps the roles.
LEMMA RolesKept ==
  ASSUME TypeOK, Roles, UNCHANGED contexts, UNCHANGED zippers, UNCHANGED next
  PROVE  Roles'
<1>1. \A m : (AltTarget(m)' <=> AltTarget(m)) /\ (SeqTarget(m)' <=> SeqTarget(m))
  BY TargetsKept
<1>2. \A m : AltTarget(m) => m \in DOMAIN memos
  BY TargetsAllocated
<1>3. \A m \in DOMAIN memos' : ~(AltTarget(m)' /\ SeqTarget(m)')
  BY <1>1, <1>2 DEF Roles
<1>4. \A m : \A z \in DOMAIN zippers' : zippers'[z].memo = m => ~AltTarget(m)'
  BY <1>1 DEF Roles
<1>5. \A m : \A z \in DOMAIN next' : next'[z].memo = m => ~AltTarget(m)'
  BY <1>1 DEF Roles
<1> QED  BY <1>3, <1>4, <1>5 DEF Roles, AltTarget

----------------------------------------------------------------------------
(* Each action preserves the invariant.                                    *)

\* `down` on an expression entered here changes the parents of a memo only.
LEMMA DownSharedKeeps ==
  ASSUME Inductive, DownShared
  PROVE  Inductive'
<1> DEFINE o == Head(operations)
           memo == expressions[o.expression].memo
           delivered == UpContextOp(memos[memo].result, o.context)
<1> USE DEF Inductive
<1>1. TypeOK' /\ operations # <<>>
  BY DownSharedType, PoppedType DEF DownShared
<1>2. /\ DOMAIN memos' = DOMAIN memos
      /\ \A m \in DOMAIN memos : /\ memos'[m].start = memos[m].start
                                 /\ memos'[m].end = memos[m].end
                                 /\ memos'[m].result = memos[m].result
  BY DEF TypeOK, DownShared, Memo
<1>3. PackedResults'
  BY <1>2, PackedStep DEF DownShared
<1>4. Stamped'
  <2>1. next_memo' >= next_memo /\ next_expression' >= next_expression
    BY CountersKept DEF DownShared
  <2> QED  BY <1>1, <1>2, <2>1, StampedStep DEF DownShared
<1>5. Roles'
  BY RolesKept DEF DownShared, frame
<1>6. WorkOrdered'
  <2>1. \A m : AltTarget(m)' => AltTarget(m)
    BY TargetsKept DEF DownShared
  <2>2. CASE Push(<<>>)
    BY <1>1, <2>2, DeepWorkNone DEF DownShared
  <2>3. CASE Push(<<delivered>>)
    BY <1>1, <2>1, <2>3, DeepWorkOne DEF UpContextOp
  <2> QED  BY <2>2, <2>3 DEF DownShared, Delivery
<1> QED  BY <1>1, <1>3, <1>4, <1>5, <1>6

\* `down` on an expression not entered here puts a new, unclaimed memo on top.
LEMMA DownEnteredKeeps ==
  ASSUME Inductive, DownEntered
  PROVE  Inductive'
<1> DEFINE o == Head(operations)
           op == FreshOp(next_memo, expressions[o.expression].node)
<1> USE DEF Inductive
<1>1. TypeOK' /\ operations # <<>>
  BY DownEnteredType, PoppedType DEF DownEntered
<1>2. /\ DOMAIN memos' = DOMAIN memos \cup {next_memo}
      /\ next_memo \notin DOMAIN memos /\ next_memo \in Nat
      /\ memos'[next_memo] = FreshMemo(position, o.context)
      /\ \A m \in DOMAIN memos : memos'[m] = memos[m]
  <2>1. next_memo \in Nat /\ DOMAIN memos = 0 .. (next_memo - 1)
    BY DEF TypeOK
  <2>2. memos' = Insert(memos, next_memo, FreshMemo(position, o.context))
    BY DEF DownEntered, InsertMemo
  <2> HIDE DEF o
  <2>3. next_memo \notin DOMAIN memos
    BY <2>1
  <2> QED  BY <2>1, <2>2, <2>3 DEF Insert
<1>3. \A e \in DOMAIN expressions :
        /\ expressions'[e].fixed = expressions[e].fixed
        /\ expressions'[e].node = expressions[e].node
  BY DEF TypeOK, DownEntered, Expression
<1>4. PackedResults'
  BY <1>2, <1>3, PackedStep DEF DownEntered, FreshMemo
<1>5. Stamped'
  <2>1. next_memo' >= next_memo /\ next_expression' >= next_expression
    BY DEF TypeOK, DownEntered, InsertMemo
  <2>2. next_memo >= published.memo /\ position <= position
    BY DEF Stamped, TypeOK
  <2> QED  BY <1>1, <1>2, <2>1, <2>2, StampedStep DEF DownEntered, FreshMemo
<1>6. Roles'
  BY RolesKept DEF DownEntered, frame
<1>7. WorkOrdered'
  <2>1. \A m : AltTarget(m)' <=> AltTarget(m)
    BY TargetsKept DEF DownEntered
  <2>2. ~AltTarget(next_memo) /\ ~SeqTarget(next_memo)
    BY <1>2, TargetsAllocated
  <2>3. \A m : m = next_memo => ~AltTarget(m)' /\ ~SeqTarget(m)'
    BY <2>2, TargetsKept DEF DownEntered
  <2>4. \A z \in DOMAIN next : next[z].memo # next_memo
    <3>1. ASSUME NEW z \in DOMAIN next PROVE next[z].memo \in DOMAIN memos
      <4>1. next[z] \in Zipper(DOMAIN expressions, DOMAIN memos)
        BY ElementOfSeq, LenProperties DEF TypeOK
      <4> QED  BY <4>1 DEF Zipper
    <3> QED  BY <3>1, <1>2
  <2>5. \A j \in DOMAIN operations :
          operations[j].op = "Up" => operations[j].memo # next_memo
    <3>1. ASSUME NEW j \in DOMAIN operations, operations[j].op = "Up"
          PROVE  operations[j].memo \in DOMAIN memos
      <4>1. operations[j] \in Operation(DOMAIN expressions, DOMAIN memos,
                                        DOMAIN contexts)
        BY ElementOfSeq, LenProperties DEF TypeOK
      <4> QED  BY <3>1, <4>1, OperationFields
    <3> QED  BY <3>1, <1>2
  <2>6. /\ <<op>> \in Seq({op}) /\ 1 .. Len(<<op>>) = {1} /\ <<op>>[1] = op
        /\ op.op = "DownFresh" /\ op.memo = next_memo
        /\ Push(<<op>>) /\ operations'[1] = op
    BY DEF FreshOp, DownEntered, Push
  <2>7. ASSUME NEW i \in DOMAIN operations'
        PROVE  \/ i = 1 /\ operations'[i] = op
               \/ \E j \in DOMAIN operations :
                    j > 1 /\ operations'[i] = operations[j]
    BY <1>1, <2>6, PushEntries DEF TypeOK
  <2>8. ASSUME NEW i \in DOMAIN operations'
        PROVE  /\ operations'[i].op = "DownFresh" => i = 1
               /\ operations'[i].op = "Up" =>
                    /\ operations'[i].memo # next_memo
                    /\ \A m : operations'[i].memo = m => ~AltTarget(m)'
    BY <2>1, <2>5, <2>6, <2>7, DeepEntry
  <2>9. \A m : m = next_memo => Unclaimed(m)'
    BY <1>2, <2>3, <2>4, <2>8 DEF Unclaimed, FreshMemo, DownEntered
  <2> HIDE DEF op
  <2>10. ASSUME NEW i \in DOMAIN operations', operations'[i].op = "DownFresh"
         PROVE  i = 1 /\ \A m : m = operations'[i].memo => Unclaimed(m)'
    BY <2>6, <2>8, <2>9, <2>10
  <2> QED  BY <2>8, <2>10 DEF WorkOrdered, Unclaimed, AltTarget, SeqTarget
<1> QED  BY <1>1, <1>4, <1>5, <1>6, <1>7

\* Matching a token leaves a zipper in the entered memo, which then stays a
\* token's.
LEMMA FreshTokKeeps ==
  ASSUME Inductive, FreshTok
  PROVE  Inductive'
<1> DEFINE o == Head(operations)
           zipper == [focus |-> Seqn(TokenSymbol(token), <<>>), memo |-> o.memo]
<1> USE DEF Inductive
<1>1. TypeOK' /\ operations # <<>> /\ Unclaimed(o.memo)
  BY FreshTokType, FreshTop DEF FreshTok
<1>2. /\ expressions' = expressions /\ memos' = memos /\ contexts' = contexts
      /\ UNCHANGED frame /\ UNCHANGED counters /\ UNCHANGED zippers
  BY DEF FreshTok, maps, frame
<1>3. PackedResults'
  BY <1>2, PackedStep
<1>4. Stamped'
  BY <1>1, <1>2, CountersKept, StampedStep
<1>5. Roles'
  <2>1. \A m : (AltTarget(m)' <=> AltTarget(m)) /\ (SeqTarget(m)' <=> SeqTarget(m))
    BY <1>2, TargetsKept
  <2>2. CASE next' = next
    BY <1>2, <2>2, RolesKept
  <2>3. CASE next' = Append(next, zipper)
    <3>1. ASSUME NEW z \in DOMAIN next'
          PROVE  \/ z \in DOMAIN next /\ next'[z] = next[z]
                 \/ next'[z] = zipper
      <4>1. next \in Seq(Zipper(DOMAIN expressions, DOMAIN memos))
        BY DEF TypeOK
      <4> HIDE DEF zipper
      <4> QED  BY <2>3, <4>1, AppendEntries
    <3>2. \A m : \A z \in DOMAIN next' : next'[z].memo = m => ~AltTarget(m)'
      BY <1>1, <2>1, <3>1 DEF Roles, Unclaimed
    <3>3. /\ \A m \in DOMAIN memos' : ~(AltTarget(m)' /\ SeqTarget(m)')
          /\ \A m : \A z \in DOMAIN zippers' : zippers'[z].memo = m => ~AltTarget(m)'
      BY <1>2, <2>1 DEF Roles
    <3> QED  BY <3>2, <3>3 DEF Roles, AltTarget
  <2> QED  BY <2>2, <2>3 DEF FreshTok
<1>6. WorkOrdered'
  BY <1>1, <1>2, DeepWorkNone DEF FreshTok
<1> QED  BY <1>1, <1>3, <1>4, <1>5, <1>6

\* An empty sequence completes its memo, which is no packer.
LEMMA FreshEmptySeqKeeps ==
  ASSUME Inductive, FreshEmptySeq
  PROVE  Inductive'
<1> DEFINE o == Head(operations)
           op == UpOp(o.node, o.memo)
<1> USE DEF Inductive
<1>1. TypeOK' /\ operations # <<>> /\ Unclaimed(o.memo)
  BY FreshEmptySeqType, FreshTop DEF FreshEmptySeq
<1>2. /\ expressions' = expressions /\ memos' = memos /\ contexts' = contexts
      /\ UNCHANGED frame /\ UNCHANGED counters /\ UNCHANGED zippers
      /\ UNCHANGED next
  BY DEF FreshEmptySeq, maps, frame
<1>3. PackedResults' /\ Stamped' /\ Roles'
  BY <1>1, <1>2, PackedStep, CountersKept, StampedStep, RolesKept
<1>4. WorkOrdered'
  <2>1. \A m : (AltTarget(m)' <=> AltTarget(m))
    BY <1>2, TargetsKept
  <2>2. op.op = "Up" /\ op.memo = o.memo /\ ~AltTarget(o.memo) /\ Push(<<op>>)
    BY <1>1 DEF UpOp, Unclaimed, FreshEmptySeq
  <2>3. \A m : op.op = "Up" /\ op.memo = m => ~AltTarget(m)'
    BY <2>1, <2>2
  <2> QED  BY <1>1, <2>1, <2>2, <2>3, DeepWorkOne
<1> QED  BY <1>1, <1>3, <1>4

\* A non-empty sequence turns the entered memo into a packer and gives its
\* children a memo of their own.
LEMMA FreshSeqKeeps ==
  ASSUME Inductive, FreshSeq
  PROVE  Inductive'
<1> DEFINE o == Head(operations)
           op == DownOp(next_context + 1, Head(o.node.children))
<1> USE DEF Inductive
<1>1. /\ TypeOK' /\ operations # <<>> /\ Unclaimed(o.memo)
      /\ o.memo \in DOMAIN memos
  BY FreshSeqType, FreshTop DEF FreshSeq
<1>2. /\ DOMAIN memos' = DOMAIN memos \cup {next_memo}
      /\ next_memo \notin DOMAIN memos /\ next_memo \in Nat
      /\ memos'[next_memo] = FreshMemo(memos[o.memo].start, next_context)
      /\ \A m \in DOMAIN memos : memos'[m] = memos[m]
  <2>1. memos' = Insert(memos, next_memo,
                        FreshMemo(memos[o.memo].start, next_context))
    BY DEF FreshSeq, InsertMemo
  <2> QED  BY <2>1 DEF TypeOK, Insert
<1>3. expressions' = expressions /\ next' = next /\ UNCHANGED frame
      /\ zippers = <<>> /\ zippers' = <<>>
  BY <1>1, Running DEF FreshSeq, frame
<1>4. \A m : /\ AltTarget(m)' <=> AltTarget(m) \/ m = o.memo
             /\ SeqTarget(m)' <=> SeqTarget(m) \/ m = next_memo
  BY FreshSeqTargets
<1>5. PackedResults'
  <2>1. ASSUME NEW m \in DOMAIN memos', memos'[m].end # None
        PROVE  /\ m \in DOMAIN memos /\ memos'[m] = memos[m]
               /\ AltTarget(m)' => AltTarget(m)
    BY <1>1, <1>2, <1>4, <2>1 DEF FreshMemo, Unclaimed
  <2> QED  BY <1>3, <2>1 DEF PackedResults
<1>6. Stamped'
  <2>1. next_memo' >= next_memo /\ next_expression' >= next_expression
    <3>1. next_memo' = next_memo + 1 /\ next_expression' = next_expression
      BY DEF FreshSeq, InsertMemo
    <3> QED  BY <3>1 DEF TypeOK
  <2>2. next_memo >= published.memo /\ memos[o.memo].start <= position
    BY <1>1 DEF Stamped, TypeOK
  <2> QED  BY <1>1, <1>2, <1>3, <2>1, <2>2, StampedStep DEF FreshMemo
<1>7. Roles'
  <2>1. ASSUME NEW m \in DOMAIN memos' PROVE ~(AltTarget(m)' /\ SeqTarget(m)')
    BY <1>1, <1>2, <1>4, TargetsAllocated DEF Roles, Unclaimed
  <2>2. \A m : \A z \in DOMAIN next' : next'[z].memo = m => ~AltTarget(m)'
    BY <1>1, <1>3, <1>4 DEF Roles, Unclaimed
  <2> QED  BY <1>3, <2>1, <2>2 DEF Roles, AltTarget
<1>8. WorkOrdered'
  <2>1. Push(<<op>>) /\ op.op = "Down"
    BY DEF FreshSeq, DownOp
  <2>2. \A m : AltTarget(m)' =>
          \/ AltTarget(m)
          \/ \A j \in DOMAIN operations :
               operations[j].op = "Up" => operations[j].memo # m
    BY <1>1, <1>4 DEF Unclaimed
  <2> QED  BY <1>1, <2>1, <2>2, DeepWorkOne
<1> QED  BY <1>1, <1>5, <1>6, <1>7, <1>8

\* An alternative turns the entered memo into a packer and enters the children
\* its SELECT sets leave.
LEMMA FreshAltKeeps ==
  ASSUME Inductive, FreshAlt
  PROVE  Inductive'
<1> DEFINE o == Head(operations)
           children == o.node.children
           entered == {i \in DOMAIN children : Selected(children[i])}
           ops(kept) == [i \in 1 .. Cardinality(entered) |->
                           DownOp(next_context, children[kept[i]])]
<1> USE DEF Inductive
<1>1. /\ TypeOK' /\ operations # <<>> /\ Unclaimed(o.memo)
      /\ o.memo \in DOMAIN memos /\ children \in Seq(DOMAIN expressions)
  BY FreshAltType, FreshTop, PoppedType, OperationFields, NodeFields DEF FreshAlt
<1>2. memos' = memos /\ expressions' = expressions /\ next' = next
      /\ UNCHANGED frame /\ zippers = <<>> /\ zippers' = <<>>
      /\ UNCHANGED next_memo /\ UNCHANGED next_expression
  BY <1>1, Running DEF FreshAlt, frame
<1>3. \A m : /\ AltTarget(m)' <=> AltTarget(m) \/ m = o.memo
             /\ SeqTarget(m)' <=> SeqTarget(m)
  BY FreshAltTargets
<1>4. PackedResults'
  BY <1>1, <1>2, <1>3 DEF PackedResults, Unclaimed
<1>5. Stamped'
  <2>1. next_memo' >= next_memo /\ next_expression' >= next_expression
    BY <1>2 DEF TypeOK
  <2> QED  BY <1>1, <1>2, <2>1, StampedStep
<1>6. Roles'
  <2>1. ASSUME NEW m \in DOMAIN memos' PROVE ~(AltTarget(m)' /\ SeqTarget(m)')
    BY <1>1, <1>2, <1>3 DEF Roles, Unclaimed
  <2>2. \A m : \A z \in DOMAIN next' : next'[z].memo = m => ~AltTarget(m)'
    BY <1>1, <1>2, <1>3 DEF Roles, Unclaimed
  <2> QED  BY <1>2, <2>1, <2>2 DEF Roles, AltTarget
<1>7. WorkOrdered'
  <2>1. PICK kept \in [1 .. Cardinality(entered) -> entered] : Push(ops(kept))
    BY DEF FreshAlt
  <2>2. Cardinality(entered) \in Nat
    <3>1. DOMAIN children = 1 .. Len(children) /\ Len(children) \in Nat
      BY <1>1, LenProperties
    <3>2. IsFiniteSet(DOMAIN children)
      BY <3>1, FS_Interval
    <3> QED  BY <3>2, FS_Subset, FS_CardinalityType
  <2>3. ops(kept) \in Seq({ops(kept)[i] : i \in 1 .. Cardinality(entered)})
    BY <2>2, FunctionSeq
  <2>4. \A k \in DOMAIN ops(kept) : ops(kept)[k].op = "Down"
    BY DEF DownOp
  <2>5. \A m : AltTarget(m)' =>
          \/ AltTarget(m)
          \/ \A j \in DOMAIN operations :
               operations[j].op = "Up" => operations[j].memo # m
    BY <1>1, <1>3 DEF Unclaimed
  <2> HIDE DEF ops
  <2> QED  BY <1>1, <2>1, <2>3, <2>4, <2>5, DeepWork
<1> QED  BY <1>1, <1>4, <1>5, <1>6, <1>7

\* What `up` does: a fresh fixed expression becomes the result of one memo.
LEMMA UpEffect ==
  ASSUME TypeOK, Up
  PROVE  /\ operations # <<>> /\ Head(operations).op = "Up"
         /\ Head(operations) = operations[1] /\ 1 \in DOMAIN operations
         /\ Head(operations).memo \in DOMAIN memos
         /\ next_expression \notin DOMAIN expressions
         /\ DOMAIN memos' = DOMAIN memos
         /\ expressions'[next_expression].fixed
         /\ expressions'[next_expression].node = Head(operations).node
         /\ \A e \in DOMAIN expressions : expressions'[e] = expressions[e]
         /\ memos'[Head(operations).memo].end = position
         /\ memos'[Head(operations).memo].result = next_expression
         /\ \A m \in DOMAIN memos :
              /\ memos'[m].start = memos[m].start
              /\ memos'[m].parents = memos[m].parents
              /\ m # Head(operations).memo => memos'[m] = memos[m]
<1> DEFINE o == Head(operations)
<1>1. /\ operations # <<>> /\ o.op = "Up" /\ o.memo \in DOMAIN memos
  BY PoppedType, OperationFields DEF Up
<1>2. o = operations[1] /\ 1 \in DOMAIN operations
  BY <1>1, LenProperties DEF TypeOK
<1>3. expressions' = Insert(expressions, next_expression,
                            [memo |-> None, fixed |-> TRUE, node |-> o.node])
  BY DEF Up, InsertExpression
<1>4. next_expression \notin DOMAIN expressions
  BY DEF TypeOK
<1>5. /\ expressions'[next_expression].fixed
      /\ expressions'[next_expression].node = o.node
      /\ \A e \in DOMAIN expressions : expressions'[e] = expressions[e]
  BY <1>3, <1>4 DEF Insert
<1>6. memos' = [memos EXCEPT ![o.memo].end = position,
                             ![o.memo].result = next_expression]
  BY DEF Up
<1>7. \A m \in DOMAIN memos : memos[m] \in Memo(DOMAIN expressions, DOMAIN contexts)
  BY DEF TypeOK
<1>8. /\ memos'[o.memo].end = position
      /\ memos'[o.memo].result = next_expression
      /\ memos'[o.memo].start = memos[o.memo].start
      /\ memos'[o.memo].parents = memos[o.memo].parents
      /\ DOMAIN memos' = DOMAIN memos
      /\ \A m \in DOMAIN memos : m # o.memo => memos'[m] = memos[m]
  BY <1>1, <1>6, <1>7 DEF Memo
<1> QED  BY <1>1, <1>2, <1>4, <1>5, <1>8

\* `up` completes its memo, and a packer only with an Alt.
LEMMA UpKeeps ==
  ASSUME Inductive, Up
  PROVE  Inductive'
<1> DEFINE o == Head(operations)
           parents == memos[o.memo].parents
           ops == [i \in 1 .. Len(parents) |->
                     UpContextOp(next_expression, parents[i])]
<1> USE DEF Inductive
<1>1. TypeOK' /\ operations # <<>> /\ next_expression \in Nat
  BY UpType, UpEffect DEF TypeOK
<1>2. contexts' = contexts /\ next' = next /\ UNCHANGED frame /\ UNCHANGED zippers
  BY DEF Up, frame
<1>3. PackedResults'
  <2>1. ASSUME NEW m \in DOMAIN memos', memos'[m].end # None
        PROVE  /\ memos'[m].result # None
               /\ expressions'[memos'[m].result].fixed
               /\ AltTarget(m) => expressions'[memos'[m].result].node.tag = "Alt"
    <3>1. CASE m = o.memo
      <4>1. AltTarget(m) => o.node.tag = "Alt"
        BY <3>1, UpEffect DEF WorkOrdered
      <4> QED  BY <3>1, <4>1, <1>1, UpEffect DEF None
    <3>2. CASE m # o.memo
      <4>1. m \in DOMAIN memos /\ memos'[m] = memos[m]
        BY <3>2, UpEffect
      <4>2. memos[m].result # None
        BY <2>1, <4>1 DEF PackedResults
      <4>3. memos[m].result \in DOMAIN expressions
        BY <4>1, <4>2 DEF TypeOK, Memo, Option
      <4> QED  BY <2>1, <4>1, <4>2, <4>3, UpEffect DEF PackedResults
    <3> QED  BY <3>1, <3>2
  <2> QED  BY <1>2, <2>1, TargetsKept DEF PackedResults
<1>4. Stamped'
  <2>1. next_memo' >= next_memo /\ next_expression' >= next_expression
    <3>1. next_memo' = next_memo /\ next_expression' = next_expression + 1
      BY DEF Up, InsertExpression
    <3> QED  BY <3>1 DEF TypeOK
  <2>2. next_expression >= published.expression
    BY DEF Stamped, TypeOK
  <2> QED  BY <1>1, <1>2, <2>1, <2>2, UpEffect, StampedStep
<1>5. Roles'
  BY <1>2, RolesKept
<1>6. WorkOrdered'
  <2>1. Len(parents) \in Nat
    BY UpEffect, LenProperties DEF TypeOK, Memo
  <2>2. ops \in Seq({ops[i] : i \in 1 .. Len(parents)})
    BY <2>1, FunctionSeq
  <2>3. \A k \in DOMAIN ops : ops[k].op = "UpContext"
    BY DEF UpContextOp
  <2>4. Push(ops)
    BY DEF Up
  <2>5. \A m : AltTarget(m)' => AltTarget(m)
    BY <1>2, TargetsKept
  <2> HIDE DEF ops
  <2> QED  BY <1>1, <2>2, <2>3, <2>4, <2>5, DeepWork
<1> QED  BY <1>1, <1>3, <1>4, <1>5, <1>6

\* The rules that rise through a context without touching the maps.
LEMMA UpTopKeeps ==
  ASSUME Inductive, UpTop
  PROVE  Inductive'
<1> USE DEF Inductive
<1>1. TypeOK' /\ operations # <<>> /\ Push(<<>>)
  BY UpTopType, RisingType DEF UpTop
<1>2. /\ expressions' = expressions /\ memos' = memos /\ contexts' = contexts
      /\ UNCHANGED frame /\ UNCHANGED counters /\ UNCHANGED zippers
      /\ UNCHANGED next
  BY DEF UpTop, maps, frame
<1> QED
  BY <1>1, <1>2, PackedStep, CountersKept, StampedStep, RolesKept, DeepWorkNone

\* The last child of a sequence completes a gatherer, which is no packer.
LEMMA UpLastKeeps ==
  ASSUME Inductive, UpLast
  PROVE  Inductive'
<1> DEFINE o == Head(operations)
           context == contexts[o.context]
           op == UpOp(Seqn(context.symbol, Append(context.left, o.expression)),
                      context.memo)
<1> USE DEF Inductive
<1>1. /\ TypeOK' /\ operations # <<>>
      /\ o.context \in DOMAIN contexts /\ context.tag = "Seq"
  BY UpLastType, RisingType DEF UpLast
<1>2. /\ expressions' = expressions /\ memos' = memos /\ contexts' = contexts
      /\ UNCHANGED frame /\ UNCHANGED counters /\ UNCHANGED zippers
      /\ UNCHANGED next
  BY DEF UpLast, maps, frame
<1>3. PackedResults' /\ Stamped' /\ Roles'
  BY <1>1, <1>2, PackedStep, CountersKept, StampedStep, RolesKept
<1>4. WorkOrdered'
  <2>1. \A m : AltTarget(m)' <=> AltTarget(m)
    BY <1>2, TargetsKept
  <2>2. SeqTarget(context.memo)
    BY <1>1 DEF SeqTarget
  <2>3. ~AltTarget(context.memo)
    BY <2>2, TargetsAllocated DEF Roles
  <2>4. op.op = "Up" /\ op.memo = context.memo /\ Push(<<op>>)
    BY DEF UpOp, UpLast
  <2>5. \A m : op.op = "Up" /\ op.memo = m => ~AltTarget(m)'
    BY <2>1, <2>3, <2>4
  <2> HIDE DEF op
  <2> QED  BY <1>1, <2>1, <2>4, <2>5, DeepWorkOne
<1> QED  BY <1>1, <1>3, <1>4

\* A sequence that moves to its next child claims no new memo.
LEMMA UpNextKeeps ==
  ASSUME Inductive, UpNext
  PROVE  Inductive'
<1> DEFINE op == DownOp(next_context, Head(contexts[Head(operations).context].right))
<1> USE DEF Inductive
<1>1. TypeOK' /\ operations # <<>>
  BY UpNextType, RisingType DEF UpNext
<1>2. /\ expressions' = expressions /\ memos' = memos /\ next' = next
      /\ UNCHANGED frame /\ UNCHANGED zippers
      /\ UNCHANGED next_memo /\ UNCHANGED next_expression
  BY DEF UpNext, frame
<1>3. \A m : /\ AltTarget(m)' <=> AltTarget(m)
             /\ SeqTarget(m)' <=> SeqTarget(m)
  BY UpNextTargets
<1>4. PackedResults'
  BY <1>2, <1>3 DEF PackedResults
<1>5. Stamped'
  <2>1. next_memo' >= next_memo /\ next_expression' >= next_expression
    BY <1>2 DEF TypeOK
  <2> QED  BY <1>1, <1>2, <2>1, StampedStep
<1>6. Roles'
  <2>1. \A m \in DOMAIN memos' : ~(AltTarget(m)' /\ SeqTarget(m)')
    BY <1>2, <1>3 DEF Roles
  <2>2. \A m : \A z \in DOMAIN zippers' : zippers'[z].memo = m => ~AltTarget(m)'
    BY <1>2, <1>3 DEF Roles
  <2>3. \A m : \A z \in DOMAIN next' : next'[z].memo = m => ~AltTarget(m)'
    BY <1>2, <1>3 DEF Roles
  <2> QED  BY <2>1, <2>2, <2>3 DEF Roles, AltTarget
<1>7. WorkOrdered'
  <2>1. Push(<<op>>) /\ op.op = "Down"
    BY DEF UpNext, DownOp
  <2> QED  BY <1>1, <1>3, <2>1, DeepWorkOne
<1> QED  BY <1>1, <1>4, <1>5, <1>6, <1>7

\* What packing does: it changes the children of one Alt, the result of a memo
\* that has completed here.
LEMMA UpPackedEffect ==
  ASSUME TypeOK, PackedResults, UpPacked
  PROVE  LET memo == contexts[Head(operations).context].memo
         IN /\ memo \in DOMAIN memos /\ Completed(memo)
            /\ DOMAIN expressions' = DOMAIN expressions
            /\ \A e \in DOMAIN expressions :
                 /\ expressions'[e].fixed = expressions[e].fixed
                 /\ expressions'[e].node.tag = expressions[e].node.tag
                 /\ e # memos[memo].result => expressions'[e] = expressions[e]
<1> DEFINE o == Head(operations)
           memo == contexts[o.context].memo
           alternative == memos[memo].result
<1>1. /\ o.context \in DOMAIN contexts /\ contexts[o.context].tag = "Alt"
      /\ memo \in DOMAIN memos /\ Completed(memo)
  <2>1. /\ o.context \in DOMAIN contexts /\ contexts[o.context].tag = "Alt"
        /\ memo \in DOMAIN memos
    <3>1. Rising("Alt")
      BY DEF UpPacked
    <3>2. /\ o.context \in DOMAIN contexts
          /\ contexts[o.context].tag = "Alt"
          /\ contexts[o.context] \in Context(DOMAIN expressions, DOMAIN memos)
      BY <3>1, RisingType
    <3> QED  BY <3>2, ContextFields
  <2>2. Completed(memo)
    BY DEF UpPacked
  <2> QED  BY <2>1, <2>2
<1>2. AltTarget(memo)
  BY <1>1 DEF AltTarget
<1>3. alternative \in DOMAIN expressions /\ expressions[alternative].node.tag = "Alt"
  BY <1>1, <1>2, CompletedResult
<1>4. expressions' = [expressions EXCEPT ![alternative].node.children =
                        Append(@, o.expression)]
  BY DEF UpPacked
<1>5. /\ expressions[alternative]
           \in Expression(DOMAIN expressions, DOMAIN memos)
      /\ expressions[alternative].node \in Node(DOMAIN expressions)
  BY <1>3 DEF TypeOK, Expression
<1>6. /\ expressions'[alternative].fixed = expressions[alternative].fixed
      /\ expressions'[alternative].node.tag = expressions[alternative].node.tag
  BY <1>3, <1>4, <1>5 DEF Expression, Node
<1>7. /\ DOMAIN expressions' = DOMAIN expressions
      /\ \A e \in DOMAIN expressions :
           e # alternative => expressions'[e] = expressions[e]
  BY <1>3, <1>4
<1> QED  BY <1>1, <1>6, <1>7

\* `up_context` of a packer that has completed here.
LEMMA UpPackedKeeps ==
  ASSUME Inductive, UpPacked
  PROVE  Inductive'
<1> USE DEF Inductive
<1>1. TypeOK' /\ operations # <<>> /\ Push(<<>>)
  BY UpPackedType, RisingType DEF UpPacked
<1>2. /\ memos' = memos /\ contexts' = contexts
      /\ UNCHANGED frame /\ UNCHANGED counters /\ UNCHANGED zippers
      /\ UNCHANGED next
  BY DEF UpPacked, frame
<1>3. PackedResults'
  BY <1>2, UpPackedEffect, PackedStep
<1> QED
  BY <1>1, <1>2, <1>3, CountersKept, StampedStep, RolesKept, DeepWorkNone

\* `up_context` of a packer that has not: it completes next, with an Alt.
LEMMA UpFirstKeeps ==
  ASSUME Inductive, UpFirst
  PROVE  Inductive'
<1> DEFINE o == Head(operations)
           memo == contexts[o.context].memo
           op == UpOp(Alt(<<o.expression>>), memo)
<1> USE DEF Inductive
<1>1. TypeOK' /\ operations # <<>> /\ Push(<<op>>)
  BY UpFirstType, RisingType DEF UpFirst
<1>2. /\ expressions' = expressions /\ memos' = memos /\ contexts' = contexts
      /\ UNCHANGED frame /\ UNCHANGED counters /\ UNCHANGED zippers
      /\ UNCHANGED next
  BY DEF UpFirst, maps, frame
<1>3. PackedResults' /\ Stamped' /\ Roles'
  BY <1>1, <1>2, PackedStep, CountersKept, StampedStep, RolesKept
<1>4. WorkOrdered'
  <2>1. \A m : AltTarget(m)' <=> AltTarget(m)
    BY <1>2, TargetsKept
  <2>2. /\ op.op = "Up" /\ op.memo = memo /\ op.node.tag = "Alt"
        /\ ~Completed(memo)
    BY DEF UpOp, Alt, UpFirst
  <2>3. \A m : m = memo => ~Completed(m)'
    BY <1>2, <2>2 DEF Completed, frame
  <2>4. /\ <<op>> \in Seq({op}) /\ 1 .. Len(<<op>>) = {1} /\ <<op>>[1] = op
    OBVIOUS
  <2> HIDE DEF op
  <2>5. ASSUME NEW i \in DOMAIN operations'
        PROVE  \/ i = 1 /\ operations'[i] = op
               \/ \E j \in DOMAIN operations :
                    j > 1 /\ operations'[i] = operations[j]
    <3>1. /\ operations # <<>> /\ Push(<<op>>)
          /\ operations \in Seq(Operation(DOMAIN expressions, DOMAIN memos,
                                          DOMAIN contexts))
      BY <1>1 DEF TypeOK
    <3>2. \/ i \in 1 .. Len(<<op>>) /\ operations'[i] = <<op>>[i]
          \/ \E j \in DOMAIN operations : j > 1 /\ operations'[i] = operations[j]
      BY <2>4, <3>1, PushEntries
    <3> QED  BY <2>4, <3>2
  <2>6. ASSUME NEW i \in DOMAIN operations'
        PROVE  /\ operations'[i].op # "DownFresh"
               /\ \A m : operations'[i].op = "Up" /\ operations'[i].memo = m
                           /\ AltTarget(m)' =>
                    i = 1 /\ ~Completed(m)' /\ operations'[i].node.tag = "Alt"
    <3>1. CASE i = 1 /\ operations'[i] = op
      BY <3>1, <2>2, <2>3
    <3>2. ASSUME NEW j \in DOMAIN operations, j > 1, operations'[i] = operations[j]
          PROVE  /\ operations'[i].op # "DownFresh"
                 /\ \A m : operations'[i].op = "Up" /\ operations'[i].memo = m
                             => ~AltTarget(m)'
      BY <3>2, <2>1, DeepEntry
    <3> QED  BY <3>1, <3>2, <2>5
  <2> QED  BY <2>6 DEF WorkOrdered, AltTarget, Completed
<1> QED  BY <1>1, <1>3, <1>4

\* Between two derivatives no memo carries the current position, and the
\* zippers wait in memos that are no packers.
LEMMA DeriveKeeps ==
  ASSUME Inductive, NEW t \in Tokens, Derive(t)
  PROVE  Inductive'
<1> USE DEF Inductive
<1>1. TypeOK'
  BY DeriveType
<1>2. /\ expressions' = expressions /\ memos' = memos /\ contexts' = contexts
      /\ position' = position /\ published' = published
      /\ next_expression' = next_expression /\ next_memo' = next_memo
      /\ zippers' = <<>> /\ next' = <<>>
  BY DEF Derive, maps, counters
<1>3. ~Idle'
  <2>1. t # NoToken
    BY TokensAssumption DEF NoToken, None
  <2> QED  BY <2>1 DEF Derive, Idle
<1>4. PackedResults'
  BY <1>2, PackedStep
<1>5. Stamped'
  BY <1>2, <1>3 DEF Stamped, Completed, Derive
<1>6. \A m : (AltTarget(m)' <=> AltTarget(m)) /\ (SeqTarget(m)' <=> SeqTarget(m))
  BY <1>2, TargetsKept
<1>7. Roles'
  BY <1>2, <1>6 DEF Roles
<1>8. WorkOrdered'
  <2>1. ASSUME NEW i \in DOMAIN operations'
        PROVE  /\ operations'[i].op = "Up"
               /\ \A m : operations'[i].memo = m => ~AltTarget(m)'
    <3>1. i \in DOMAIN zippers /\ operations'[i] = UpOp(zippers[i].focus, zippers[i].memo)
      BY LenProperties DEF Derive, TypeOK
    <3> QED  BY <3>1, <1>6 DEF UpOp, Roles
  <2> QED  BY <2>1 DEF WorkOrdered, AltTarget
<1> QED  BY <1>1, <1>4, <1>5, <1>7, <1>8

\* When a derivative ends, the position moves past every stamp.
LEMMA EndDeriveKeeps ==
  ASSUME Inductive, EndDerive
  PROVE  Inductive'
<1> USE DEF Inductive
<1>1. TypeOK'
  BY EndDeriveType
<1>2. /\ expressions' = expressions /\ memos' = memos /\ contexts' = contexts
      /\ operations' = <<>> /\ position' = position + 1
      /\ zippers' = next /\ next' = <<>>
      /\ next_expression' = next_expression /\ next_memo' = next_memo
  BY DEF EndDerive, maps, counters
<1>3. PackedResults'
  BY <1>2, PackedStep
<1>4. Stamped'
  <2>1. Idle'
    BY DEF EndDerive, Idle, NoToken
  <2>2. ASSUME NEW m \in DOMAIN memos
        PROVE  memos[m].start < position + 1 /\ memos[m].end < position + 1
    <3>1. /\ memos[m].start \in Int /\ memos[m].end \in Int /\ position \in Nat
      BY DEF TypeOK, Memo, Option, None
    <3> QED  BY <3>1 DEF Stamped
  <2>3. \A m \in DOMAIN memos' :
          /\ memos'[m].start <= position' /\ memos'[m].end <= position'
          /\ memos'[m].start # position' /\ memos'[m].end # position'
    <3>1. ASSUME NEW m \in DOMAIN memos
          PROVE  memos[m].start \in Int /\ memos[m].end \in Int /\ position \in Nat
      BY DEF TypeOK, Memo, Option, None
    <3> QED  BY <3>1, <2>2, <1>2
  <2>4. /\ published'.expression <= next_expression'
        /\ published'.memo <= next_memo'
    BY <1>2 DEF EndDerive, Allocated, TypeOK
  <2> QED  BY <1>2, <2>1, <2>3, <2>4 DEF Stamped, Completed
<1>5. \A m : (AltTarget(m)' <=> AltTarget(m)) /\ (SeqTarget(m)' <=> SeqTarget(m))
  BY <1>2, TargetsKept
<1>6. Roles'
  <2>1. \A m : \A z \in DOMAIN zippers' : zippers'[z].memo = m => ~AltTarget(m)'
    BY <1>2, <1>5 DEF Roles
  <2> QED  BY <1>2, <1>5, <2>1 DEF Roles, AltTarget
<1>7. WorkOrdered'
  BY <1>2 DEF WorkOrdered
<1> QED  BY <1>1, <1>3, <1>4, <1>6, <1>7

----------------------------------------------------------------------------
\* `new` establishes the invariant.
LEMMA InductiveInit == Init => Inductive
<1> SUFFICES ASSUME Init PROVE Inductive  OBVIOUS
<1>1. TypeOK
  BY TypeInit
<1>2. /\ memos = [m \in 0 .. 1 |-> FreshMemo(None, m)]
      /\ operations = <<>> /\ next = <<>> /\ position = 0 /\ Idle
      /\ published = Allocated(next_expression, next_memo, next_context)
      /\ zippers = InitialZippers(grammar)
      /\ contexts = [c \in 0 .. 1 |->
           IF c = 0 THEN TopContext
                    ELSE SeqContext(0, Bottom, <<>>, <<grammar.root>>)]
  BY DEF Init, Idle
<1>3. \A m : ~AltTarget(m)
  BY <1>2 DEF AltTarget, TopContext, SeqContext
<1>4. \A m \in DOMAIN memos : memos[m].start = None /\ memos[m].end = None
  BY <1>2 DEF FreshMemo
<1>5. PackedResults
  BY <1>4 DEF PackedResults
<1>6. Stamped
  <2>1. /\ published.expression <= next_expression
        /\ published.memo <= next_memo
    BY <1>1, <1>2 DEF TypeOK, Allocated
  <2> QED  BY <1>2, <1>4, <2>1 DEF Stamped, Completed, None
<1>7. Roles
  BY <1>2, <1>3 DEF Roles
<1>8. WorkOrdered
  BY <1>2 DEF WorkOrdered
<1> QED  BY <1>1, <1>5, <1>6, <1>7, <1>8 DEF Inductive

\* Every step of Pwz preserves the invariant.
LEMMA InductiveNext == Inductive /\ [Next]_vars => Inductive'
<1> SUFFICES ASSUME Inductive, [Next]_vars PROVE Inductive'  OBVIOUS
<1>1. CASE Step
  BY <1>1, DownSharedKeeps, DownEnteredKeeps, FreshTokKeeps, FreshEmptySeqKeeps,
     FreshSeqKeeps, FreshAltKeeps, UpKeeps, UpTopKeeps, UpLastKeeps,
     UpNextKeeps, UpPackedKeeps, UpFirstKeeps DEF Step
<1>2. CASE \E t \in Tokens : Derive(t)
  BY <1>2, DeriveKeeps
<1>3. CASE EndDerive
  BY <1>3, EndDeriveKeeps
<1>4. CASE UNCHANGED vars
  <2>1. TypeOK'
    BY <1>4, TypeNext DEF Inductive
  <2>2. /\ memos' = memos /\ contexts' = contexts /\ expressions' = expressions
        /\ zippers' = zippers /\ next' = next /\ operations' = operations
        /\ position' = position /\ token' = token /\ published' = published
        /\ next_expression' = next_expression /\ next_memo' = next_memo
    BY <1>4 DEF vars, frame, maps, counters
  <2>3. PackedResults' /\ Roles'
    BY <2>2, PackedStep, RolesKept DEF Inductive
  <2>4. Stamped'
    BY <2>2 DEF Inductive, Stamped, Completed, Idle
  <2>5. WorkOrdered'
    BY <2>2 DEF Inductive, WorkOrdered, Unclaimed, AltTarget, SeqTarget, Completed
  <2> QED  BY <2>1, <2>3, <2>4, <2>5 DEF Inductive
<1> QED  BY <1>1, <1>2, <1>3, <1>4 DEF Next

----------------------------------------------------------------------------
(* What a step may not do.                                                 *)

\* Only `up` sets a result, and for a packer only the first time here.
LEMMA ResultsKept ==
  ASSUME Inductive, [Next]_vars
  PROVE  KeepsResults
<1> SUFFICES ASSUME NEW m \in DOMAIN memos,
                    AltTarget(m), Completed(m), position' = position
             PROVE  memos'[m].result = memos[m].result
  BY DEF KeepsResults
<1> USE DEF Inductive
<1>1. CASE UNCHANGED memos
  BY <1>1
<1>2. CASE DownShared
  BY <1>2 DEF DownShared, TypeOK, Memo
<1>3. CASE DownEntered
  BY <1>3 DEF DownEntered, InsertMemo, Insert, TypeOK
<1>4. CASE FreshSeq
  <2>1. memos' = Insert(memos, next_memo,
                        FreshMemo(memos[Head(operations).memo].start, next_context))
    BY <1>4 DEF FreshSeq, InsertMemo
  <2> QED  BY <2>1 DEF Insert, TypeOK
<1>5. CASE Up
  <2>1. m # Head(operations).memo
    BY <1>5, UpEffect DEF WorkOrdered
  <2> QED  BY <1>5, <2>1, UpEffect
<1>6. CASE UNCHANGED vars
  BY <1>1, <1>6 DEF vars, maps
<1> QED
  BY <1>1, <1>2, <1>3, <1>4, <1>5, <1>6 DEF Next, Step, Derive, EndDerive,
     FreshTok, FreshEmptySeq, FreshAlt, UpTop, UpLast, UpNext, UpPacked,
     UpFirst, maps

\* The expressions and parents that a step rewrites are the running
\* derivative's own.
LEMMA PublishedKept ==
  ASSUME Inductive, [Next]_vars
  PROVE  KeepsPublished
<1> USE DEF Inductive
<1>1. CASE UNCHANGED expressions /\ UNCHANGED memos
  BY <1>1 DEF KeepsPublished
<1>2. CASE DownShared
  <2> DEFINE o == Head(operations)
             memo == expressions[o.expression].memo
  <2>1. Popped("Down") /\ Entered(o.expression)
    BY <1>2 DEF DownShared
  <2>2. o.expression \in DOMAIN expressions
    BY <2>1, PoppedType, OperationFields
  <2>3. memo \in DOMAIN memos /\ memos[memo].start = position
    BY <2>1, <2>2 DEF Entered, TypeOK, Expression, Option
  <2>4. \A m \in DOMAIN memos : m < published.memo => m # memo
    <3>1. memo >= published.memo
      BY <2>3 DEF Stamped
    <3>2. DOMAIN memos \subseteq Int /\ published.memo \in Int
      BY DEF TypeOK
    <3> HIDE DEF memo
    <3> QED  BY <2>3, <3>1, <3>2
  <2>5. memos' = [memos EXCEPT ![memo].parents = Append(@, o.context)]
    BY <1>2 DEF DownShared
  <2>6. \A m \in DOMAIN memos : m < published.memo => memos'[m] = memos[m]
    BY <2>4, <2>5
  <2> QED  BY <1>2, <2>6 DEF KeepsPublished, DownShared
<1>3. CASE DownEntered
  <2>1. \A m \in DOMAIN memos : memos'[m] = memos[m]
    BY <1>3 DEF DownEntered, InsertMemo, Insert, TypeOK
  <2>2. \A e \in DOMAIN expressions :
          /\ expressions'[e].fixed = expressions[e].fixed
          /\ expressions'[e].node = expressions[e].node
    BY <1>3 DEF TypeOK, DownEntered, Expression
  <2> QED  BY <2>1, <2>2 DEF KeepsPublished
<1>4. CASE FreshSeq
  <2>1. memos' = Insert(memos, next_memo,
                        FreshMemo(memos[Head(operations).memo].start, next_context))
    BY <1>4 DEF FreshSeq, InsertMemo
  <2>2. \A m \in DOMAIN memos : memos'[m] = memos[m]
    BY <2>1 DEF Insert, TypeOK
  <2>3. expressions' = expressions
    BY <1>4 DEF FreshSeq
  <2> QED  BY <2>2, <2>3 DEF KeepsPublished
<1>5. CASE Up
  BY <1>5, UpEffect DEF KeepsPublished
<1>6. CASE UpPacked
  <2> DEFINE memo == contexts[Head(operations).context].memo
  <2>1. memo \in DOMAIN memos /\ Completed(memo)
    BY <1>6, UpPackedEffect
  <2>2. memos[memo].result >= published.expression
    BY <2>1 DEF Stamped
  <2>3. \A e \in DOMAIN expressions :
          e < published.expression => expressions'[e] = expressions[e]
    <3>1. memos[memo].result \in DOMAIN expressions
      BY <2>1, CompletedResult
    <3>2. DOMAIN expressions \subseteq Int /\ published.expression \in Int
      BY DEF TypeOK
    <3>3. \A r \in Int : \A p \in Int : \A e \in Int : r >= p /\ e < p => e # r
      OBVIOUS
    <3>4. \A e \in DOMAIN expressions :
            e < published.expression => e # memos[memo].result
      BY <2>2, <3>1, <3>2, <3>3
    <3> QED  BY <1>6, <3>4, UpPackedEffect
  <2>4. memos' = memos
    BY <1>6 DEF UpPacked
  <2> QED  BY <2>3, <2>4 DEF KeepsPublished
<1>7. CASE UNCHANGED vars
  BY <1>1, <1>7 DEF vars, maps
<1> QED
  BY <1>1, <1>2, <1>3, <1>4, <1>5, <1>6, <1>7 DEF Next, Step, Derive, EndDerive,
     FreshTok, FreshEmptySeq, FreshAlt, UpTop, UpLast, UpNext, UpFirst, maps

----------------------------------------------------------------------------
(* The theorems.                                                           *)

\* In every reachable state of every derivative the invariant holds.
LEMMA Invariance == Spec => []Inductive
<1>1. Init => Inductive
  BY InductiveInit
<1>2. Inductive /\ [Next]_vars => Inductive'
  BY InductiveNext
<1> QED  BY <1>1, <1>2, PTL DEF Spec

\* No ID in a map, a context, a zipper or a work item ever dangles: the
\* "unknown ... ID" panics of the engine are unreachable for every grammar.
THEOREM TypeCorrect == Spec => []TypeOK
<1>1. Inductive => TypeOK
  BY DEF Inductive
<1> QED  BY <1>1, Invariance, PTL

\* A completed memo has a fixed result, and a packer's is an Alt: the panics
\* "completed memo has no result" and "memo result is not an Alt" are
\* unreachable, in whatever order the alternatives complete.
THEOREM ResultsPacked == Spec => []PackedResults
<1>1. Inductive => PackedResults
  BY DEF Inductive
<1> QED  BY <1>1, Invariance, PTL

\* A packer that has completed at a position is never given a second result
\* there: every later alternative is packed into the first.
THEOREM ResultsStable == Spec => OneResultPerSpan
<1>1. Inductive /\ [Next]_vars => [KeepsResults]_vars
  BY ResultsKept
<1> QED  BY <1>1, Invariance, PTL DEF Spec, OneResultPerSpan

\* No step rewrites an expression or the parents of a memo that an earlier
\* derivative handed to the caller.
THEOREM PublishedStable == Spec => PublishedFrozen
<1>1. Inductive /\ [Next]_vars => [KeepsPublished]_vars
  BY PublishedKept
<1> QED  BY <1>1, Invariance, PTL DEF Spec, PublishedFrozen

----------------------------------------------------------------------------
(* The change log of a derivative tells exactly what the graph has gained.  *)

----------------------------------------------------------------------------
(* The inductive invariant.                                                *)

\* A node that completes a memo packs one alternative if it packs any.
Single(node) ==
  node.tag = "Alt" => node.children # <<>> /\ Range(Tail(node.children)) = {}

\* Between two calls nothing is unreported.  What is about to become an
\* expression packs one alternative at most, so that the others are logged when
\* they are appended.
Reporting ==
  /\ Idle => /\ changes = <<>>
             /\ published = Allocated(next_expression, next_memo, next_context)
  /\ published.context <= next_context
  /\ \A i \in DOMAIN operations :
       operations[i].op = "Up" => Single(operations[i].node)
  /\ \A z \in DOMAIN zippers : Single(zippers[z].focus)
  /\ \A z \in DOMAIN next : Single(next[z].focus)
  /\ \A e \in DOMAIN expressions :
       e >= published.expression /\ expressions[e].node.tag = "Alt" =>
         expressions[e].node.children # <<>>

Reported == Inductive /\ Reporting /\ ChangesComplete

----------------------------------------------------------------------------
(* Sequences.                                                              *)

\* Appending adds one element to the range.
LEMMA RangeAppend ==
  ASSUME NEW S, NEW s \in Seq(S), NEW x \in S
  PROVE  Range(Append(s, x)) = Range(s) \cup {x}
<1>1. /\ DOMAIN s = 1 .. Len(s) /\ Len(s) \in Nat
      /\ DOMAIN Append(s, x) = 1 .. Len(s) + 1
      /\ \A i \in 1 .. Len(s) : Append(s, x)[i] = s[i]
      /\ Append(s, x)[Len(s) + 1] = x
  OBVIOUS
<1>2. 1 .. Len(s) + 1 = (1 .. Len(s)) \cup {Len(s) + 1}
  BY <1>1
<1> QED  BY <1>1, <1>2 DEF Range

\* The range of a concatenation is the union of the ranges.
LEMMA RangeConcat ==
  ASSUME NEW S, NEW s \in Seq(S), NEW t \in Seq(S)
  PROVE  Range(s \o t) = Range(s) \cup Range(t)
<1>1. /\ DOMAIN s = 1 .. Len(s) /\ DOMAIN t = 1 .. Len(t)
      /\ Len(s) \in Nat /\ Len(t) \in Nat
      /\ DOMAIN (s \o t) = 1 .. Len(s) + Len(t)
      /\ \A i \in 1 .. Len(s) + Len(t) :
           (s \o t)[i] = IF i <= Len(s) THEN s[i] ELSE t[i - Len(s)]
  BY ConcatProperties, LenProperties
<1>2. \A i \in 1 .. Len(s) : i \in 1 .. Len(s) + Len(t) /\ (s \o t)[i] = s[i]
  BY <1>1
<1>3. \A i \in 1 .. Len(t) : /\ i + Len(s) \in 1 .. Len(s) + Len(t)
                             /\ (s \o t)[i + Len(s)] = t[i]
  <2> TAKE i \in 1 .. Len(t)
  <2>1. /\ i + Len(s) \in 1 .. Len(s) + Len(t)
        /\ ~(i + Len(s) <= Len(s)) /\ (i + Len(s)) - Len(s) = i
    BY <1>1
  <2> QED  BY <1>1, <2>1
<1>4. \A i \in 1 .. Len(s) + Len(t) :
        \/ i \in 1 .. Len(s) /\ (s \o t)[i] = s[i]
        \/ i - Len(s) \in 1 .. Len(t) /\ (s \o t)[i] = t[i - Len(s)]
  BY <1>1
<1> QED  BY <1>1, <1>2, <1>3, <1>4 DEF Range

\* Appending to a sequence that is not empty appends to its tail.
LEMMA RangeTailAppend ==
  ASSUME NEW S, NEW s \in Seq(S), NEW x \in S, s # <<>>
  PROVE  Range(Tail(Append(s, x))) = Range(Tail(s)) \cup {x}
<1> DEFINE rest == Tail(s)
<1>1. Tail(Append(s, x)) = Append(rest, x) /\ rest \in Seq(S)
  OBVIOUS
<1> HIDE DEF rest
<1>2. Range(Append(rest, x)) = Range(rest) \cup {x}
  BY <1>1, RangeAppend
<1> QED  BY <1>1, <1>2 DEF rest

\* The ranges of the logs that one operation writes.
LEMMA RangeShort ==
  /\ Range(<<>>) = {}
  /\ \A x : Range(<<x>>) = {x}
  /\ \A x, y, z : Range(<<x, y, z>>) = {x, y, z}
BY DEF Range

\* Logging adds what is logged.
LEMMA LogRange ==
  ASSUME NEW S, changes \in Seq(S), NEW T, NEW new \in Seq(T), Log(new)
  PROVE  Range(changes') = Range(changes) \cup Range(new)
<1>1. changes \in Seq(S \cup T) /\ new \in Seq(S \cup T)
  BY SeqGrows
<1> QED  BY <1>1, RangeConcat DEF Log

----------------------------------------------------------------------------
(* How the growth grows.                                                   *)

\* Maps that keep their IDs and what is looked at have not grown.  Expressions,
LEMMA ExpressionsKept ==
  ASSUME UNCHANGED published, DOMAIN expressions' = DOMAIN expressions,
         \A e \in DOMAIN expressions : expressions'[e].node = expressions[e].node
  PROVE  GrownExpressions' = GrownExpressions /\ GrownChildren' = GrownChildren
BY DEF GrownExpressions, GrownChildren

\* contexts,
LEMMA ContextsKept ==
  ASSUME UNCHANGED published, UNCHANGED contexts
  PROVE  GrownContexts' = GrownContexts
BY DEF GrownContexts

\* and parents.
LEMMA ParentsKept ==
  ASSUME UNCHANGED published, DOMAIN memos' = DOMAIN memos,
         \A m \in DOMAIN memos : memos'[m].parents = memos[m].parents
  PROVE  GrownParents' = GrownParents
BY DEF GrownParents

\* A context that is inserted is one item of growth.
LEMMA ContextAdded ==
  ASSUME UNCHANGED published, NEW STATE c, c >= published.context,
         DOMAIN contexts' = DOMAIN contexts \cup {c}
  PROVE  GrownContexts' = GrownContexts \cup {NewContext(c)}
BY DEF GrownContexts

\* An inserted memo is one: its only parent.
LEMMA MemoAdded ==
  ASSUME UNCHANGED published, NEW STATE m, m >= published.memo,
         m \notin DOMAIN memos, DOMAIN memos' = DOMAIN memos \cup {m},
         NEW STATE c, memos'[m].parents = <<c>>,
         \A x \in DOMAIN memos : memos'[x].parents = memos[x].parents
  PROVE  GrownParents' = GrownParents \cup {ParentAppended(m, c)}
<1>1. Range(memos'[m].parents) = {c}
  BY RangeShort
<1> QED  BY <1>1 DEF GrownParents

\* A parent that joins a new memo is one.
LEMMA ParentAdded ==
  ASSUME TypeOK, UNCHANGED published, NEW STATE m, m \in DOMAIN memos,
         m >= published.memo,
         NEW STATE c, c \in DOMAIN contexts,
         DOMAIN memos' = DOMAIN memos,
         memos'[m].parents = Append(memos[m].parents, c),
         \A x \in DOMAIN memos : x # m => memos'[x].parents = memos[x].parents
  PROVE  GrownParents' = GrownParents \cup {ParentAppended(m, c)}
<1>1. memos[m].parents \in Seq(DOMAIN contexts)
  BY DEF TypeOK, Memo
<1>2. Range(memos'[m].parents) = Range(memos[m].parents) \cup {c}
  BY <1>1, RangeAppend
<1>3. \A x \in DOMAIN memos :
        Range(memos'[x].parents) = IF x = m THEN Range(memos[m].parents) \cup {c}
                                            ELSE Range(memos[x].parents)
  BY <1>2
<1>4. GrownParents' \subseteq GrownParents \cup {ParentAppended(m, c)}
  BY <1>3 DEF GrownParents
<1>5. GrownParents \subseteq GrownParents'
  BY <1>3 DEF GrownParents
<1>6. ParentAppended(m, c) \in GrownParents'
  <2>1. /\ m \in {x \in DOMAIN memos' : x >= published'.memo}
        /\ c \in Range(memos'[m].parents)
    BY <1>2
  <2>2. ParentAppended(m, c) \in {ParentAppended(m, d) : d \in Range(memos'[m].parents)}
    BY <2>1
  <2>3. {ParentAppended(m, d) : d \in Range(memos'[m].parents)}
          \in {{ParentAppended(n, d) : d \in Range(memos'[n].parents)} :
               n \in {x \in DOMAIN memos' : x >= published'.memo}}
    BY <2>1
  <2> QED  BY <2>2, <2>3 DEF GrownParents
<1> QED  BY <1>4, <1>5, <1>6

\* An inserted expression is one, if it packs one alternative at most.
LEMMA ExpressionAdded ==
  ASSUME UNCHANGED published, NEW STATE e, e >= published.expression,
         e \notin DOMAIN expressions, DOMAIN expressions' = DOMAIN expressions \cup {e},
         Single(expressions'[e].node),
         \A x \in DOMAIN expressions : expressions'[x] = expressions[x]
  PROVE  /\ GrownExpressions' = GrownExpressions \cup {NewExpression(e)}
         /\ GrownChildren' = GrownChildren
<1>1. GrownExpressions' = GrownExpressions \cup {NewExpression(e)}
  BY DEF GrownExpressions
<1>2. expressions'[e].node.tag = "Alt" => Range(Tail(expressions'[e].node.children)) = {}
  BY DEF Single
<1>3. GrownChildren' = GrownChildren
  BY <1>2 DEF GrownChildren
<1> QED  BY <1>1, <1>3

\* An alternative that joins a new expression is one.
LEMMA ChildAdded ==
  ASSUME UNCHANGED published, NEW STATE a, a \in DOMAIN expressions,
         a >= published.expression,
         expressions[a].node.tag = "Alt", expressions'[a].node.tag = "Alt",
         DOMAIN expressions' = DOMAIN expressions,
         NEW STATE e,
         Range(Tail(expressions'[a].node.children))
           = Range(Tail(expressions[a].node.children)) \cup {e},
         \A x \in DOMAIN expressions : x # a => expressions'[x] = expressions[x]
  PROVE  /\ GrownExpressions' = GrownExpressions
         /\ GrownChildren' = GrownChildren \cup {ChildAppended(a, e)}
BY DEF GrownExpressions, GrownChildren

----------------------------------------------------------------------------
(* When a step keeps the reporting in order.                               *)

\* What is pushed and what lies below the top complete a memo with one
\* alternative at most.
LEMMA WorkSingle ==
  ASSUME TypeOK, Reporting, operations # <<>>,
         NEW T, NEW ops \in Seq(T), Push(ops),
         \A k \in DOMAIN ops : ops[k].op = "Up" => Single(ops[k].node)
  PROVE  \A i \in DOMAIN operations' :
           operations'[i].op = "Up" => Single(operations'[i].node)
<1> TAKE i \in DOMAIN operations'
<1>1. DOMAIN ops = 1 .. Len(ops)
  BY LenProperties
<1>2. \/ i \in 1 .. Len(ops) /\ operations'[i] = ops[i]
      \/ \E j \in DOMAIN operations : j > 1 /\ operations'[i] = operations[j]
  BY PushEntries DEF TypeOK
<1> QED  BY <1>1, <1>2 DEF Reporting

\* The special cases: nothing is pushed,
LEMMA WorkSingleNone ==
  ASSUME TypeOK, Reporting, operations # <<>>, Push(<<>>)
  PROVE  \A i \in DOMAIN operations' :
           operations'[i].op = "Up" => Single(operations'[i].node)
<1>1. <<>> \in Seq({}) /\ DOMAIN <<>> = {}
  OBVIOUS
<1> QED  BY <1>1, WorkSingle

\* or one item.
LEMMA WorkSingleOne ==
  ASSUME TypeOK, Reporting, operations # <<>>, NEW op, Push(<<op>>),
         op.op = "Up" => Single(op.node)
  PROVE  \A i \in DOMAIN operations' :
           operations'[i].op = "Up" => Single(operations'[i].node)
<1>1. <<op>> \in Seq({op}) /\ DOMAIN <<op>> = {1} /\ <<op>>[1] = op
  OBVIOUS
<1> QED  BY <1>1, WorkSingle

\* A derivative runs, and all it makes is numbered above what is published.
LEMMA Above ==
  ASSUME Reported, operations # <<>>
  PROVE  /\ ~Idle
         /\ next_expression >= published.expression
         /\ next_memo >= published.memo
         /\ next_context >= published.context
         /\ next_context + 1 >= published.context
BY Running DEF Reported, Inductive, Reporting, Stamped, TypeOK

\* An operation keeps the reporting in order if what it is about to complete
\* packs one alternative at most.
LEMMA ReportingStep ==
  ASSUME Reported, operations # <<>>, UNCHANGED frame,
         next_context' = next_context \/ next_context' = next_context + 1
           \/ next_context' = next_context + 2,
         \A i \in DOMAIN operations' :
           operations'[i].op = "Up" => Single(operations'[i].node),
         \A z \in DOMAIN next' : Single(next'[z].focus),
         \A e \in DOMAIN expressions' :
           e >= published.expression /\ expressions'[e].node.tag = "Alt" =>
             expressions'[e].node.children # <<>>
  PROVE  Reporting' /\ ~Idle' /\ UNCHANGED published
<1>1. ~Idle' /\ zippers' = zippers /\ published' = published
  BY Above DEF frame, Idle
<1>2. published.context <= next_context'
  BY DEF Reported, Reporting, Inductive, TypeOK
<1>3. \A z \in DOMAIN zippers' : Single(zippers'[z].focus)
  BY <1>1 DEF Reported, Reporting
<1> QED  BY <1>1, <1>2, <1>3 DEF Reporting

\* An operation that writes no map reports nothing.
LEMMA QuietStep ==
  ASSUME Reported, operations # <<>>,
         UNCHANGED frame, UNCHANGED maps, UNCHANGED counters, UNCHANGED changes,
         \A i \in DOMAIN operations' :
           operations'[i].op = "Up" => Single(operations'[i].node),
         \A z \in DOMAIN next' : Single(next'[z].focus)
  PROVE  Reporting' /\ ChangesComplete'
<1>1. /\ expressions' = expressions /\ memos' = memos /\ contexts' = contexts
      /\ next_context' = next_context
  BY DEF maps, counters
<1>2. Reporting' /\ UNCHANGED published
  BY <1>1, ReportingStep DEF Reported, Reporting
<1>3. /\ GrownExpressions' = GrownExpressions /\ GrownChildren' = GrownChildren
      /\ GrownContexts' = GrownContexts /\ GrownParents' = GrownParents
  BY <1>1, <1>2, ExpressionsKept, ContextsKept, ParentsKept
<1>4. ~Idle
  BY Above
<1> QED  BY <1>2, <1>3, <1>4 DEF Reported, ChangesComplete

\* The log and the growth gain the same.
LEMMA ReportStep ==
  ASSUME Reported, operations # <<>>, Reporting', NEW T, NEW new \in Seq(T), Log(new),
         GrownExpressions' \cup GrownContexts' \cup GrownParents' \cup GrownChildren'
           = (GrownExpressions \cup GrownContexts \cup GrownParents \cup GrownChildren)
               \cup Range(new)
  PROVE  ChangesComplete'
<1>1. Range(changes') = Range(changes) \cup Range(new)
  BY LogRange DEF Reported, Inductive, TypeOK
<1>2. ~Idle
  BY Above
<1> QED  BY <1>1, <1>2 DEF Reported, ChangesComplete

----------------------------------------------------------------------------
(* Each operation reports what it adds.                                    *)

\* A matched token adds a zipper to the output, and nothing to the graph.
LEMMA FreshTokReports ==
  ASSUME Reported, FreshTok
  PROVE  Reporting' /\ ChangesComplete'
<1> DEFINE zipper == [focus |-> Seqn(TokenSymbol(token), <<>>),
                      memo |-> Head(operations).memo]
<1>1. /\ operations # <<>> /\ Push(<<>>) /\ UNCHANGED frame /\ UNCHANGED maps
      /\ UNCHANGED counters /\ UNCHANGED changes
      /\ next' = next \/ next' = Append(next, zipper)
  BY DEF FreshTok, Popped
<1>2. Single(zipper.focus)
  BY DEF Single, Seqn
<1> HIDE DEF zipper
<1>3. ASSUME NEW z \in DOMAIN next'
      PROVE  \/ z \in DOMAIN next /\ next'[z] = next[z]
             \/ next'[z] = zipper
  <2>1. next \in Seq(Zipper(DOMAIN expressions, DOMAIN memos))
    BY DEF Reported, Inductive, TypeOK
  <2>2. CASE next' = next
    BY <2>2
  <2>3. CASE next' = Append(next, zipper)
    BY <2>1, <2>3, AppendEntries
  <2> QED  BY <1>1, <2>2, <2>3
<1>4. \A z \in DOMAIN next' : Single(next'[z].focus)
  BY <1>2, <1>3 DEF Reported, Reporting
<1>5. \A i \in DOMAIN operations' :
        operations'[i].op = "Up" => Single(operations'[i].node)
  BY <1>1, WorkSingleNone DEF Reported, Inductive
<1> QED  BY <1>1, <1>4, <1>5, QuietStep

\* The root's completion is not passed on.
LEMMA UpTopReports ==
  ASSUME Reported, UpTop
  PROVE  Reporting' /\ ChangesComplete'
<1>1. /\ operations # <<>> /\ Push(<<>>) /\ UNCHANGED frame /\ UNCHANGED maps
      /\ UNCHANGED counters /\ UNCHANGED changes /\ next' = next
  BY DEF UpTop, Rising, Popped
<1>2. \A i \in DOMAIN operations' :
        operations'[i].op = "Up" => Single(operations'[i].node)
  BY <1>1, WorkSingleNone DEF Reported, Inductive
<1> QED  BY <1>1, <1>2, QuietStep DEF Reported, Reporting

\* The operations that push the completion of a memo: an empty sequence, the
\* last child of one, the first alternative of a packer.
LEMMA CompletionReports ==
  ASSUME Reported, FreshEmptySeq \/ UpLast \/ UpFirst
  PROVE  Reporting' /\ ChangesComplete'
<1>1. PICK node, memo : Push(<<UpOp(node, memo)>>) /\ Single(node)
  <2>1. CASE FreshEmptySeq
    BY <2>1 DEF FreshEmptySeq, Single
  <2>2. CASE UpLast
    BY <2>2 DEF UpLast, Single, Seqn
  <2>3. CASE UpFirst
    <3>1. \A x : Single(Alt(<<x>>))
      <4>1. \A x : Tail(<<x>>) = <<>> /\ <<x>> # <<>>
        OBVIOUS
      <4> QED  BY <4>1, RangeShort DEF Single, Alt
    <3> QED  BY <2>3, <3>1 DEF UpFirst
  <2> QED  BY <2>1, <2>2, <2>3
<1>2. /\ operations # <<>> /\ UNCHANGED frame /\ UNCHANGED maps
      /\ UNCHANGED counters /\ UNCHANGED changes /\ next' = next
  BY DEF FreshEmptySeq, UpLast, UpFirst, Rising, Popped
<1>3. UpOp(node, memo).op = "Up" => Single(UpOp(node, memo).node)
  BY <1>1 DEF UpOp
<1>4. \A i \in DOMAIN operations' :
        operations'[i].op = "Up" => Single(operations'[i].node)
  BY <1>1, <1>2, <1>3, WorkSingleOne DEF Reported, Inductive
<1> QED  BY <1>2, <1>4, QuietStep DEF Reported, Reporting

\* A parent joins a memo that was entered here, hence is new.
LEMMA DownSharedReports ==
  ASSUME Reported, DownShared
  PROVE  Reporting' /\ ChangesComplete'
<1> DEFINE o == Head(operations)
           memo == expressions[o.expression].memo
           new == <<ParentAppended(memo, o.context)>>
<1> USE DEF Reported, Inductive
<1>1. /\ Popped("Down") /\ Entered(o.expression) /\ operations # <<>>
      /\ memos' = [memos EXCEPT ![memo].parents = Append(@, o.context)]
      /\ Log(new) /\ Push(Delivery(memo, o.context))
      /\ UNCHANGED frame /\ expressions' = expressions /\ contexts' = contexts
      /\ UNCHANGED counters /\ next' = next
  BY DEF DownShared, Popped
<1>2. o.expression \in DOMAIN expressions /\ o.context \in DOMAIN contexts
  <2>1. /\ o \in Operation(DOMAIN expressions, DOMAIN memos, DOMAIN contexts)
        /\ o.op = "Down"
    BY <1>1, PoppedType
  <2> QED  BY <2>1, OperationFields
<1>3. memo \in DOMAIN memos /\ memos[memo].start = position
  BY <1>1, <1>2 DEF Entered, TypeOK, Expression, Option
<1>4. memo >= published.memo
  BY <1>3 DEF Stamped
<1>5. /\ DOMAIN memos' = DOMAIN memos
      /\ memos'[memo].parents = Append(memos[memo].parents, o.context)
      /\ \A m \in DOMAIN memos : m # memo => memos'[m] = memos[m]
  BY <1>1, <1>3 DEF TypeOK, Memo
<1>6. \A i \in DOMAIN operations' :
        operations'[i].op = "Up" => Single(operations'[i].node)
  <2>1. CASE Push(<<>>)
    BY <1>1, <2>1, WorkSingleNone
  <2>2. CASE Push(<<UpContextOp(memos[memo].result, o.context)>>)
    <3>1. UpContextOp(memos[memo].result, o.context).op # "Up"
      BY DEF UpContextOp
    <3> QED  BY <1>1, <2>2, <3>1, WorkSingleOne
  <2> QED  BY <1>1, <2>1, <2>2 DEF Delivery
<1>7. Reporting' /\ UNCHANGED published
  <2>1. next_context' = next_context
    BY <1>1 DEF counters
  <2> QED  BY <1>1, <1>6, <2>1, ReportingStep DEF Reporting
<1> HIDE DEF memo
<1>8. /\ GrownExpressions' = GrownExpressions /\ GrownChildren' = GrownChildren
      /\ GrownContexts' = GrownContexts
  BY <1>1, <1>7, ExpressionsKept, ContextsKept
<1>9. GrownParents' = GrownParents \cup {ParentAppended(memo, o.context)}
  BY <1>2, <1>3, <1>4, <1>5, <1>7, ParentAdded
<1>10. new \in Seq({ParentAppended(memo, o.context)})
       /\ Range(new) = {ParentAppended(memo, o.context)}
  BY RangeShort, ShortSeqs
<1>11. ChangesComplete'
  <2> HIDE DEF new
  <2> QED  BY <1>1, <1>7, <1>8, <1>9, <1>10, ReportStep
<1> QED  BY <1>7, <1>11

\* A memo that is entered here is new, and so is its only parent.
LEMMA DownEnteredReports ==
  ASSUME Reported, DownEntered
  PROVE  Reporting' /\ ChangesComplete'
<1> DEFINE o == Head(operations)
           op == FreshOp(next_memo, expressions[o.expression].node)
           new == <<ParentAppended(next_memo, o.context)>>
<1>1. /\ operations # <<>> /\ Log(new) /\ Push(<<op>>) /\ UNCHANGED frame
      /\ contexts' = contexts /\ next_context' = next_context /\ next' = next
      /\ memos' = Insert(memos, next_memo, FreshMemo(position, o.context))
      /\ expressions' = [expressions EXCEPT ![o.expression].memo = next_memo]
  BY DEF DownEntered, Popped, InsertMemo
<1>2. /\ DOMAIN expressions' = DOMAIN expressions
      /\ \A e \in DOMAIN expressions : expressions'[e].node = expressions[e].node
  BY <1>1 DEF Reported, Inductive, TypeOK, Expression
<1>3. /\ next_memo \notin DOMAIN memos
      /\ DOMAIN memos' = DOMAIN memos \cup {next_memo}
      /\ memos'[next_memo].parents = <<o.context>>
      /\ \A m \in DOMAIN memos : memos'[m] = memos[m]
  BY <1>1 DEF Reported, Inductive, TypeOK, Insert, FreshMemo
<1>4. \A i \in DOMAIN operations' :
        operations'[i].op = "Up" => Single(operations'[i].node)
  <2>1. op.op # "Up"
    BY DEF FreshOp
  <2> HIDE DEF op
  <2> QED  BY <1>1, <2>1, WorkSingleOne DEF Reported, Inductive
<1>5. Reporting' /\ UNCHANGED published
  BY <1>1, <1>2, <1>4, ReportingStep DEF Reported, Reporting
<1>6. /\ GrownExpressions' = GrownExpressions /\ GrownChildren' = GrownChildren
      /\ GrownContexts' = GrownContexts
  BY <1>1, <1>2, <1>5, ExpressionsKept, ContextsKept
<1>7. GrownParents' = GrownParents \cup {ParentAppended(next_memo, o.context)}
  BY <1>1, <1>3, <1>5, Above, MemoAdded
<1>8. new \in Seq({ParentAppended(next_memo, o.context)})
      /\ Range(new) = {ParentAppended(next_memo, o.context)}
  BY RangeShort, ShortSeqs
<1>9. ChangesComplete'
  <2> HIDE DEF new
  <2> QED  BY <1>1, <1>5, <1>6, <1>7, <1>8, ReportStep
<1> QED  BY <1>5, <1>9

\* A sequence reports two contexts and the parent of the memo between them.
LEMMA FreshSeqReports ==
  ASSUME Reported, FreshSeq
  PROVE  Reporting' /\ ChangesComplete'
<1> DEFINE o == Head(operations)
           op == DownOp(next_context + 1, Head(o.node.children))
           new == <<NewContext(next_context),
                    ParentAppended(next_memo, next_context),
                    NewContext(next_context + 1)>>
<1>1. /\ operations # <<>> /\ Log(new) /\ Push(<<op>>) /\ UNCHANGED frame
      /\ expressions' = expressions /\ next' = next
      /\ next_context' = next_context + 2
      /\ memos' = Insert(memos, next_memo,
                         FreshMemo(memos[o.memo].start, next_context))
      /\ contexts' = Insert(Insert(contexts, next_context, AltContext(o.memo)),
                            next_context + 1,
                            SeqContext(next_memo, o.node.symbol, <<>>,
                                       Tail(o.node.children)))
  BY DEF FreshSeq, Popped, InsertMemo
<1>2. DOMAIN contexts' = DOMAIN contexts \cup {next_context, next_context + 1}
  BY <1>1 DEF Insert
<1>3. /\ next_memo \notin DOMAIN memos
      /\ DOMAIN memos' = DOMAIN memos \cup {next_memo}
      /\ memos'[next_memo].parents = <<next_context>>
      /\ \A m \in DOMAIN memos : memos'[m] = memos[m]
  <2>1. memos' = Insert(memos, next_memo,
                        FreshMemo(memos[o.memo].start, next_context))
    BY <1>1
  <2>2. next_memo \notin DOMAIN memos
    BY DEF Reported, Inductive, TypeOK
  <2> QED  BY <2>1, <2>2 DEF Insert, FreshMemo
<1>4. \A i \in DOMAIN operations' :
        operations'[i].op = "Up" => Single(operations'[i].node)
  <2>1. op.op # "Up"
    BY DEF DownOp
  <2> HIDE DEF op
  <2> QED  BY <1>1, <2>1, WorkSingleOne DEF Reported, Inductive
<1>5. Reporting' /\ UNCHANGED published
  BY <1>1, <1>4, ReportingStep DEF Reported, Reporting
<1>6. GrownExpressions' = GrownExpressions /\ GrownChildren' = GrownChildren
  BY <1>1, <1>5, ExpressionsKept
<1>7. GrownContexts' = GrownContexts \cup {NewContext(next_context),
                                           NewContext(next_context + 1)}
  BY <1>1, <1>2, <1>5, Above DEF GrownContexts
<1>8. GrownParents' = GrownParents \cup {ParentAppended(next_memo, next_context)}
  BY <1>1, <1>3, <1>5, Above, MemoAdded
<1>9. /\ new \in Seq({NewContext(next_context), NewContext(next_context + 1),
                      ParentAppended(next_memo, next_context)})
      /\ Range(new) = {NewContext(next_context), NewContext(next_context + 1),
                       ParentAppended(next_memo, next_context)}
  BY RangeShort
<1>10. ChangesComplete'
  <2> HIDE DEF new
  <2> QED  BY <1>1, <1>5, <1>6, <1>7, <1>8, <1>9, ReportStep
<1> QED  BY <1>5, <1>10

\* The operations that report one new context: an alternative that is entered,
\* and a sequence that moves on.
LEMMA ContextReports ==
  ASSUME Reported, operations # <<>>, UNCHANGED frame,
         expressions' = expressions, memos' = memos, next' = next,
         NEW c, InsertContext(c), Log(<<NewContext(next_context)>>),
         \A i \in DOMAIN operations' :
           operations'[i].op = "Up" => Single(operations'[i].node)
  PROVE  Reporting' /\ ChangesComplete'
<1> DEFINE new == <<NewContext(next_context)>>
<1>1. /\ next_context' = next_context + 1
      /\ DOMAIN contexts' = DOMAIN contexts \cup {next_context}
  BY DEF InsertContext, Insert
<1>2. Reporting' /\ UNCHANGED published
  BY <1>1, ReportingStep DEF Reported, Reporting
<1>3. /\ GrownExpressions' = GrownExpressions /\ GrownChildren' = GrownChildren
      /\ GrownParents' = GrownParents
  BY <1>2, ExpressionsKept, ParentsKept
<1>4. GrownContexts' = GrownContexts \cup {NewContext(next_context)}
  BY <1>1, <1>2, Above, ContextAdded
<1>5. new \in Seq({NewContext(next_context)}) /\ Range(new) = {NewContext(next_context)}
  BY RangeShort, ShortSeqs
<1>6. ChangesComplete'
  <2> HIDE DEF new
  <2>1. Log(new)
    BY DEF new
  <2> QED  BY <1>2, <1>3, <1>4, <1>5, <2>1, ReportStep
<1> QED  BY <1>2, <1>6

\* An alternative enters children, which completes nothing.
LEMMA FreshAltReports ==
  ASSUME Reported, FreshAlt
  PROVE  Reporting' /\ ChangesComplete'
<1> DEFINE o == Head(operations)
           children == o.node.children
           entered == {i \in DOMAIN children : Selected(children[i])}
           ops(kept) == [i \in 1 .. Cardinality(entered) |->
                           DownOp(next_context, children[kept[i]])]
<1>1. /\ operations # <<>> /\ children \in Seq(DOMAIN expressions)
      /\ UNCHANGED frame /\ expressions' = expressions /\ memos' = memos
      /\ next' = next /\ InsertContext(AltContext(o.memo))
      /\ Log(<<NewContext(next_context)>>)
  BY PoppedType, OperationFields, NodeFields DEF FreshAlt, Reported, Inductive
<1>2. \A i \in DOMAIN operations' :
        operations'[i].op = "Up" => Single(operations'[i].node)
  <2>1. PICK kept \in [1 .. Cardinality(entered) -> entered] : Push(ops(kept))
    BY DEF FreshAlt
  <2>2. Cardinality(entered) \in Nat
    <3>1. DOMAIN children = 1 .. Len(children) /\ Len(children) \in Nat
      BY <1>1, LenProperties
    <3>2. IsFiniteSet(DOMAIN children)
      BY <3>1, FS_Interval
    <3> QED  BY <3>2, FS_Subset, FS_CardinalityType
  <2>3. ops(kept) \in Seq({ops(kept)[i] : i \in 1 .. Cardinality(entered)})
    BY <2>2, FunctionSeq
  <2>4. \A k \in DOMAIN ops(kept) : ops(kept)[k].op # "Up"
    BY DEF DownOp
  <2> HIDE DEF ops
  <2> QED  BY <1>1, <2>1, <2>3, <2>4, WorkSingle DEF Reported, Inductive
<1> QED  BY <1>1, <1>2, ContextReports

\* A sequence that moves on reports its context.
LEMMA UpNextReports ==
  ASSUME Reported, UpNext
  PROVE  Reporting' /\ ChangesComplete'
<1> DEFINE context == contexts[Head(operations).context]
           op == DownOp(next_context, Head(context.right))
           moved == SeqContext(context.memo, context.symbol,
                               Append(context.left, Head(operations).expression),
                               Tail(context.right))
<1>1. /\ operations # <<>> /\ UNCHANGED frame /\ expressions' = expressions
      /\ memos' = memos /\ next' = next /\ InsertContext(moved)
      /\ Push(<<op>>) /\ Log(<<NewContext(next_context)>>)
  BY DEF UpNext, Rising, Popped
<1>2. op.op # "Up"
  BY DEF DownOp
<1> HIDE DEF op, moved
<1>3. \A i \in DOMAIN operations' :
        operations'[i].op = "Up" => Single(operations'[i].node)
  BY <1>1, <1>2, WorkSingleOne DEF Reported, Inductive
<1> QED  BY <1>1, <1>3, ContextReports

\* `up` reports the expression it inserts, which packs one alternative at most.
LEMMA UpReports ==
  ASSUME Reported, Up
  PROVE  Reporting' /\ ChangesComplete'
<1> DEFINE o == Head(operations)
           parents == memos[o.memo].parents
           ops == [i \in 1 .. Len(parents) |->
                     UpContextOp(next_expression, parents[i])]
           new == <<NewExpression(next_expression)>>
<1>1. /\ operations # <<>> /\ Push(ops) /\ Log(new) /\ UNCHANGED frame
      /\ contexts' = contexts /\ next_context' = next_context /\ next' = next
      /\ DOMAIN expressions' = DOMAIN expressions \cup {next_expression}
  BY DEF Up, Popped, InsertExpression, Insert
<1>2. /\ next_expression \notin DOMAIN expressions
      /\ expressions'[next_expression].node = o.node
      /\ \A e \in DOMAIN expressions : expressions'[e] = expressions[e]
      /\ DOMAIN memos' = DOMAIN memos
      /\ \A m \in DOMAIN memos : memos'[m].parents = memos[m].parents
  BY UpEffect DEF Reported, Inductive
<1>3. Single(o.node)
  BY UpEffect DEF Reported, Inductive, Reporting
<1>4. \A i \in DOMAIN operations' :
        operations'[i].op = "Up" => Single(operations'[i].node)
  <2>1. Len(parents) \in Nat
    BY UpEffect, LenProperties DEF Reported, Inductive, TypeOK, Memo
  <2>2. ops \in Seq({ops[i] : i \in 1 .. Len(parents)})
    BY <2>1, FunctionSeq
  <2>3. \A k \in DOMAIN ops : ops[k].op # "Up"
    BY DEF UpContextOp
  <2> HIDE DEF ops
  <2> QED  BY <1>1, <2>2, <2>3, WorkSingle DEF Reported, Inductive
<1>5. \A e \in DOMAIN expressions' :
        e >= published.expression /\ expressions'[e].node.tag = "Alt" =>
          expressions'[e].node.children # <<>>
  BY <1>1, <1>2, <1>3 DEF Reported, Reporting, Single
<1>6. Reporting' /\ UNCHANGED published
  BY <1>1, <1>4, <1>5, ReportingStep DEF Reported, Reporting
<1>7. GrownContexts' = GrownContexts /\ GrownParents' = GrownParents
  BY <1>1, <1>2, <1>6, ContextsKept, ParentsKept
<1>8. /\ GrownExpressions' = GrownExpressions \cup {NewExpression(next_expression)}
      /\ GrownChildren' = GrownChildren
  BY <1>1, <1>2, <1>3, <1>6, Above, ExpressionAdded
<1>9. /\ new \in Seq({NewExpression(next_expression)})
      /\ Range(new) = {NewExpression(next_expression)}
  BY RangeShort, ShortSeqs
<1>10. ChangesComplete'
  <2> HIDE DEF new
  <2> QED  BY <1>1, <1>6, <1>7, <1>8, <1>9, ReportStep
<1> QED  BY <1>6, <1>10

\* A later alternative of a result made by this derivative, which has one.
LEMMA UpPackedReports ==
  ASSUME Reported, UpPacked
  PROVE  Reporting' /\ ChangesComplete'
<1> DEFINE memo == contexts[Head(operations).context].memo
           child == Head(operations).expression
           alternative == memos[memo].result
           new == <<ChildAppended(alternative, child)>>
<1>1. /\ operations # <<>> /\ Push(<<>>) /\ Log(new) /\ UNCHANGED frame
      /\ contexts' = contexts /\ memos' = memos /\ UNCHANGED counters
      /\ next' = next
      /\ expressions' =
           [expressions EXCEPT ![alternative].node.children = Append(@, child)]
  BY DEF UpPacked, Rising, Popped
<1>2. /\ AltTarget(memo) /\ Completed(memo) /\ memo \in DOMAIN memos
      /\ child \in DOMAIN expressions
  <2>1. Rising("Alt")
    BY DEF UpPacked
  <2>2. /\ Head(operations).context \in DOMAIN contexts
        /\ contexts[Head(operations).context].tag = "Alt"
        /\ child \in DOMAIN expressions
    BY <2>1, RisingType DEF Reported, Inductive
  <2>3. memo \in DOMAIN memos /\ Completed(memo)
    BY UpPackedEffect DEF Reported, Inductive
  <2> QED  BY <2>2, <2>3 DEF AltTarget
<1>3. /\ alternative \in DOMAIN expressions
      /\ expressions[alternative].node.tag = "Alt"
      /\ alternative >= published.expression
  <2>1. alternative >= published.expression
    BY <1>2 DEF Reported, Inductive, Stamped
  <2> QED  BY <1>2, <2>1, CompletedResult DEF Reported, Inductive
<1> HIDE DEF memo, alternative, child
<1>4. /\ expressions[alternative].node.children \in Seq(DOMAIN expressions)
      /\ expressions[alternative].node.children # <<>>
  <2>1. expressions[alternative].node \in Node(DOMAIN expressions)
    BY <1>3 DEF Reported, Inductive, TypeOK, Expression
  <2> QED  BY <1>3, <2>1, NodeFields DEF Reported, Reporting
<1>5. /\ DOMAIN expressions' = DOMAIN expressions
      /\ \A e \in DOMAIN expressions :
           e # alternative => expressions'[e] = expressions[e]
      /\ expressions'[alternative].node.tag = "Alt"
      /\ expressions'[alternative].node.children
           = Append(expressions[alternative].node.children, child)
  <2>1. /\ expressions[alternative] \in Expression(DOMAIN expressions, DOMAIN memos)
        /\ expressions[alternative].node = Alt(expressions[alternative].node.children)
    <3>1. expressions[alternative] \in Expression(DOMAIN expressions, DOMAIN memos)
      BY <1>3 DEF Reported, Inductive, TypeOK
    <3>2. expressions[alternative].node \in Node(DOMAIN expressions)
      BY <3>1 DEF Expression
    <3> QED  BY <1>3, <3>1, <3>2, NodeFields
  <2> QED  BY <1>1, <1>3, <2>1 DEF Expression, Alt
<1>6. \A e \in DOMAIN expressions' :
        e >= published.expression /\ expressions'[e].node.tag = "Alt" =>
          expressions'[e].node.children # <<>>
  <2>1. Append(expressions[alternative].node.children, child) # <<>>
    BY <1>2, <1>4, AppendProperties
  <2> QED  BY <1>5, <2>1 DEF Reported, Reporting
<1>7. \A i \in DOMAIN operations' :
        operations'[i].op = "Up" => Single(operations'[i].node)
  BY <1>1, WorkSingleNone DEF Reported, Inductive
<1>8. Reporting' /\ UNCHANGED published
  <2>1. next_context' = next_context
    BY <1>1 DEF counters
  <2> QED  BY <1>1, <1>6, <1>7, <2>1, ReportingStep DEF Reported, Reporting
<1>9. GrownContexts' = GrownContexts /\ GrownParents' = GrownParents
  BY <1>1, <1>8, ContextsKept, ParentsKept
<1>10. /\ GrownExpressions' = GrownExpressions
       /\ GrownChildren' = GrownChildren \cup {ChildAppended(alternative, child)}
  <2>1. Range(Tail(expressions'[alternative].node.children))
          = Range(Tail(expressions[alternative].node.children)) \cup {child}
    BY <1>2, <1>4, <1>5, RangeTailAppend
  <2> QED  BY <1>3, <1>5, <1>8, <2>1, ChildAdded
<1>11. new \in Seq({ChildAppended(alternative, child)})
       /\ Range(new) = {ChildAppended(alternative, child)}
  BY RangeShort, ShortSeqs
<1>12. ChangesComplete'
  <2> HIDE DEF new
  <2> QED  BY <1>1, <1>8, <1>9, <1>10, <1>11, ReportStep
<1> QED  BY <1>8, <1>12

\* When a derivative starts, everything is published and nothing is logged.
LEMMA DeriveReports ==
  ASSUME Reported, NEW t \in Tokens, Derive(t)
  PROVE  Reporting' /\ ChangesComplete'
<1>1. /\ UNCHANGED maps /\ UNCHANGED counters
      /\ changes' = changes /\ published' = published
      /\ zippers' = <<>> /\ next' = <<>> /\ Idle
  BY DEF Derive
<1>2. /\ expressions' = expressions /\ memos' = memos /\ contexts' = contexts
      /\ next_context' = next_context
  BY <1>1 DEF maps, counters
<1>3. /\ changes = <<>>
      /\ published.expression = next_expression
      /\ published.memo = next_memo /\ published.context = next_context
  BY <1>1 DEF Reported, Reporting, Allocated
<1>4. ~Idle'
  <2>1. t # NoToken
    BY TokensAssumption DEF NoToken, None
  <2> QED  BY <2>1 DEF Derive, Idle
<1>5. \A i \in DOMAIN operations' :
        operations'[i].op = "Up" => Single(operations'[i].node)
  <2>1. ASSUME NEW i \in DOMAIN operations'
        PROVE  i \in DOMAIN zippers /\ operations'[i].node = zippers[i].focus
    BY LenProperties DEF Derive, Reported, Inductive, TypeOK, UpOp
  <2> QED  BY <2>1 DEF Reported, Reporting
<1>6. Reporting'
  BY <1>1, <1>2, <1>4, <1>5 DEF Reported, Reporting
<1>7. /\ \A e \in DOMAIN expressions : ~(e >= published.expression)
      /\ \A m \in DOMAIN memos : ~(m >= published.memo)
      /\ \A c \in DOMAIN contexts : ~(c >= published.context)
  BY <1>3 DEF Reported, Inductive, TypeOK
<1>8. /\ GrownExpressions' = {} /\ GrownContexts' = {}
      /\ GrownParents' = {} /\ GrownChildren' = {}
  BY <1>1, <1>2, <1>7
     DEF GrownExpressions, GrownContexts, GrownParents, GrownChildren
<1>9. Range(changes') = {}
  BY <1>1, <1>3, RangeShort
<1> QED  BY <1>6, <1>8, <1>9 DEF ChangesComplete

\* When a derivative ends, its zippers wait and everything is published.
LEMMA EndDeriveReports ==
  ASSUME Reported, EndDerive
  PROVE  Reporting' /\ ChangesComplete'
<1>1. /\ operations' = <<>> /\ operations = <<>> /\ changes' = <<>>
      /\ zippers' = next /\ next' = <<>>
      /\ UNCHANGED maps /\ UNCHANGED counters
      /\ published' = Allocated(next_expression, next_memo, next_context)
      /\ token' = NoToken
  BY DEF EndDerive
<1>2. /\ expressions' = expressions
      /\ next_expression' = next_expression /\ next_memo' = next_memo
      /\ next_context' = next_context
  BY <1>1 DEF maps, counters
<1>3. Idle'
  BY <1>1 DEF Idle
<1>4. \A e \in DOMAIN expressions : ~(e >= next_expression)
  BY DEF Reported, Inductive, TypeOK
<1>5. published'.context <= next_context'
  BY <1>1, <1>2 DEF Allocated, Reported, Inductive, TypeOK
<1>6. Reporting'
  BY <1>1, <1>2, <1>4, <1>5 DEF Reported, Reporting, Allocated
<1> QED  BY <1>3, <1>6 DEF ChangesComplete

----------------------------------------------------------------------------
(* The theorem.                                                            *)

\* `new` has logged nothing, and its zipper is an empty sequence.
LEMMA ReportedInit == Init => Reported
<1> SUFFICES ASSUME Init PROVE Reported  OBVIOUS
<1>1. Inductive
  BY InductiveInit
<1>2. /\ Idle /\ operations = <<>> /\ next = <<>> /\ changes = <<>>
      /\ published = Allocated(next_expression, next_memo, next_context)
      /\ next_context = 2
  BY DEF Init, Idle
<1>3. \A z \in DOMAIN zippers : Single(zippers[z].focus)
  BY DEF Init, InitialZippers, Single, Seqn
<1>4. \A e \in DOMAIN expressions : ~(e >= published.expression)
  BY <1>1, <1>2 DEF Inductive, TypeOK, Allocated
<1>5. Reporting
  BY <1>2, <1>3, <1>4 DEF Reporting, Allocated
<1> QED  BY <1>1, <1>2, <1>5 DEF Reported, ChangesComplete

\* Every step of Pwz reports what it adds.
LEMMA ReportedNext == Reported /\ [Next]_vars => Reported'
<1> SUFFICES ASSUME Reported, [Next]_vars PROVE Reported'  OBVIOUS
<1>1. Inductive'
  BY InductiveNext DEF Reported
<1>2. CASE Step
  <2>1. Reporting' /\ ChangesComplete'
    BY <1>2, DownSharedReports, DownEnteredReports, FreshTokReports,
       FreshSeqReports, FreshAltReports, UpReports, UpTopReports,
       UpNextReports, UpPackedReports, CompletionReports DEF Step
  <2> QED  BY <1>1, <2>1 DEF Reported
<1>3. CASE \E t \in Tokens : Derive(t)
  BY <1>1, <1>3, DeriveReports DEF Reported
<1>4. CASE EndDerive
  BY <1>1, <1>4, EndDeriveReports DEF Reported
<1>5. CASE UNCHANGED vars
  <2>1. /\ memos' = memos /\ contexts' = contexts /\ expressions' = expressions
        /\ zippers' = zippers /\ next' = next /\ operations' = operations
        /\ token' = token /\ published' = published /\ changes' = changes
        /\ next_expression' = next_expression /\ next_memo' = next_memo
        /\ next_context' = next_context
    BY <1>5 DEF vars, frame, maps, counters
  <2>2. Reporting'
    BY <2>1 DEF Reported, Reporting, Idle
  <2>3. ChangesComplete'
    BY <2>1 DEF Reported, ChangesComplete, Idle, GrownExpressions,
       GrownContexts, GrownParents, GrownChildren
  <2> QED  BY <1>1, <2>2, <2>3 DEF Reported
<1> QED  BY <1>2, <1>3, <1>4, <1>5 DEF Next

\* Between any two operations of a derivative its change log tells exactly
\* what the graph has gained since the caller last looked: no expression,
\* context, parent or packed alternative is missing, and none is invented.
THEOREM ChangesAreComplete == Spec => []ChangesComplete
<1>1. Reported => ChangesComplete
  BY DEF Reported
<1> QED  BY <1>1, ReportedInit, ReportedNext, PTL DEF Spec

----------------------------------------------------------------------------
(* What a reader of the maps may rely on while the parse goes on.          *)

\* An expression keeps its node; an alternative may gain children.
Extends(old, new) ==
  \/ new = old
  \/ /\ old.tag = "Alt" /\ new.tag = "Alt"
     /\ Range(old.children) \subseteq Range(new.children)

\* Nothing is removed from the maps.
GraphGrows ==
  /\ grammar' = grammar
  /\ \A e \in DOMAIN expressions :
       e \in DOMAIN expressions' /\ Extends(expressions[e].node, expressions'[e].node)
  /\ \A c \in DOMAIN contexts : c \in DOMAIN contexts' /\ contexts'[c] = contexts[c]
  /\ \A m \in DOMAIN memos :
       m \in DOMAIN memos' /\ Range(memos[m].parents) \subseteq Range(memos'[m].parents)

LEMMA GrammarKept ==
  ASSUME UNCHANGED frame
  PROVE  grammar' = grammar
BY DEF frame

\* The steps that leave the maps as they are.
LEMMA GraphKept ==
  ASSUME UNCHANGED maps, grammar' = grammar
  PROVE  GraphGrows
<1>1. expressions' = expressions /\ memos' = memos /\ contexts' = contexts
  BY DEF maps
<1> QED  BY <1>1 DEF GraphGrows, Extends

\* A shared memo gains a parent.
LEMMA DownSharedGrows ==
  ASSUME Reported, DownShared
  PROVE  GraphGrows
<1> DEFINE o == Head(operations)
           memo == expressions[o.expression].memo
<1> USE DEF Reported, Inductive
<1>1. /\ Popped("Down") /\ Entered(o.expression)
      /\ memos' = [memos EXCEPT ![memo].parents = Append(@, o.context)]
      /\ UNCHANGED frame /\ expressions' = expressions /\ contexts' = contexts
  BY DEF DownShared, Popped
<1>2. o.expression \in DOMAIN expressions /\ o.context \in DOMAIN contexts
  <2>1. /\ o \in Operation(DOMAIN expressions, DOMAIN memos, DOMAIN contexts)
        /\ o.op = "Down"
    BY <1>1, PoppedType
  <2> QED  BY <2>1, OperationFields
<1>3. memo \in DOMAIN memos
  BY <1>1, <1>2 DEF Entered, TypeOK, Expression, Option
<1>4. memos[memo] \in Memo(DOMAIN expressions, DOMAIN contexts)
  BY <1>3 DEF TypeOK
<1>5. memos[memo].parents \in Seq(DOMAIN contexts)
  BY <1>4 DEF Memo
<1> HIDE DEF memo
<1>6. /\ DOMAIN memos' = DOMAIN memos
      /\ memos'[memo].parents = Append(memos[memo].parents, o.context)
      /\ \A m \in DOMAIN memos : m # memo => memos'[m] = memos[m]
  BY <1>1, <1>3, <1>4 DEF TypeOK, Memo
<1>7. Range(memos'[memo].parents) = Range(memos[memo].parents) \cup {o.context}
  BY <1>2, <1>5, <1>6, RangeAppend
<1>8. \A m \in DOMAIN memos : Range(memos[m].parents) \subseteq Range(memos'[m].parents)
  BY <1>6, <1>7
<1> QED  BY <1>1, <1>6, <1>8, GrammarKept DEF GraphGrows, Extends

\* An expression that is entered gets another memo, which is inserted.
LEMMA DownEnteredGrows ==
  ASSUME Reported, DownEntered
  PROVE  GraphGrows
<1> DEFINE o == Head(operations)
<1>1. /\ grammar' = grammar /\ contexts' = contexts
      /\ memos' = Insert(memos, next_memo, FreshMemo(position, o.context))
      /\ expressions' = [expressions EXCEPT ![o.expression].memo = next_memo]
  BY GrammarKept DEF DownEntered, InsertMemo
<1>2. /\ DOMAIN expressions' = DOMAIN expressions
      /\ \A e \in DOMAIN expressions : expressions'[e].node = expressions[e].node
  BY <1>1 DEF Reported, Inductive, TypeOK, Expression
<1>3. \A m \in DOMAIN memos : m \in DOMAIN memos' /\ memos'[m] = memos[m]
  BY <1>1 DEF Reported, Inductive, TypeOK, Insert
<1> QED  BY <1>1, <1>2, <1>3 DEF GraphGrows, Extends

\* A sequence inserts a memo and two contexts.
LEMMA FreshSeqGrows ==
  ASSUME Reported, FreshSeq
  PROVE  GraphGrows
<1> DEFINE o == Head(operations)
           above == AltContext(o.memo)
           below == SeqContext(next_memo, o.node.symbol, <<>>, Tail(o.node.children))
           memo == FreshMemo(memos[o.memo].start, next_context)
<1>1. /\ grammar' = grammar /\ expressions' = expressions
      /\ memos' = Insert(memos, next_memo, memo)
      /\ contexts' = Insert(Insert(contexts, next_context, above),
                            next_context + 1, below)
  BY GrammarKept DEF FreshSeq, InsertMemo
<1> HIDE DEF above, below, memo
<1>2. next_memo \notin DOMAIN memos
      /\ next_context \notin DOMAIN contexts /\ next_context + 1 \notin DOMAIN contexts
  BY DEF Reported, Inductive, TypeOK
<1>3. \A m \in DOMAIN memos : m \in DOMAIN memos' /\ memos'[m] = memos[m]
  BY <1>1, <1>2 DEF Insert
<1>4. \A c \in DOMAIN contexts : c \in DOMAIN contexts' /\ contexts'[c] = contexts[c]
  BY <1>1, <1>2 DEF Insert
<1> QED  BY <1>1, <1>3, <1>4 DEF GraphGrows, Extends

\* One context is inserted.
LEMMA ContextGrows ==
  ASSUME Reported, grammar' = grammar, expressions' = expressions, memos' = memos,
         NEW c, InsertContext(c)
  PROVE  GraphGrows
<1>1. \A x \in DOMAIN contexts : x \in DOMAIN contexts' /\ contexts'[x] = contexts[x]
  BY DEF Reported, Inductive, TypeOK, InsertContext, Insert
<1> QED  BY <1>1 DEF GraphGrows, Extends

\* A completion inserts an expression.
LEMMA UpGrows ==
  ASSUME Reported, Up
  PROVE  GraphGrows
<1>1. /\ next_expression \notin DOMAIN expressions
      /\ \A e \in DOMAIN expressions : expressions'[e] = expressions[e]
      /\ DOMAIN memos' = DOMAIN memos
      /\ \A m \in DOMAIN memos : memos'[m].parents = memos[m].parents
  BY UpEffect DEF Reported, Inductive
<1>2. /\ grammar' = grammar /\ contexts' = contexts
      /\ DOMAIN expressions' = DOMAIN expressions \cup {next_expression}
  BY GrammarKept DEF Up, InsertExpression, Insert
<1> QED  BY <1>1, <1>2 DEF GraphGrows, Extends

\* A result gains an alternative.
LEMMA UpPackedGrows ==
  ASSUME Reported, UpPacked
  PROVE  GraphGrows
<1> DEFINE memo == contexts[Head(operations).context].memo
           child == Head(operations).expression
           alternative == memos[memo].result
<1>1. /\ UNCHANGED frame /\ contexts' = contexts /\ memos' = memos
      /\ expressions' =
           [expressions EXCEPT ![alternative].node.children = Append(@, child)]
  BY DEF UpPacked, Rising, Popped
<1>2. /\ AltTarget(memo) /\ Completed(memo) /\ memo \in DOMAIN memos
      /\ child \in DOMAIN expressions
  <2>1. Rising("Alt")
    BY DEF UpPacked
  <2>2. /\ Head(operations).context \in DOMAIN contexts
        /\ contexts[Head(operations).context].tag = "Alt"
        /\ child \in DOMAIN expressions
    BY <2>1, RisingType DEF Reported, Inductive
  <2>3. memo \in DOMAIN memos /\ Completed(memo)
    BY UpPackedEffect DEF Reported, Inductive
  <2> QED  BY <2>2, <2>3 DEF AltTarget
<1>3. alternative \in DOMAIN expressions /\ expressions[alternative].node.tag = "Alt"
  BY <1>2, CompletedResult DEF Reported, Inductive
<1> HIDE DEF memo, alternative, child
<1>4. /\ expressions[alternative] \in Expression(DOMAIN expressions, DOMAIN memos)
      /\ expressions[alternative].node \in Node(DOMAIN expressions)
  BY <1>3 DEF Reported, Inductive, TypeOK, Expression
<1>5. /\ expressions[alternative].node.children \in Seq(DOMAIN expressions)
      /\ expressions[alternative].node = Alt(expressions[alternative].node.children)
  BY <1>3, <1>4, NodeFields
<1>6. /\ DOMAIN expressions' = DOMAIN expressions
      /\ \A e \in DOMAIN expressions :
           e # alternative => expressions'[e] = expressions[e]
      /\ expressions'[alternative].node.tag = "Alt"
      /\ expressions'[alternative].node.children
           = Append(expressions[alternative].node.children, child)
  BY <1>1, <1>3, <1>4, <1>5 DEF Expression, Alt
<1>7. Range(expressions'[alternative].node.children)
        = Range(expressions[alternative].node.children) \cup {child}
  BY <1>2, <1>5, <1>6, RangeAppend
<1>8. \A e \in DOMAIN expressions : Extends(expressions[e].node, expressions'[e].node)
  BY <1>3, <1>6, <1>7 DEF Extends
<1> QED  BY <1>1, <1>6, <1>8, GrammarKept DEF GraphGrows

\* Every step of the parse lets the graph grow.
LEMMA GraphNext ==
  ASSUME Reported, [Next]_vars
  PROVE  GraphGrows
<1>1. CASE UNCHANGED maps /\ grammar' = grammar
  BY <1>1, GraphKept
<1>2. CASE FreshTok \/ FreshEmptySeq \/ UpTop \/ UpLast \/ UpFirst \/ EndDerive
             \/ (\E t \in Tokens : Derive(t)) \/ UNCHANGED vars
  <2>1. UNCHANGED maps /\ grammar' = grammar
    BY <1>2, GrammarKept DEF FreshTok, FreshEmptySeq, UpTop, UpLast, UpFirst,
         EndDerive, Derive, vars
  <2> QED  BY <1>1, <2>1
<1>3. CASE FreshAlt \/ UpNext
  <2>1. \E c : InsertContext(c)
    BY <1>3 DEF FreshAlt, UpNext
  <2>2. grammar' = grammar /\ expressions' = expressions /\ memos' = memos
    BY <1>3, GrammarKept DEF FreshAlt, UpNext
  <2> QED  BY <2>1, <2>2, ContextGrows
<1> QED
  BY <1>2, <1>3, DownSharedGrows, DownEnteredGrows, FreshSeqGrows, UpGrows,
     UpPackedGrows DEF Next, Step

\* A reader that has seen all but the log of the derivative in progress has seen
\* the rest of the graph as it is.
GrowthLogged ==
  /\ \A e \in DOMAIN expressions' :
       \/ NewExpression(e) \in Range(changes')
       \/ /\ e \in DOMAIN expressions /\ NewExpression(e) \notin Range(changes)
          /\ expressions'[e].node = expressions[e].node
  /\ \A c \in DOMAIN contexts' :
       \/ NewContext(c) \in Range(changes')
       \/ /\ c \in DOMAIN contexts /\ NewContext(c) \notin Range(changes)
          /\ contexts'[c] = contexts[c]
  /\ \A m \in DOMAIN memos' : \A c \in Range(memos'[m].parents) :
       \/ ParentAppended(m, c) \in Range(changes')
       \/ /\ m \in DOMAIN memos /\ ParentAppended(m, c) \notin Range(changes)
          /\ c \in Range(memos[m].parents)

\* What is logged, by its kind.
LEMMA LoggedByKind ==
  ASSUME Reported, ~Idle
  PROVE  /\ \A e \in DOMAIN expressions :
              NewExpression(e) \in Range(changes) <=> e >= published.expression
         /\ \A c \in DOMAIN contexts :
              NewContext(c) \in Range(changes) <=> c >= published.context
         /\ \A m \in DOMAIN memos : \A c \in Range(memos[m].parents) :
              ParentAppended(m, c) \in Range(changes) <=> m >= published.memo
<1>1. Range(changes) = GrownExpressions \cup GrownContexts \cup GrownParents \cup GrownChildren
  BY DEF Reported, ChangesComplete
<1>2. \A x \in GrownExpressions :
        x.change = "NewExpression" /\ x.expression >= published.expression
  BY DEF GrownExpressions, NewExpression
<1>3. \A x \in GrownContexts : x.change = "NewContext" /\ x.context >= published.context
  BY DEF GrownContexts, NewContext
<1>4. \A x \in GrownParents : x.change = "MemoParentAppended" /\ x.memo >= published.memo
  BY DEF GrownParents, ParentAppended
<1>5. \A x \in GrownChildren : x.change = "AlternativeChildAppended"
  BY DEF GrownChildren, ChildAppended
<1>6. ASSUME NEW e \in DOMAIN expressions
      PROVE  NewExpression(e) \in Range(changes) <=> e >= published.expression
  <2>1. e >= published.expression => NewExpression(e) \in GrownExpressions
    BY DEF GrownExpressions
  <2>2. NewExpression(e).change = "NewExpression" /\ NewExpression(e).expression = e
    BY DEF NewExpression
  <2> QED  BY <1>1, <1>2, <1>3, <1>4, <1>5, <2>1, <2>2
<1>7. ASSUME NEW c \in DOMAIN contexts
      PROVE  NewContext(c) \in Range(changes) <=> c >= published.context
  <2>1. c >= published.context => NewContext(c) \in GrownContexts
    BY DEF GrownContexts
  <2>2. NewContext(c).change = "NewContext" /\ NewContext(c).context = c
    BY DEF NewContext
  <2> QED  BY <1>1, <1>2, <1>3, <1>4, <1>5, <2>1, <2>2
<1>8. ASSUME NEW m \in DOMAIN memos, NEW c \in Range(memos[m].parents)
      PROVE  ParentAppended(m, c) \in Range(changes) <=> m >= published.memo
  <2>1. m >= published.memo => ParentAppended(m, c) \in GrownParents
    BY DEF GrownParents
  <2>2. ParentAppended(m, c).change = "MemoParentAppended" /\ ParentAppended(m, c).memo = m
    BY DEF ParentAppended
  <2> QED  BY <1>1, <1>2, <1>3, <1>4, <1>5, <2>1, <2>2
<1> QED  BY <1>6, <1>7, <1>8

LEMMA StepLogged ==
  ASSUME Reported, Step
  PROVE  GrowthLogged
<1>1. ~Idle /\ token' = token /\ published' = published /\ operations # <<>>
  <2>1. operations # <<>> /\ UNCHANGED frame
    BY DEF Step, DownShared, DownEntered, FreshTok, FreshEmptySeq, FreshSeq, FreshAlt,
           Up, UpTop, UpLast, UpNext, UpPacked, UpFirst, Rising, Popped
  <2>2. ~Idle
    BY <2>1 DEF Reported, Inductive, Stamped
  <2> QED  BY <2>1, <2>2 DEF frame
<1>2. Reported' /\ GraphGrows /\ KeepsPublished
  BY ReportedNext, GraphNext, PublishedKept DEF Next, Reported
<1>3. ~Idle'
  BY <1>1 DEF Idle
<1>4. /\ \A e \in DOMAIN expressions' :
           NewExpression(e) \in Range(changes') <=> e >= published.expression
      /\ \A c \in DOMAIN contexts' :
           NewContext(c) \in Range(changes') <=> c >= published.context
      /\ \A m \in DOMAIN memos' : \A c \in Range(memos'[m].parents) :
           ParentAppended(m, c) \in Range(changes') <=> m >= published.memo
  <2>1. Reported /\ ~Idle =>
          /\ \A e \in DOMAIN expressions :
               NewExpression(e) \in Range(changes) <=> e >= published.expression
          /\ \A c \in DOMAIN contexts :
               NewContext(c) \in Range(changes) <=> c >= published.context
          /\ \A m \in DOMAIN memos : \A c \in Range(memos[m].parents) :
               ParentAppended(m, c) \in Range(changes) <=> m >= published.memo
    BY LoggedByKind
  <2>2. (Reported /\ ~Idle =>
          /\ \A e \in DOMAIN expressions :
               NewExpression(e) \in Range(changes) <=> e >= published.expression
          /\ \A c \in DOMAIN contexts :
               NewContext(c) \in Range(changes) <=> c >= published.context
          /\ \A m \in DOMAIN memos : \A c \in Range(memos[m].parents) :
               ParentAppended(m, c) \in Range(changes) <=> m >= published.memo)'
    BY LoggedByKind, PTL
  <2> QED  BY <1>1, <1>2, <1>3, <2>2
<1>5. /\ DOMAIN expressions' \subseteq DOMAIN expressions \cup {next_expression}
      /\ next_expression >= published.expression
      /\ DOMAIN expressions' \subseteq Int /\ published.expression \in Int
  <2>1. DOMAIN expressions' = DOMAIN expressions
          \/ DOMAIN expressions' = DOMAIN expressions \cup {next_expression}
    BY DEF Step, DownShared, DownEntered, FreshTok, FreshEmptySeq, FreshSeq, FreshAlt,
           Up, UpTop, UpLast, UpNext, UpPacked, UpFirst, maps, InsertExpression, Insert
  <2>2. next_expression >= published.expression
    BY DEF Reported, Inductive, Stamped, TypeOK
  <2>3. DOMAIN expressions' \subseteq 0 .. (next_expression' - 1) /\ next_expression' \in Nat
    BY <1>2 DEF Reported, Inductive, TypeOK
  <2>4. published.expression \in Int
    BY DEF Reported, Inductive, TypeOK
  <2> QED  BY <2>1, <2>2, <2>3, <2>4
<1>6. ASSUME NEW e \in DOMAIN expressions', ~(e >= published.expression)
      PROVE  e \in DOMAIN expressions /\ expressions'[e].node = expressions[e].node
  <2>1. e \in DOMAIN expressions /\ e < published.expression
    BY <1>5, <1>6
  <2> QED  BY <1>2, <2>1 DEF KeepsPublished
<1>7. ASSUME NEW c \in DOMAIN contexts', ~(c >= published.context)
      PROVE  c \in DOMAIN contexts /\ contexts'[c] = contexts[c]
  <2>1. DOMAIN contexts = 0 .. (next_context - 1) /\ DOMAIN contexts' \subseteq Nat
        /\ published.context \in Nat /\ next_context \in Nat
        /\ published.context <= next_context
    BY <1>2 DEF Reported, Reporting, Inductive, TypeOK
  <2>2. c \in DOMAIN contexts
    BY <1>7, <2>1
  <2> QED  BY <1>2, <2>2 DEF GraphGrows
<1>8. ASSUME NEW m \in DOMAIN memos', ~(m >= published.memo)
      PROVE  m \in DOMAIN memos /\ memos'[m].parents = memos[m].parents
  <2>1. DOMAIN memos = 0 .. (next_memo - 1) /\ DOMAIN memos' \subseteq Nat
        /\ published.memo \in Nat /\ next_memo \in Nat
        /\ published.memo <= next_memo
    BY <1>2 DEF Reported, Inductive, Stamped, TypeOK
  <2>2. m \in DOMAIN memos /\ m < published.memo
    BY <1>8, <2>1
  <2> QED  BY <1>2, <2>2 DEF KeepsPublished
<1>9. /\ \A e \in DOMAIN expressions :
           NewExpression(e) \in Range(changes) <=> e >= published.expression
      /\ \A c \in DOMAIN contexts :
           NewContext(c) \in Range(changes) <=> c >= published.context
      /\ \A m \in DOMAIN memos : \A c \in Range(memos[m].parents) :
           ParentAppended(m, c) \in Range(changes) <=> m >= published.memo
  BY <1>1, LoggedByKind
<1> QED  BY <1>4, <1>6, <1>7, <1>8, <1>9 DEF GrowthLogged

----------------------------------------------------------------------------
(* The parse makes no sequence of its own but that of the bottom, and       *)
(* leaves: all others have as many children as the production.             *)

GivenSequence(s, size) ==
  s # Bottom =>
    \E e \in DOMAIN grammar.expressions :
      /\ grammar.expressions[e].tag = "Seq" /\ grammar.expressions[e].symbol = s
      /\ Len(grammar.expressions[e].children) = size
GivenNode(node) ==
  /\ node.tag = "Seq" =>
       \/ GivenSequence(node.symbol, Len(node.children))
       \/ node.symbol.tag = "Token" /\ node.children = <<>>
  /\ node.tag = "Tok" =>
       \E e \in DOMAIN grammar.expressions : grammar.expressions[e] = node
GivenContext(c) ==
  c.tag = "Seq" => GivenSequence(c.symbol, Len(c.left) + 1 + Len(c.right))

Given ==
  /\ \A e \in DOMAIN expressions : GivenNode(expressions[e].node)
  /\ \A c \in DOMAIN contexts : GivenContext(contexts[c])
  /\ \A i \in DOMAIN operations :
       operations[i].op \in {"DownFresh", "Up"} => GivenNode(operations[i].node)
  /\ \A z \in DOMAIN zippers : GivenNode(zippers[z].focus)
  /\ \A z \in DOMAIN next : GivenNode(next[z].focus)

\* The nodes that the parse makes.
LEMMA GivenMade ==
  /\ \A size : GivenSequence(Bottom, size)
  /\ \A t : GivenNode(Seqn(TokenSymbol(t), <<>>))
  /\ \A s, cs : GivenSequence(s, Len(cs)) => GivenNode(Seqn(s, cs))
  /\ \A cs : GivenNode(Alt(cs))
BY DEF GivenSequence, GivenNode, Bottom, TokenSymbol, Seqn, Alt

\* What a step has to show.
LEMMA GivenStep ==
  ASSUME Given, grammar' = grammar,
         \A e \in DOMAIN expressions' : GivenNode(expressions'[e].node),
         \A c \in DOMAIN contexts' : GivenContext(contexts'[c]),
         \A i \in DOMAIN operations' :
           operations'[i].op \in {"DownFresh", "Up"} => GivenNode(operations'[i].node),
         \A z \in DOMAIN zippers' : GivenNode(zippers'[z].focus),
         \A z \in DOMAIN next' : GivenNode(next'[z].focus)
  PROVE  Given'
BY DEF Given, GivenNode, GivenContext, GivenSequence

\* The work list after a pop and a push.
LEMMA WorkGiven ==
  ASSUME TypeOK, Given, operations # <<>>,
         NEW T, NEW ops \in Seq(T), Push(ops),
         \A k \in DOMAIN ops :
           ops[k].op \in {"DownFresh", "Up"} => GivenNode(ops[k].node)
  PROVE  \A i \in DOMAIN operations' :
           operations'[i].op \in {"DownFresh", "Up"} => GivenNode(operations'[i].node)
<1> TAKE i \in DOMAIN operations'
<1>1. DOMAIN ops = 1 .. Len(ops)
  BY LenProperties
<1>2. \/ i \in 1 .. Len(ops) /\ operations'[i] = ops[i]
      \/ \E j \in DOMAIN operations : j > 1 /\ operations'[i] = operations[j]
  BY PushEntries DEF TypeOK
<1> QED  BY <1>1, <1>2 DEF Given

\* The special cases: nothing is pushed,
LEMMA WorkGivenNone ==
  ASSUME TypeOK, Given, operations # <<>>, Push(<<>>)
  PROVE  \A i \in DOMAIN operations' :
           operations'[i].op \in {"DownFresh", "Up"} => GivenNode(operations'[i].node)
<1>1. <<>> \in Seq({}) /\ DOMAIN <<>> = {}
  OBVIOUS
<1> QED  BY <1>1, WorkGiven

\* or one item.
LEMMA WorkGivenOne ==
  ASSUME TypeOK, Given, operations # <<>>, NEW op, Push(<<op>>),
         op.op \in {"DownFresh", "Up"} => GivenNode(op.node)
  PROVE  \A i \in DOMAIN operations' :
           operations'[i].op \in {"DownFresh", "Up"} => GivenNode(operations'[i].node)
<1>1. <<op>> \in Seq({op}) /\ DOMAIN <<op>> = {1} /\ <<op>>[1] = op
  OBVIOUS
<1> HIDE DEF Push
<1> QED  BY <1>1, WorkGiven

\* What a running step leaves alone.
LEMMA GivenFrame ==
  ASSUME Given, UNCHANGED frame
  PROVE  grammar' = grammar /\ \A z \in DOMAIN zippers' : GivenNode(zippers'[z].focus)
BY DEF Given, frame

\* The steps that change no map and no output.
LEMMA QuietGiven ==
  ASSUME Given, UNCHANGED frame, UNCHANGED maps, next' = next,
         \A i \in DOMAIN operations' :
           operations'[i].op \in {"DownFresh", "Up"} => GivenNode(operations'[i].node)
  PROVE  Given'
<1>1. expressions' = expressions /\ contexts' = contexts
  BY DEF maps
<1> QED  BY <1>1, GivenFrame, GivenStep DEF Given

\* The steps that insert one context.
LEMMA ContextGiven ==
  ASSUME TypeOK, Given, UNCHANGED frame, expressions' = expressions, next' = next,
         NEW c, InsertContext(c), GivenContext(c),
         \A i \in DOMAIN operations' :
           operations'[i].op \in {"DownFresh", "Up"} => GivenNode(operations'[i].node)
  PROVE  Given'
<1>1. \A x \in DOMAIN contexts' :
        contexts'[x] = c \/ (x \in DOMAIN contexts /\ contexts'[x] = contexts[x])
  BY DEF InsertContext, Insert
<1>2. \A x \in DOMAIN contexts' : GivenContext(contexts'[x])
  BY <1>1 DEF Given
<1> QED  BY <1>2, GivenFrame, GivenStep DEF Given

\* `down`
LEMMA DownGiven ==
  ASSUME Reported, Given, DownShared \/ DownEntered
  PROVE  Given'
<1> DEFINE o == Head(operations)
<1> USE DEF Reported, Inductive
<1>1. CASE DownShared
  <2> DEFINE memo == expressions[o.expression].memo
  <2>1. /\ operations # <<>> /\ Push(Delivery(memo, o.context)) /\ UNCHANGED frame
        /\ expressions' = expressions /\ contexts' = contexts /\ next' = next
    BY <1>1 DEF DownShared, Popped
  <2>2. \A i \in DOMAIN operations' :
          operations'[i].op \in {"DownFresh", "Up"} => GivenNode(operations'[i].node)
    <3>1. CASE Push(<<>>)
      BY <2>1, <3>1, WorkGivenNone
    <3>2. CASE Push(<<UpContextOp(memos[memo].result, o.context)>>)
      <4>1. UpContextOp(memos[memo].result, o.context).op \notin {"DownFresh", "Up"}
        BY DEF UpContextOp
      <4> QED  BY <2>1, <3>2, <4>1, WorkGivenOne
    <3> QED  BY <2>1, <3>1, <3>2 DEF Delivery
  <2> QED  BY <2>1, <2>2, GivenFrame, GivenStep DEF Given
<1>2. CASE DownEntered
  <2> DEFINE op == FreshOp(next_memo, expressions[o.expression].node)
  <2>1. /\ operations # <<>> /\ Push(<<op>>) /\ UNCHANGED frame
        /\ contexts' = contexts /\ next' = next
        /\ expressions' = [expressions EXCEPT ![o.expression].memo = next_memo]
    BY <1>2 DEF DownEntered, Popped
  <2>2. /\ DOMAIN expressions' = DOMAIN expressions
        /\ \A e \in DOMAIN expressions : expressions'[e].node = expressions[e].node
    BY <2>1 DEF TypeOK, Expression
  <2>3. o.expression \in DOMAIN expressions
    <3>1. /\ o \in Operation(DOMAIN expressions, DOMAIN memos, DOMAIN contexts)
          /\ o.op = "Down"
      BY <1>2, PoppedType DEF DownEntered
    <3> QED  BY <3>1, OperationFields
  <2>4. GivenNode(op.node)
    BY <2>3 DEF FreshOp, Given
  <2> HIDE DEF op
  <2>5. \A i \in DOMAIN operations' :
          operations'[i].op \in {"DownFresh", "Up"} => GivenNode(operations'[i].node)
    BY <2>1, <2>4, WorkGivenOne
  <2>6. \A e \in DOMAIN expressions' : GivenNode(expressions'[e].node)
    BY <2>2 DEF Given
  <2> QED  BY <2>1, <2>5, <2>6, GivenFrame, GivenStep DEF Given
<1> QED  BY <1>1, <1>2

\* `down_fresh`
LEMMA FreshGiven ==
  ASSUME Reported, Given, FreshTok \/ FreshEmptySeq \/ FreshSeq \/ FreshAlt
  PROVE  Given'
<1> DEFINE o == Head(operations)
<1> USE DEF Reported, Inductive
<1>1. CASE FreshTok
  <2> DEFINE zipper == [focus |-> Seqn(TokenSymbol(token), <<>>), memo |-> o.memo]
  <2>1. /\ operations # <<>> /\ Push(<<>>) /\ UNCHANGED frame /\ UNCHANGED maps
        /\ next' = next \/ next' = Append(next, zipper)
    BY <1>1 DEF FreshTok, Popped
  <2>2. GivenNode(zipper.focus)
    BY GivenMade
  <2> HIDE DEF zipper
  <2>3. ASSUME NEW z \in DOMAIN next'
        PROVE  (z \in DOMAIN next /\ next'[z] = next[z]) \/ next'[z] = zipper
    <3>1. next \in Seq(Zipper(DOMAIN expressions, DOMAIN memos))
      BY DEF TypeOK
    <3>2. CASE next' = next
      BY <3>2
    <3>3. CASE next' = Append(next, zipper)
      BY <3>1, <3>3, AppendEntries
    <3> QED  BY <2>1, <3>2, <3>3
  <2>4. \A z \in DOMAIN next' : GivenNode(next'[z].focus)
    BY <2>2, <2>3 DEF Given
  <2>5. \A i \in DOMAIN operations' :
          operations'[i].op \in {"DownFresh", "Up"} => GivenNode(operations'[i].node)
    BY <2>1, WorkGivenNone
  <2>6. expressions' = expressions /\ contexts' = contexts
    BY <2>1 DEF maps
  <2> QED  BY <2>1, <2>4, <2>5, <2>6, GivenFrame, GivenStep DEF Given
<1>2. CASE FreshEmptySeq
  <2> DEFINE op == UpOp(o.node, o.memo)
  <2>1. /\ operations # <<>> /\ Push(<<op>>) /\ UNCHANGED frame /\ UNCHANGED maps
        /\ next' = next /\ o.op = "DownFresh"
    BY <1>2 DEF FreshEmptySeq, Popped
  <2>2. o = operations[1] /\ 1 \in DOMAIN operations
    BY <2>1 DEF TypeOK
  <2>3. GivenNode(op.node)
    BY <2>1, <2>2 DEF UpOp, Given
  <2> HIDE DEF op
  <2>4. \A i \in DOMAIN operations' :
          operations'[i].op \in {"DownFresh", "Up"} => GivenNode(operations'[i].node)
    BY <2>1, <2>3, WorkGivenOne
  <2> QED  BY <2>1, <2>4, QuietGiven
<1>3. CASE FreshSeq
  <2> DEFINE op == DownOp(next_context + 1, Head(o.node.children))
             above == AltContext(o.memo)
             below == SeqContext(next_memo, o.node.symbol, <<>>, Tail(o.node.children))
  <2>1. /\ operations # <<>> /\ Push(<<op>>) /\ UNCHANGED frame
        /\ expressions' = expressions /\ next' = next
        /\ o.op = "DownFresh" /\ o.node.tag = "Seq" /\ o.node.children # <<>>
        /\ contexts' = Insert(Insert(contexts, next_context, above),
                              next_context + 1, below)
    BY <1>3 DEF FreshSeq, Popped
  <2>2. o = operations[1] /\ 1 \in DOMAIN operations
    BY <2>1 DEF TypeOK
  <2>3. GivenSequence(o.node.symbol, Len(o.node.children))
    BY <2>1, <2>2 DEF Given, GivenNode
  <2>4. /\ above.tag # "Seq" /\ op.op = "Down" /\ below.symbol = o.node.symbol
        /\ below.left = <<>> /\ below.right = Tail(o.node.children)
    BY DEF AltContext, SeqContext, DownOp
  <2> HIDE DEF op, above, below
  <2>5. Len(<<>>) + 1 + Len(Tail(o.node.children)) = Len(o.node.children)
    <3>1. o.node.children \in Seq(DOMAIN expressions)
      <4>1. Popped("DownFresh")
        BY <2>1 DEF Popped
      <4>2. o \in Operation(DOMAIN expressions, DOMAIN memos, DOMAIN contexts)
        BY <4>1, PoppedType
      <4>3. o.node \in Node(DOMAIN expressions)
        BY <2>1, <4>2, OperationFields
      <4> QED  BY <2>1, <4>3, NodeFields
    <3>2. /\ Len(Tail(o.node.children)) = Len(o.node.children) - 1
          /\ Len(o.node.children) \in Nat
      BY <2>1, <3>1, HeadTailProperties
    <3> QED  BY <3>2
  <2>6. GivenContext(above) /\ GivenContext(below)
    BY <2>3, <2>4, <2>5 DEF GivenContext
  <2>7. \A c \in DOMAIN contexts' : GivenContext(contexts'[c])
    BY <2>1, <2>6 DEF Given, Insert
  <2>8. \A i \in DOMAIN operations' :
          operations'[i].op \in {"DownFresh", "Up"} => GivenNode(operations'[i].node)
    BY <2>1, <2>4, WorkGivenOne
  <2> QED  BY <2>1, <2>7, <2>8, GivenFrame, GivenStep DEF Given
<1>4. CASE FreshAlt
  <2> DEFINE children == o.node.children
             entered == {i \in DOMAIN children : Selected(children[i])}
             ops(kept) == [i \in 1 .. Cardinality(entered) |->
                             DownOp(next_context, children[kept[i]])]
  <2>1. /\ operations # <<>> /\ children \in Seq(DOMAIN expressions)
        /\ UNCHANGED frame /\ expressions' = expressions /\ next' = next
        /\ InsertContext(AltContext(o.memo))
    BY <1>4, PoppedType, OperationFields, NodeFields DEF FreshAlt
  <2>2. \A i \in DOMAIN operations' :
          operations'[i].op \in {"DownFresh", "Up"} => GivenNode(operations'[i].node)
    <3>1. PICK kept \in [1 .. Cardinality(entered) -> entered] : Push(ops(kept))
      BY <1>4 DEF FreshAlt
    <3>2. Cardinality(entered) \in Nat
      <4>1. DOMAIN children = 1 .. Len(children) /\ Len(children) \in Nat
        BY <2>1, LenProperties
      <4>2. IsFiniteSet(DOMAIN children)
        BY <4>1, FS_Interval
      <4> QED  BY <4>2, FS_Subset, FS_CardinalityType
    <3>3. ops(kept) \in Seq({ops(kept)[i] : i \in 1 .. Cardinality(entered)})
      BY <3>2, FunctionSeq
    <3>4. \A k \in DOMAIN ops(kept) : ops(kept)[k].op = "Down"
      BY DEF DownOp
    <3> HIDE DEF ops
    <3> QED  BY <2>1, <3>1, <3>3, <3>4, WorkGiven
  <2>3. GivenContext(AltContext(o.memo))
    BY DEF GivenContext, AltContext
  <2> QED  BY <2>1, <2>2, <2>3, ContextGiven
<1> QED  BY <1>1, <1>2, <1>3, <1>4

\* `up` and `up_context`
LEMMA UpGiven ==
  ASSUME Reported, Given, Up \/ UpTop \/ UpLast \/ UpNext \/ UpPacked \/ UpFirst
  PROVE  Given'
<1> DEFINE o == Head(operations)
           context == contexts[o.context]
<1> USE DEF Reported, Inductive
<1>1. CASE Up
  <2> DEFINE parents == memos[o.memo].parents
             ops == [i \in 1 .. Len(parents) |->
                       UpContextOp(next_expression, parents[i])]
  <2>1. /\ operations # <<>> /\ Push(ops) /\ UNCHANGED frame
        /\ contexts' = contexts /\ next' = next /\ o.op = "Up"
        /\ DOMAIN expressions' = DOMAIN expressions \cup {next_expression}
    BY <1>1 DEF Up, Popped, InsertExpression, Insert
  <2>2. /\ expressions'[next_expression].node = o.node
        /\ \A e \in DOMAIN expressions : expressions'[e] = expressions[e]
    BY <1>1, UpEffect
  <2>3. o = operations[1] /\ 1 \in DOMAIN operations
    BY <2>1 DEF TypeOK
  <2>4. GivenNode(o.node)
    BY <2>1, <2>3 DEF Given
  <2>5. \A e \in DOMAIN expressions' : GivenNode(expressions'[e].node)
    BY <2>1, <2>2, <2>4 DEF Given
  <2>6. \A i \in DOMAIN operations' :
          operations'[i].op \in {"DownFresh", "Up"} => GivenNode(operations'[i].node)
    <3>1. Len(parents) \in Nat
      BY <1>1, UpEffect, LenProperties DEF TypeOK, Memo
    <3>2. ops \in Seq({ops[i] : i \in 1 .. Len(parents)})
      BY <3>1, FunctionSeq
    <3>3. \A k \in DOMAIN ops : ops[k].op = "UpContext"
      BY DEF UpContextOp
    <3> HIDE DEF ops
    <3> QED  BY <2>1, <3>2, <3>3, WorkGiven
  <2> QED  BY <2>1, <2>5, <2>6, GivenFrame, GivenStep DEF Given
<1>2. CASE UpTop
  <2>1. /\ operations # <<>> /\ Push(<<>>) /\ UNCHANGED frame /\ UNCHANGED maps
        /\ next' = next
    BY <1>2 DEF UpTop, Rising, Popped
  <2> QED  BY <2>1, WorkGivenNone, QuietGiven
<1>3. CASE UpLast
  <2> DEFINE op == UpOp(Seqn(context.symbol, Append(context.left, o.expression)),
                        context.memo)
  <2>1. /\ operations # <<>> /\ Push(<<op>>) /\ UNCHANGED frame /\ UNCHANGED maps
        /\ next' = next /\ Rising("Seq")
    BY <1>3 DEF UpLast, Rising, Popped
  <2>2. /\ GivenSequence(context.symbol, Len(context.left) + 1 + Len(context.right))
        /\ context.left \in Seq(DOMAIN expressions) /\ context.right = <<>>
    BY <1>3, <2>1, RisingType, ContextFields DEF Given, GivenContext, UpLast, Rising
  <2>3. Len(context.left) + 1 + Len(context.right) = Len(Append(context.left, o.expression))
    BY <2>2
  <2>4. GivenNode(op.node)
    BY <2>2, <2>3, GivenMade DEF UpOp
  <2> HIDE DEF op
  <2> QED  BY <2>1, <2>4, WorkGivenOne, QuietGiven
<1>4. CASE UpNext
  <2> DEFINE op == DownOp(next_context, Head(context.right))
             moved == SeqContext(context.memo, context.symbol,
                                 Append(context.left, o.expression),
                                 Tail(context.right))
  <2>1. /\ operations # <<>> /\ UNCHANGED frame /\ expressions' = expressions
        /\ next' = next /\ InsertContext(moved) /\ Push(<<op>>) /\ Rising("Seq")
    BY <1>4 DEF UpNext, Rising, Popped
  <2>2. /\ GivenSequence(context.symbol, Len(context.left) + 1 + Len(context.right))
        /\ context.left \in Seq(DOMAIN expressions)
        /\ context.right \in Seq(DOMAIN expressions) /\ context.right # <<>>
    BY <1>4, <2>1, RisingType, ContextFields DEF Given, GivenContext, UpNext, Rising
  <2>3. Len(context.left) + 1 + Len(context.right)
          = Len(Append(context.left, o.expression)) + 1 + Len(Tail(context.right))
    <3>1. /\ Len(Tail(context.right)) = Len(context.right) - 1
          /\ Len(context.right) \in Nat
      BY <2>2, HeadTailProperties
    <3>2. /\ Len(Append(context.left, o.expression)) = Len(context.left) + 1
          /\ Len(context.left) \in Nat
      BY <2>2
    <3>3. \A l, r \in Nat : l + 1 + r = (l + 1) + 1 + (r - 1)
      OBVIOUS
    <3> QED  BY <3>1, <3>2, <3>3
  <2>4. GivenContext(moved) /\ op.op = "Down"
    BY <2>2, <2>3 DEF GivenContext, SeqContext, DownOp
  <2> HIDE DEF op, moved
  <2> QED  BY <2>1, <2>4, WorkGivenOne, ContextGiven
<1>5. CASE UpPacked
  <2>1. /\ operations # <<>> /\ Push(<<>>) /\ UNCHANGED frame
        /\ contexts' = contexts /\ next' = next
    BY <1>5 DEF UpPacked, Rising, Popped
  <2>2. DOMAIN expressions' = DOMAIN expressions
    BY <1>5 DEF UpPacked
  <2>3. GraphGrows
    BY <1>5, UpPackedGrows
  <2>4. \A e \in DOMAIN expressions' : GivenNode(expressions'[e].node)
    BY <2>2, <2>3 DEF GraphGrows, Extends, Given, GivenNode
  <2> QED  BY <2>1, <2>4, WorkGivenNone, GivenFrame, GivenStep DEF Given
<1>6. CASE UpFirst
  <2> DEFINE op == UpOp(Alt(<<o.expression>>), context.memo)
  <2>1. /\ operations # <<>> /\ Push(<<op>>) /\ UNCHANGED frame /\ UNCHANGED maps
        /\ next' = next
    BY <1>6 DEF UpFirst, Rising, Popped
  <2>2. GivenNode(op.node)
    BY GivenMade DEF UpOp
  <2> HIDE DEF op
  <2> QED  BY <2>1, <2>2, WorkGivenOne, QuietGiven
<1> QED  BY <1>1, <1>2, <1>3, <1>4, <1>5, <1>6

\* Between two derivatives the output zippers become the input of the next.
LEMMA TurnGiven ==
  ASSUME Reported, Given, EndDerive \/ \E t \in Tokens : Derive(t)
  PROVE  Given'
<1> USE DEF Reported, Inductive
<1>1. grammar' = grammar /\ UNCHANGED maps
  BY DEF EndDerive, Derive, frame
<1>2. expressions' = expressions /\ contexts' = contexts
  BY <1>1 DEF maps
<1>3. CASE EndDerive
  <2>1. zippers' = next /\ next' = <<>> /\ operations' = <<>> /\ operations = <<>>
    BY <1>3 DEF EndDerive
  <2> QED  BY <1>1, <1>2, <2>1, GivenStep DEF Given
<1>4. ASSUME NEW t \in Tokens, Derive(t) PROVE Given'
  <2>1. /\ zippers' = <<>> /\ next' = <<>>
        /\ operations' = [i \in 1 .. Len(zippers) |->
                            UpOp(zippers[i].focus, zippers[i].memo)]
    BY <1>4 DEF Derive
  <2>2. DOMAIN zippers = 1 .. Len(zippers)
    BY LenProperties DEF TypeOK
  <2>3. \A i \in DOMAIN operations' : GivenNode(operations'[i].node)
    BY <2>1, <2>2 DEF Given, UpOp
  <2> QED  BY <1>1, <1>2, <2>1, <2>3, GivenStep DEF Given
<1> QED  BY <1>3, <1>4

\* The initial symbols are those of the grammar.
LEMMA GivenInit == Init => Given
<1> SUFFICES ASSUME Init PROVE Given  OBVIOUS
<1>1. \A e \in DOMAIN expressions : GivenNode(expressions[e].node)
  BY DEF Init, GivenNode, GivenSequence
<1>2. /\ \A c \in DOMAIN contexts :
           contexts[c].tag = "Seq" => contexts[c].symbol = Bottom
      /\ \A z \in DOMAIN zippers : zippers[z].focus = Seqn(Bottom, <<>>)
      /\ operations = <<>> /\ next = <<>>
  BY DEF Init, InitialZippers, TopContext, SeqContext
<1>3. \A c \in DOMAIN contexts : GivenContext(contexts[c])
  <2> SUFFICES ASSUME NEW c \in DOMAIN contexts, contexts[c].tag = "Seq",
                      NEW size
               PROVE  GivenSequence(contexts[c].symbol, size)
    BY DEF GivenContext
  <2> QED  BY <1>2, GivenMade
<1> QED  BY <1>1, <1>2, <1>3, GivenMade DEF Given

\* Every step of the parse hands symbols on.
LEMMA GivenNext == Reported /\ Given /\ [Next]_vars => Given'
<1> SUFFICES ASSUME Reported, Given, [Next]_vars PROVE Given'  OBVIOUS
<1>1. CASE UNCHANGED vars
  BY <1>1 DEF vars, frame, maps, Given, GivenNode, GivenContext, GivenSequence
<1> QED  BY <1>1, DownGiven, FreshGiven, UpGiven, TurnGiven DEF Next, Step
============================================================================
