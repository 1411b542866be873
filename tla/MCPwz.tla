------------------------------- MODULE MCPwz -------------------------------
(***************************************************************************)
(* Pwz on small grammars, compiled by PwzGrammar with and without SELECT   *)
(* sets, against PwzReference.                                             *)
(***************************************************************************)
EXTENDS Pwz, PwzReference

CONSTANTS Shapes,    \* names of the grammars below
          Pruning    \* whether they keep their SELECT sets

Cfg(n, t, productions) ==
  [nonterminals |-> n, terminals |-> t, start |-> 0,
   productions |-> productions, lexemes |-> 0 .. (t - 1)]

Rule(lhs, rhs) == [lhs |-> lhs, rhs |-> rhs]

Catalogue ==
  [ sequence |->   \* S ::= a b a
      Cfg(1, 2, <<Rule(0, <<T(0), T(1), T(0)>>)>>),
    shared |->     \* S ::= A b | A a    A ::= a: one memo, two consumers
      Cfg(2, 2, <<Rule(0, <<N(1), T(1)>>), Rule(0, <<N(1), T(0)>>),
                  Rule(1, <<T(0)>>)>>),
    left |->       \* S ::= S a | b
      Cfg(1, 2, <<Rule(0, <<N(0), T(0)>>), Rule(0, <<T(1)>>)>>),
    right |->      \* S ::= a S | b
      Cfg(1, 2, <<Rule(0, <<T(0), N(0)>>), Rule(0, <<T(1)>>)>>),
    ambiguous |->  \* S ::= S S | a | b
      Cfg(1, 2, <<Rule(0, <<N(0), N(0)>>), Rule(0, <<T(0)>>),
                  Rule(0, <<T(1)>>)>>),
    nullable |->   \* S ::= A B a    A ::= a | empty    B ::= A b | empty
      Cfg(3, 2, <<Rule(0, <<N(1), N(2), T(0)>>), Rule(1, <<T(0)>>),
                  Rule(1, <<>>), Rule(2, <<N(1), T(1)>>), Rule(2, <<>>)>>),
    cyclic |->     \* S ::= A b    A ::= A | a | A A
      Cfg(2, 2, <<Rule(0, <<N(1), T(1)>>), Rule(1, <<N(1)>>),
                  Rule(1, <<T(0)>>), Rule(1, <<N(1), N(1)>>)>>),
    vanishing |->  \* S ::= A S a | b    A ::= B A | empty    B ::= A | a
      Cfg(3, 2, <<Rule(0, <<N(1), N(0), T(0)>>), Rule(0, <<T(1)>>),
                  Rule(1, <<N(2), N(1)>>), Rule(1, <<>>), Rule(2, <<N(1)>>),
                  Rule(2, <<T(0)>>)>>),
    dead |->       \* S ::= a A | b B    A ::= A a    B ::= b | a
      Cfg(3, 2, <<Rule(0, <<T(0), N(1)>>), Rule(0, <<T(1), N(2)>>),
                  Rule(1, <<N(1), T(0)>>), Rule(2, <<T(1)>>),
                  Rule(2, <<T(0)>>)>>),
    void |->       \* S ::= a S: no sentence at all
      Cfg(1, 2, <<Rule(0, <<T(0), N(0)>>)>>),
    unspelled |->  \* S ::= A b | a A    A ::= b | a: no lexeme spells b
      [Cfg(2, 2, <<Rule(0, <<N(1), T(1)>>), Rule(0, <<T(0), N(1)>>),
                   Rule(1, <<T(1)>>), Rule(1, <<T(0)>>)>>)
         EXCEPT !.lexemes = {0}] ]

\* The grammar carries its source, for the reference to read.
Compiled(c, prune) ==
  LET g == Compile(c)
  IN [root |-> g.root, expressions |-> g.expressions, source |-> c,
      select |-> IF prune THEN g.select ELSE <<>>]

MCGrammars == {Compiled(Catalogue[shape], prune) : shape \in Shapes, prune \in Pruning}

\* The asserts of `new` hold of every compiled grammar.
ASSUME CompiledWellFormed == \A g \in Grammars : WellFormed(g)

\* So does what ChangesOnce is proved from.
ASSUME CompiledDistinct == DistinctAlternatives

MCTokens == [terminal : 0 .. 1, payload : {{}}]

----------------------------------------------------------------------------
(* The parse forest held by the maps.                                      *)

RECURSIVE FixedTrees(_, _), FixedForest(_, _)

\* The trees of a fixed expression, at most d sequences deep.
FixedTrees(e, d) ==
  LET node == expressions[e].node IN
  IF node.tag = "Alt"
    THEN UNION {FixedTrees(node.children[k], d) : k \in DOMAIN node.children}
  ELSE IF node.symbol.tag = "Token" THEN {Leaf(node.symbol.token)}
  ELSE IF d = 0 THEN {}
  ELSE {<<node.symbol, ts>> : ts \in FixedForest(node.children, d - 1)}

FixedForest(es, d) ==
  IF es = <<>> THEN {<<>>}
  ELSE {<<t>> \o ts : t \in FixedTrees(Head(es), d),
                      ts \in FixedForest(Tail(es), d)}

RECURSIVE Climb(_, _, _)

\* The open sequences above a memo, from the outside in.
Climb(m, d, depth) ==
  UNION {LET context == contexts[memos[m].parents[k]] IN
         CASE context.tag = "Alt" -> Climb(context.memo, d, depth)
           [] context.tag = "Seq" /\ context.symbol = Bottom -> {<<>>}
           [] context.tag = "Seq" /\ d > 0 ->
                {s \o <<[symbol |-> context.symbol, left |-> ts,
                         right |-> Len(context.right)]>> :
                 s \in Climb(context.memo, d - 1, depth),
                 ts \in FixedForest(context.left, depth)}
           [] OTHER -> {} :
         k \in DOMAIN memos[m].parents}

SpineDepth == 4   \* bound: nesting of open sequences compared
TreeDepth == 3    \* bound: nesting inside a finished child compared

\* Between two derivatives the zippers hold every way to read the consumed
\* prefix and no other: climbing from them through memos and contexts gives the
\* open sequences, with the packed trees of their finished children, that the
\* reference finds by splitting the prefix.
LivePrefixForest ==
  Idle /\ input # <<>> =>
    UNION {Climb(zippers[z].memo, SpineDepth, TreeDepth) : z \in DOMAIN zippers}
      = Spines(grammar.source, input, N(grammar.source.start), 0,
               SpineDepth, TreeDepth)
=============================================================================
