----------------------------- MODULE MCLinking -----------------------------
(***************************************************************************)
(* Linking on small grammars with actions and small e-graphs, against      *)
(* RealizabilityReference.                                                 *)
(***************************************************************************)
EXTENDS Linking, RealizabilityReference, TLC

CONSTANT Shapes     \* names of the grammars below

Lexeme(k) == [sort |-> 0, class |-> k]
Class(k) == [sort |-> 1, class |-> k]

Cfg(n, productions) ==
  [nonterminals |-> n, terminals |-> 2, start |-> 0, lexemes |-> 0 .. 1,
   productions |-> productions]

Rule(lhs, rhs) == [lhs |-> lhs, rhs |-> rhs]

Construct(constructor, positions) ==
  [constructor |-> constructor, positions |-> positions]
Project(k) == [constructor |-> None, positions |-> <<k>>]

\* Terminal 0 has the values of lexemes, terminal 1 is mere syntax.
Schema(actions, constructors) ==
  [actions |-> actions, constructors |-> constructors,
   lexemes |-> (0 :> {Lexeme(1), Lexeme(2)} @@ 1 :> {})]

Leaves == [inputs |-> <<0>>, output |-> 1]
Pairs == [inputs |-> <<1, 1>>, output |-> 1]
Units == [inputs |-> <<>>, output |-> 1]
Wraps == [inputs |-> <<1>>, output |-> 1]

Entry(constructor, children, k) ==
  [constructor |-> constructor, children |-> children, output |-> Class(k)]
EGraphOf(rows, size, target) ==
  [rows |-> rows, find |-> [v \in {Class(k) : k \in 1 .. size} |-> v],
   target |-> Class(target)]

Catalogue ==
  [ sum |->          \* E ::= E b a {Add(1,3)} | a {Num(1)}
      [source |-> Cfg(1, <<Rule(0, <<N(0), T(1), T(0)>>), Rule(0, <<T(0)>>)>>),
       schema |-> Schema(<<Construct(0, <<1, 3>>), Construct(1, <<1>>)>>,
                         (0 :> [inputs |-> <<1, 0>>, output |-> 1] @@ 1 :> Leaves)),
       egraphs |-> {EGraphOf({Entry(1, <<Lexeme(1)>>, 1),
                              Entry(0, <<Class(1), Lexeme(2)>>, 2)}, 2, 2)}],
    pair |->         \* S ::= S S {Pair(1,2)} | a {Num(1)} | b S {2}
      [source |-> Cfg(1, <<Rule(0, <<N(0), N(0)>>), Rule(0, <<T(0)>>),
                           Rule(0, <<T(1), N(0)>>)>>),
       schema |-> Schema(<<Construct(0, <<1, 2>>), Construct(1, <<1>>), Project(2)>>,
                         (0 :> Pairs @@ 1 :> Leaves)),
       egraphs |-> {EGraphOf({Entry(1, <<Lexeme(1)>>, 1),
                              Entry(1, <<Lexeme(2)>>, 2),
                              Entry(0, <<Class(1), Class(2)>>, 3)}, 3, 3)}],
    ignored |->      \* S ::= A b {Good()} | b A {2} | A {1}    A ::= a a {Num(2)}
      [source |-> Cfg(2, <<Rule(0, <<N(1), T(1)>>), Rule(0, <<T(1), N(1)>>),
                           Rule(0, <<N(1)>>), Rule(1, <<T(0), T(0)>>)>>),
       schema |-> Schema(<<Construct(0, <<>>), Project(2), Project(1),
                           Construct(1, <<2>>)>>,
                         (0 :> Units @@ 1 :> Leaves)),
       egraphs |-> {EGraphOf({Entry(0, <<>>, 1)}, 1, 1),
                    EGraphOf({Entry(1, <<Lexeme(1)>>, 1)}, 1, 1)}],
    cyclic |->       \* S ::= S {1} | a {Num(1)} | S b {Inc(1)}
      [source |-> Cfg(1, <<Rule(0, <<N(0)>>), Rule(0, <<T(0)>>),
                           Rule(0, <<N(0), T(1)>>)>>),
       schema |-> Schema(<<Project(1), Construct(1, <<1>>), Construct(0, <<1>>)>>,
                         (0 :> Wraps @@ 1 :> Leaves)),
       egraphs |-> {EGraphOf({Entry(1, <<Lexeme(1)>>, 1), Entry(0, <<Class(1)>>, 1)},
                             1, 1)}],
    nullable |->     \* S ::= A A b {Wrap(2)}    A ::= empty {Unit()} | a {Num(1)}
      [source |-> Cfg(2, <<Rule(0, <<N(1), N(1), T(1)>>), Rule(1, <<>>),
                           Rule(1, <<T(0)>>)>>),
       schema |-> Schema(<<Construct(0, <<2>>), Construct(1, <<>>),
                           Construct(2, <<1>>)>>,
                         (0 :> Wraps @@ 1 :> Units @@ 2 :> Leaves)),
       egraphs |-> {EGraphOf({Entry(1, <<>>, 1), Entry(0, <<Class(1)>>, 2)},
                             2, 2)}] ]

Compiled(entry) ==
  LET g == Compile(entry.source)
  IN [root |-> g.root, expressions |-> g.expressions, select |-> g.select,
      source |-> entry.source, schema |-> entry.schema, egraphs |-> entry.egraphs]

MCGrammars == {Compiled(Catalogue[shape]) : shape \in Shapes}

MCTokens == {[terminal |-> 0, payload |-> {Lexeme(1)}],
             [terminal |-> 0, payload |-> {Lexeme(2)}],
             [terminal |-> 1, payload |-> {}]}

----------------------------------------------------------------------------
Possible == Witness(grammar.source, schema, egraph, input)

\* A witness is never claimed falsely, though the index may yet have to hear of
\* rows and merged classes.  Facts are never withdrawn, so what is claimed while
\* they are half closed is still claimed when the agenda is empty.
WitnessReal == agenda = <<>> /\ Index!IsRealizable => Possible

\* Once told of everything and closed, the index finds every witness there is:
\* its facts, gathered piecemeal from two logs in whatever order, decide
\* whether some completion of the prefix has the target as its value.
WitnessFound == Ready /\ delta = {} /\ Possible => Index!IsRealizable
=============================================================================
