------------------------------ MODULE MCMonitor ------------------------------
(***************************************************************************)
(* Monitor on small grammars and egglog programs, for TLC.                 *)
(***************************************************************************)
EXTENDS Monitor, RealizabilityReference

CONSTANT Shapes     \* names of the sessions below

Lexeme(k) == [sort |-> 0, class |-> k]
Class(k) == [sort |-> 1, class |-> k]

Cfg(n, terminals, productions) ==
  [nonterminals |-> n, terminals |-> terminals, start |-> 0,
   lexemes |-> 0 .. terminals - 1, productions |-> productions]

Rule(lhs, rhs) == [lhs |-> lhs, rhs |-> rhs]

Construct(constructor, positions) ==
  [constructor |-> constructor, positions |-> positions]
Project(k) == [constructor |-> None, positions |-> <<k>>]

\* The constructors of all sessions: `inputs` of sort Ast (1) or String (0).
Good == 0
Bad == 1
Wrap == 2
Num == 3
Add == 4
Error == 5
Other == 6
Functions == (Good :> <<>> @@ Bad :> <<>> @@ Wrap :> <<1>> @@ Num :> <<0>>
                @@ Add :> <<1, 1>> @@ Error :> <<>> @@ Other :> <<>>)
Signatures(names) == [f \in names |-> [inputs |-> Functions[f], output |-> 1]]

\* Terminal 0 is spelled "x" or "y", every other is mere syntax.
Schema(terminals, actions) ==
  [actions |-> actions,
   constructors |-> Signatures({a.constructor : a \in Range(actions)} \ {None}),
   functions |-> Signatures(DOMAIN Functions),
   lexemes |-> [t \in 0 .. terminals - 1 |-> IF t = 0 THEN {Lexeme(1), Lexeme(2)} ELSE {}]]

Entry(constructor, children, k) ==
  [constructor |-> constructor, children |-> children, output |-> Class(k)]
EGraphOf(rows, size, target) ==
  [rows |-> rows, find |-> [v \in {Class(k) : k \in 1 .. size} |-> v],
   target |-> Class(target)]

Nullary(f, variable) == Egglog!Atom(f, <<>>, variable)
\* (rewrite lhs rhs), each side a sequence of atoms
Rewriting(lhs, rhs, literals) ==
  Egglog!Rewrite([lhs |-> lhs, rhs |-> rhs, result |-> Head(rhs).output,
                  conditions |-> {}, literals |-> literals])
\* (union (f) (g))
Joining(f, g) == Egglog!Act(<<Nullary(f, "f"), Nullary(g, "g")>>, {<<"f", "g">>}, <<>>)

Session(source, actions, initial, commands, calls, length) ==
  [source |-> source, schema |-> Schema(source.terminals, actions), egraphs |-> {initial},
   program |-> commands, updates |-> calls, length |-> length]

\* Add(Num(l), Num(l)) is made equal to f.
Twice(lexeme, f) == Egglog!Act(<<Egglog!Atom(Num, <<"l">>, "x"), Egglog!Atom(Add, <<"x", "x">>, "a"),
                          Nullary(f, "f")>>, {<<"a", "f">>}, ("l" :> lexeme))

\* Num("x"), wrapped up to k times.
Wraps(k) ==
  SubSeq(<<Egglog!Atom(Num, <<"l">>, "n"), Egglog!Atom(Wrap, <<"n">>, "w"),
           Egglog!Atom(Wrap, <<"w">>, "v"), Egglog!Atom(Wrap, <<"v">>, "u"),
           Egglog!Atom(Wrap, <<"u">>, "t")>>, 1, k + 1)
Apart(u, v) == Egglog!Atom(Egglog!Disjoint, <<u, v>>, "disjoint")

Catalogue ==
  [ wrap |->         \* S ::= A b {Wrap(1)}    A ::= a {Bad()}
      Session(Cfg(2, 2, <<Rule(0, <<N(1), T(1)>>), Rule(1, <<T(0)>>)>>),
              <<Construct(Wrap, <<1>>), Construct(Bad, <<>>)>>,
              EGraphOf({Entry(Good, <<>>, 1)}, 1, 1),
              <<Rewriting(<<Egglog!Atom(Wrap, <<"b">>, "w"), Nullary(Bad, "b")>>,
                          <<Nullary(Good, "g")>>, <<>>)>>,
              {<<Joining(Bad, Other)>>, <<Egglog!Failing, Joining(Bad, Good)>>,
               <<Rewriting(<<Nullary(Bad, "b")>>, <<Nullary(Other, "o")>>, <<>>)>>}, 2),
    late |->         \* S ::= b A {Wrap(2)}    A ::= a {Bad()}
      Session(Cfg(2, 2, <<Rule(0, <<T(1), N(1)>>), Rule(1, <<T(0)>>)>>),
              <<Construct(Wrap, <<2>>), Construct(Bad, <<>>)>>,
              EGraphOf({Entry(Good, <<>>, 1)}, 1, 1),
              <<Rewriting(<<Nullary(Good, "g")>>,
                          <<Egglog!Atom(Wrap, <<"o">>, "w"), Nullary(Other, "o")>>, <<>>)>>,
              {<<Joining(Bad, Other)>>, <<Joining(Bad, Other), Egglog!Failing>>}, 3),
    branches |->     \* S ::= A B {Add(1,2)}   A ::= a {Bad()}   B ::= b {Good()} | a {Num(1)}
      Session(Cfg(3, 2, <<Rule(0, <<N(1), N(2)>>), Rule(1, <<T(0)>>),
                          Rule(2, <<T(1)>>), Rule(2, <<T(0)>>)>>),
              <<Construct(Add, <<1, 2>>), Construct(Bad, <<>>), Construct(Good, <<>>),
                Construct(Num, <<1>>)>>,
              [EGraphOf({Entry(Bad, <<>>, 1), Entry(Good, <<>>, 2),
                         Entry(Add, <<Class(1), Class(2)>>, 3), Entry(Error, <<>>, 4)}, 4, 4)
                 EXCEPT !.rows = @ \cup {Egglog!DisjointRow(Class(3), Class(4))}],
              <<>>,
              {<<Egglog!Act(<<Nullary(Bad, "b"), Egglog!Atom(Num, <<"l">>, "n"),
                              Egglog!Atom(Add, <<"b", "n">>, "a"), Nullary(Error, "e")>>,
                            {<<"a", "e">>}, ("l" :> Lexeme(1)))>>}, 3),
    ambiguous |->    \* S ::= A B {Add(1,2)}   A ::= a {Bad()} | a {Other()}   B ::= b {Good()}
      Session(Cfg(3, 2, <<Rule(0, <<N(1), N(2)>>), Rule(1, <<T(0)>>),
                          Rule(1, <<T(0)>>), Rule(2, <<T(1)>>)>>),
              <<Construct(Add, <<1, 2>>), Construct(Bad, <<>>), Construct(Other, <<>>),
                Construct(Good, <<>>)>>,
              [EGraphOf({Entry(Bad, <<>>, 1), Entry(Good, <<>>, 2),
                         Entry(Add, <<Class(1), Class(2)>>, 3), Entry(Error, <<>>, 4)}, 4, 4)
                 EXCEPT !.rows = @ \cup {Egglog!DisjointRow(Class(3), Class(4))}],
              <<>>,
              {<<Egglog!Act(<<Nullary(Other, "o"), Nullary(Good, "g"),
                              Egglog!Atom(Add, <<"o", "g">>, "a"), Nullary(Error, "e")>>,
                            unions, <<>>)>> : unions \in {{}, {<<"a", "e">>}}}, 3),
    error |->        \* E ::= X b E {Add(1,3)} | X {1}    X ::= a {Num(1)}
      Session(Cfg(2, 2, <<Rule(0, <<N(1), T(1), N(0)>>), Rule(0, <<N(1)>>),
                          Rule(1, <<T(0)>>)>>),
              <<Construct(Add, <<1, 3>>), Project(1), Construct(Num, <<1>>)>>,
              EGraphOf({Entry(Error, <<>>, 1), Entry(Other, <<>>, 2)}, 2, 2),
              <<Rewriting(<<Egglog!Atom(Add, <<"e", "x">>, "a"), Nullary(Error, "e")>>,
                          <<Nullary(Error, "r")>>, <<>>),
                Rewriting(<<Egglog!Atom(Num, <<"y">>, "n")>>, <<Nullary(Error, "r")>>,
                          ("y" :> Lexeme(2))),
                Egglog!Rule([selector |-> "Global", root |-> "e", anchor |-> {},
                             literals |-> <<>>,
                             body |-> {Nullary(Error, "e"), Nullary(Other, "o")},
                             make |-> <<Egglog!Atom(Egglog!Disjoint, <<"e", "o">>, "d")>>,
                             unions |-> {}])>>,
              {<<Twice(Lexeme(1), Other)>>, <<Twice(Lexeme(1), Error)>>}, 2),
    commute |->      \* E ::= X b X {Add(1,3)}    X ::= a {Num(1)}
      Session(Cfg(2, 2, <<Rule(0, <<N(1), T(1), N(1)>>), Rule(1, <<T(0)>>)>>),
              <<Construct(Add, <<1, 3>>), Construct(Num, <<1>>)>>,
              EGraphOf({Entry(Num, <<Lexeme(1)>>, 1), Entry(Num, <<Lexeme(2)>>, 2),
                        Entry(Add, <<Class(1), Class(2)>>, 3),
                        Entry(Add, <<Class(1), Class(1)>>, 3)}, 3, 3),
              <<Rewriting(<<Egglog!Atom(Add, <<"m", "n">>, "a")>>,
                          <<Egglog!Atom(Add, <<"n", "m">>, "b")>>, <<>>)>>,
              {}, 3),
    clash |->        \* S ::= a {Bad()} | b {Good()}
      Session(Cfg(1, 2, <<Rule(0, <<T(0)>>), Rule(0, <<T(1)>>)>>),
              <<Construct(Bad, <<>>), Construct(Good, <<>>)>>,
              [EGraphOf({Entry(Error, <<>>, 1), Entry(Bad, <<>>, 2), Entry(Other, <<>>, 3)}, 3, 1)
                 EXCEPT !.rows = @ \cup {Egglog!DisjointRow(Class(2), Class(3))}],
              <<Rewriting(<<Nullary(Bad, "b")>>, <<Nullary(Other, "o")>>, <<>>)>>,
              {<<Joining(Bad, Other)>>, <<Joining(Error, Other)>>}, 2),
    loop |->         \* S ::= S {1} | a {Num(1)} | S b {Wrap(1)}
      Session(Cfg(1, 2, <<Rule(0, <<N(0)>>), Rule(0, <<T(0)>>), Rule(0, <<N(0), T(1)>>)>>),
              <<Project(1), Construct(Num, <<1>>), Construct(Wrap, <<1>>)>>,
              EGraphOf({Entry(Num, <<Lexeme(1)>>, 1), Entry(Wrap, <<Class(1)>>, 1)}, 1, 1),
              <<>>,
              {<<Egglog!Act(Wraps(2), {<<"n", "v">>}, ("l" :> Lexeme(2)))>>}, 3),
    cyclic |->       \* S ::= A b {1}    A ::= a {Num(1)} | A {Wrap(1)}
      Session(Cfg(2, 2, <<Rule(0, <<N(1), T(1)>>), Rule(1, <<T(0)>>), Rule(1, <<N(1)>>)>>),
              <<Project(1), Construct(Num, <<1>>), Construct(Wrap, <<1>>)>>,
              [EGraphOf({Entry(Num, <<Lexeme(1)>>, 1), Entry(Good, <<>>, 2)}, 2, 2)
                 EXCEPT !.rows = @ \cup {Egglog!DisjointRow(Class(1), Class(2))}],
              <<>>,
              {<<Egglog!Act(Wraps(3) \o <<Nullary(Good, "g"), Apart("w", "g"), Apart("v", "g"),
                                           Apart("u", "g")>>,
                            {}, ("l" :> Lexeme(1)))>>,
               <<Egglog!Act(Wraps(4) \o <<Nullary(Good, "g")>>, {<<"t", "g">>},
                            ("l" :> Lexeme(1)))>>}, 2) ]

Compiled(entry) ==
  LET g == Compile(entry.source)
  IN [root |-> g.root, expressions |-> g.expressions, select |-> g.select] @@ entry

MCGrammars == {Compiled(Catalogue[shape]) : shape \in Shapes}

MCTokens == {[terminal |-> 0, payload |-> {Lexeme(1)}],
             [terminal |-> 0, payload |-> {Lexeme(2)}],
             [terminal |-> 1, payload |-> {}]}

----------------------------------------------------------------------------
(* Properties.                                                             *)

\* The e-graph holds the target as value of some sentence that starts with the input.
Possible == Witness(grammar.source, schema, egraph, input)

Answered == Idle /\ ~broken

\* Nothing has grown below the target since its focus was built.
TargetFocusClosed == Egglog!ClosedDownward(egraph, target_focus) = target_focus

\* Between calls the monitor claims a witness exactly if the e-graph holds one,
\* whatever the rules and updates have merged since the index was last told:
\* "`Some(true)` is equivalent to an exhibited member of PrefixSpace(w) in the
\* target class" (docs/algorithm.md).  It does so as long as what lies below the
\* target is in the target's focus.
WitnessNoticed ==
  Answered /\ TargetFocusClosed => (verdict = "true" <=> Possible)

\* The same without the condition, as the document has it.
WitnessAlwaysNoticed == Answered => (verdict = "true" <=> Possible)

\* A call answers "unknown" only when its rules have run out: every match in
\* focus has been applied or is beyond the cap of its class, whatever was left
\* for want of room in a batch.
FocusSaturated ==
  Answered /\ verdict = "unknown" =>
    \A i \in DOMAIN rules : Egglog!Relevant(i) = {}

\* Every call returns: `synchronize` does not loop for ever, although each turn
\* may make new matches and a delta may send it back to the walk.
CallReturns == ~Idle ~> Idle
=============================================================================
