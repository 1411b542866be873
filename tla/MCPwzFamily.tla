---------------------------- MODULE MCPwzFamily ----------------------------
(***************************************************************************)
(* Pwz and the grammars it is given on a whole family of grammars rather   *)
(* than on chosen ones: every set of up to three short productions over two*)
(* nonterminals and two terminals.                                         *)
(***************************************************************************)
EXTENDS Pwz, PwzReference

CONSTANTS
  RhsLength,        \* bound: symbols in a right-hand side
  FormLength,       \* bound: symbols in a sentential form of the reference
  Lexemes           \* the sets of terminals that have a complete lexeme

Symbols == {N(0), N(1), T(0), T(1)}
Rules == [lhs : {0, 1}, rhs : UNION {[1 .. n -> Symbols] : n \in 0 .. RhsLength}]

AsSequence(rules) == FoldSet(LAMBDA rule, rest : <<rule>> \o rest, <<>>, rules)

Sources ==
  {[nonterminals |-> 2, terminals |-> 2, start |-> 0, lexemes |-> lexemes,
    productions |-> AsSequence(rules)] :
   lexemes \in Lexemes,
   rules \in {{x, y, z} : x \in {r \in Rules : r.lhs = 0}, y, z \in Rules}}

MCGrammars ==
  {LET g == Compile(c)
   IN [root |-> g.root, expressions |-> g.expressions, source |-> c,
       select |-> g.select] : c \in Sources}

MCTokens == [terminal : 0 .. 1, payload : {{}}]

\* A prefix has a zipper exactly when some sentence of the grammar, as it was
\* before compilation, begins with it: dropping productions and skipping
\* branches by SELECT set lose no reading, and no zipper is a dead end.  A
\* terminal without a complete lexeme has no tokens.
ViablePrefix ==
  Idle /\ (\A i \in DOMAIN input : input[i].terminal \in grammar.source.lexemes)
    => (zippers # <<>> <=> Viable(grammar.source, input))

----------------------------------------------------------------------------
(* The SELECT sets and the pruned graph against derivations carried out    *)
(* symbol by symbol.                                                       *)

source == grammar.source

\* They belong to the grammar: it is enough to look once.
Fresh == Idle /\ input = <<>>

Usable == {p \in Productions(source) :
             \A k \in DOMAIN source.productions[p].rhs :
               Completable(source, source.productions[p].rhs[k])}

\* The forms one step of derivation makes from one of `forms`.
Rewritten(forms) ==
  {SubSeq(x[1], 1, x[2] - 1) \o source.productions[x[3]].rhs
     \o SubSeq(x[1], x[2] + 1, Len(x[1])) :
   x \in {<<form, k, p>> \in forms \X (1 .. FormLength) \X Usable :
            /\ k \in DOMAIN form
            /\ form[k] = N(source.productions[p].lhs)
            /\ Len(form) - 1 + Len(source.productions[p].rhs) <= FormLength}}

RECURSIVE Closure(_, _)
Closure(all, fresh) ==
  IF fresh = {} THEN all
  ELSE LET more == Rewritten(fresh) \ all IN Closure(all \cup more, more)

Forms(form) == Closure({form}, {form})

\* Terminals seen right behind nonterminal i in a form derived from any symbol.
Behind(i) ==
  {t \in Terminals(source) :
     \E j \in Nonterminals(source) :
       /\ Completable(source, N(j))
       /\ \E form \in Forms(<<N(j)>>), k \in 1 .. (FormLength - 1) :
            /\ k + 1 \in DOMAIN form
            /\ form[k] = N(i) /\ form[k + 1] = T(t)}

\* Terminals that can come next where production p is about to be expanded.
Predicted(p) ==
  LET forms == Forms(source.productions[p].rhs) IN
  {t \in Terminals(source) :
     \E form \in forms : form # <<>> /\ Head(form) = T(t)}
  \cup IF <<>> \in forms THEN Behind(source.productions[p].lhs) ELSE {}

\* The compiled SELECT set of a production holds exactly the terminals that some
\* derivation lets come next: one too few would lose parses in `down_fresh`,
\* one too many would enter a branch for nothing, and so would a bit that
\* belongs to the row of another production.
SelectExact ==
  Fresh => \A p \in Productive(source) :
             grammar.select[ProductionId(source, p)] = Predicted(p)

\* The compiled graph keeps the production numbers of the source and exactly
\* the productions that have a sentence.
GraphFaithful ==
  LET g == Compile(source) IN
  Fresh =>
  /\ {g.expressions[id].symbol.symbol + 1 :
        id \in {x \in DOMAIN g.expressions : g.expressions[x].tag = "Seq"}} = Usable
  /\ DOMAIN g.select = {id \in DOMAIN g.expressions : g.expressions[id].tag = "Seq"}
  /\ \A i \in Nonterminals(source) :
       g.expressions[i] = Alt(<<>>) <=> ~Completable(source, N(i))
=============================================================================
