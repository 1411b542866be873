----------------------------- MODULE PwzGrammar -----------------------------
(***************************************************************************)
(* src/pwz_grammar.rs: the conversion of a context-free grammar into the   *)
(* cyclic expression graph that Pwz walks, and the SELECT sets with which  *)
(* Pwz skips branches that cannot consume the current terminal.            *)
(*                                                                         *)
(* A grammar is a record: the numbers of nonterminals and of terminals,    *)
(* the start nonterminal, the sequence of productions, and the terminals   *)
(* that match some complete lexeme (`complete_lexeme_terminals`).  The     *)
(* code's loops sweep the productions until nothing changes; here each of  *)
(* them is the iteration of one sweep to its least fixpoint.               *)
(***************************************************************************)
EXTENDS PwzData, FiniteSets

CONSTANT WordBits       \* u64::BITS

ASSUME WordBitsAssumption == WordBits \in Nat \ {0}

N(i) == [kind |-> "Nonterminal", index |-> i]
T(i) == [kind |-> "Terminal", index |-> i]

Nonterminals(g) == 0 .. (g.nonterminals - 1)
Terminals(g) == 0 .. (g.terminals - 1)
Productions(g) == DOMAIN g.productions      \* the code counts them from 0

\* The least fixpoint of a sweep that adds to a set of at most `size` facts.
Saturate(Sweep(_), size) ==
  LET after[n \in 0 .. size] ==
        IF n = 0 THEN {}
                 ELSE LET found == after[n - 1] IN found \cup Sweep(found)
  IN after[size]

----------------------------------------------------------------------------
(* Productions with a finite completion.                                   *)

AllIn(rhs, terminals, nonterminals) ==
  \A k \in DOMAIN rhs :
    rhs[k].index \in (IF rhs[k].kind = "Terminal" THEN terminals ELSE nonterminals)

ProductiveNonterminals(g) ==
  LET Sweep(found) ==
        {g.productions[p].lhs : p \in {q \in Productions(g) :
           AllIn(g.productions[q].rhs, g.lexemes, found)}}
  IN Saturate(Sweep, g.nonterminals)

ProductiveAll(g) == Productions(g)   \* mutant: none are dropped

Productive(g) ==
  LET nonterminals == ProductiveNonterminals(g)
  IN {p \in Productions(g) : AllIn(g.productions[p].rhs, g.lexemes, nonterminals)}

----------------------------------------------------------------------------
(* NULLABLE, FIRST, FOLLOW and SELECT over the productive productions.     *)
(* FIRST and FOLLOW are sets of pairs <<nonterminal, terminal>>.           *)

Nullable(g) ==
  LET Sweep(found) ==
        {g.productions[p].lhs : p \in {q \in Productive(g) :
           AllIn(g.productions[q].rhs, {}, found)}}
  IN Saturate(Sweep, g.nonterminals)

Row(pairs, nonterminal) == {x[2] : x \in {y \in pairs : y[1] = nonterminal}}

\* The terminals that can begin symbols k, k+1, ... of a right-hand side.
FirstFrom(rhs, k, nullable, first) ==
  UNION {IF rhs[j].kind = "Terminal" THEN {rhs[j].index}
                                     ELSE Row(first, rhs[j].index) :
         j \in {i \in k .. Len(rhs) :
                  AllIn(SubSeq(rhs, k, i - 1), {}, nullable)}}

First(g) ==
  LET nullable == Nullable(g)
      Sweep(found) ==
        UNION {{<<g.productions[p].lhs, t>> :
                  t \in FirstFrom(g.productions[p].rhs, 1, nullable, found)} :
               p \in Productive(g)}
  IN Saturate(Sweep, g.nonterminals * g.terminals)

\* What can come after symbol k of a production: the FIRST set of its trailer,
\* and what follows the left-hand side when the trailer can vanish.
Trailer(rule, k, nullable, first, follow) ==
  FirstFrom(rule.rhs, k + 1, nullable, first)
    \cup IF AllIn(SubSeq(rule.rhs, k + 1, Len(rule.rhs)), {}, nullable)
           THEN Row(follow, rule.lhs) ELSE {}

Follow(g) ==
  LET nullable == Nullable(g)
      first == First(g)
      Sweep(found) ==
        UNION {LET rule == g.productions[p] IN
               UNION {{<<rule.rhs[k].index, t>> :
                         t \in Trailer(rule, k, nullable, first, found)} :
                      k \in {i \in DOMAIN rule.rhs :
                               rule.rhs[i].kind = "Nonterminal"}} :
               p \in Productive(g)}
  IN Saturate(Sweep, g.nonterminals * g.terminals)

SelectFirst(g, p) ==   \* mutant: a production that can vanish is not expected
  FirstFrom(g.productions[p].rhs, 1, Nullable(g), First(g))
\* The end of input is in no FOLLOW set: a derivative always has a token.
SelectSet(g, p) == Trailer(g.productions[p], 0, Nullable(g), First(g), Follow(g))

\* The rows of all productions, packed into words: a word is the set of its bits.
Words(g) == (g.terminals + WordBits - 1) \div WordBits

SelectBits(g) ==
  LET words == Words(g)
      rows == [p \in Productions(g) |->
                IF p \in Productive(g) THEN SelectSet(g, p) ELSE {}]
  IN [cell \in 0 .. (Len(g.productions) * words - 1) |->
        {t % WordBits : t \in {u \in rows[cell \div words + 1] :
                                u \div WordBits = cell % words}}]

\* `base` of a production's row
BaseUnscaled(g, p) == p - 1   \* mutant: as if every row were one word
Base(g, p) == (p - 1) * Words(g)

\* `contains`
SelectContains(g, bits, p, t) ==
  LET word == t \div WordBits IN
  /\ word < Words(g)
  /\ Base(g, p) + word \in DOMAIN bits
  /\ t % WordBits \in bits[Base(g, p) + word]

----------------------------------------------------------------------------
(* The expression graph.                                                   *)

NonterminalId(i) == i
TerminalId(g, t) == g.nonterminals + t
ProductionId(g, p) == g.nonterminals + g.terminals + p - 1

SymbolId(g, symbol) ==
  IF symbol.kind = "Terminal" THEN TerminalId(g, symbol.index)
                              ELSE NonterminalId(symbol.index)

Alternatives(g, i) ==
  LET Mine(p) == p \in Productive(g) /\ g.productions[p].lhs = i
      mine == SelectSeq([p \in Productions(g) |-> p], Mine)
  IN Alt([k \in DOMAIN mine |-> ProductionId(g, mine[k])])

ProductionNode(g, p) ==
  LET rhs == g.productions[p].rhs
  IN Seqn(GrammarSymbol(p - 1), [k \in DOMAIN rhs |-> SymbolId(g, rhs[k])])

Compile(g) ==
  LET productions == {ProductionId(g, p) : p \in Productive(g)}
      Production(id) == id - g.nonterminals - g.terminals + 1
      bits == SelectBits(g)
  IN [root |-> NonterminalId(g.start),
      expressions |->
        [id \in 0 .. (g.nonterminals + g.terminals - 1) \cup productions |->
           CASE id < g.nonterminals -> Alternatives(g, id)
             [] id \in productions -> ProductionNode(g, Production(id))
             [] OTHER -> Tok(id - g.nonterminals)],
      select |-> [id \in productions |->
                    {t \in Terminals(g) : SelectContains(g, bits, Production(id), t)}]]
=============================================================================
