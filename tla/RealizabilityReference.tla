----------------------- MODULE RealizabilityReference -----------------------
(***************************************************************************)
(* What the realizability index should answer, defined without zippers,    *)
(* memos, contexts or facts: the consumed tokens and everything that may   *)
(* follow them form an automaton, and the grammar is intersected with it.  *)
(*                                                                         *)
(* The automaton has a state for each position of the prefix and one more, *)
(* Future, which any token enters and never leaves.  A parse of a symbol   *)
(* between two states has a value if the e-graph has rows for it.          *)
(* Recursive operators: this module is for model checking only.            *)
(***************************************************************************)
EXTENDS PwzReference, EGraph

Nothing == [sort |-> None, class |-> None]   \* "some parse, of whatever value"

\* The values of terminal t between two states.
Arc(c, schema, w, t, i, j) ==
  LET future == Len(w) + 1 IN
  IF t \notin c.lexemes THEN {}
  ELSE IF j = future /\ i \in {future - 1, future}
    THEN {Nothing} \cup schema.lexemes[t]
  ELSE IF j = i + 1 /\ j < future /\ w[j].terminal = t
    THEN {Nothing} \cup w[j].payload
  ELSE {}

\* The values of symbol s between two states, given those of nonterminals.
Values(c, schema, w, s, i, j, known) ==
  IF s.kind = "Terminal" THEN Arc(c, schema, w, s.index, i, j)
  ELSE {x[4] : x \in {y \in known : y[1] = s.index /\ y[2] = i /\ y[3] = j}}

RECURSIVE Paths(_, _, _, _, _, _)
\* The ways to read the symbols of rhs from state i: sequences of states.
Paths(c, schema, w, rhs, i, known) ==
  IF rhs = <<>> THEN {<<i>>}
  ELSE UNION {{<<i>> \o path : path \in Paths(c, schema, w, Tail(rhs), j, known)} :
              j \in {k \in i .. Len(w) + 1 :
                       Nothing \in Values(c, schema, w, Head(rhs), i, k, known)}}

\* The values production p has on one such way.
Outcomes(c, schema, g, w, p, path, known) ==
  LET action == schema.actions[p]
      At(k) == Values(c, schema, w, c.productions[p].rhs[k], path[k], path[k + 1], known)
  IN {Nothing} \cup
     IF action.constructor = None THEN At(Head(action.positions))
     ELSE {r.output : r \in {x \in g.rows :
             /\ x.constructor = action.constructor
             /\ \A a \in DOMAIN x.children : x.children[a] \in At(action.positions[a])}}

Meanings(c, schema, g, w) ==
  LET Sweep(known) ==
        UNION {UNION {{<<c.productions[p].lhs, path[1], path[Len(path)], v>> :
                         v \in Outcomes(c, schema, g, w, p, path, known)} :
                      path \in UNION {Paths(c, schema, w, c.productions[p].rhs, i, known) :
                                      i \in 0 .. Len(w) + 1}} :
               p \in Productions(c)}
  IN Least(Sweep, {})

\* Some sentence that begins with w can have the target as its value.
Witness(c, schema, g, w) ==
  \E j \in {Len(w), Len(w) + 1} :
    <<c.start, 0, j, Canonical(g, g.target)>> \in Meanings(c, schema, g, w)
=============================================================================
