---------------------------- MODULE PwzReference ----------------------------
(***************************************************************************)
(* What a derivative of Pwz should compute, defined without memos,         *)
(* contexts or a work list: by splitting the input in every possible way.  *)
(* Recursive operators: this module is for model checking only.            *)
(*                                                                         *)
(* A parse tree is <<symbol, subtrees>>.  A grammar can give one input     *)
(* infinitely many trees, so trees are compared up to a nesting depth.     *)
(***************************************************************************)
EXTENDS PwzGrammar, FiniteSetsExt

Longest(c) == Max({0} \cup {Len(c.productions[p].rhs) : p \in Productions(c)})

Leaf(t) == <<TokenSymbol(t), <<>>>>

----------------------------------------------------------------------------
(* Which symbols have a sentence at all.                                   *)

RECURSIVE Finite(_, _, _)
\* Nonterminal x has a complete parse tree of at most the given height.
Finite(c, x, height) ==
  /\ height > 0
  /\ \E p \in Productions(c) :
       /\ c.productions[p].lhs = x
       /\ \A k \in DOMAIN c.productions[p].rhs :
            LET s == c.productions[p].rhs[k] IN
            IF s.kind = "Terminal" THEN s.index \in c.lexemes
                                   ELSE Finite(c, s.index, height - 1)

\* A tree without a nonterminal repeated on a path is high enough.
Completable(c, s) ==
  IF s.kind = "Terminal" THEN s.index \in c.lexemes
                         ELSE Finite(c, s.index, c.nonterminals)

----------------------------------------------------------------------------
(* The ways to read an input, as trees.                                    *)

RECURSIVE Trees(_, _, _, _, _, _), Forest(_, _, _, _, _, _)

\* The trees of symbol s that span w[i+1] .. w[j], at most d productions deep.
Trees(c, w, s, i, j, d) ==
  IF s.kind = "Terminal"
    THEN IF j = i + 1 /\ w[j].terminal = s.index /\ s.index \in c.lexemes
           THEN {Leaf(w[j])} ELSE {}
  ELSE IF d = 0 THEN {}
  ELSE UNION {{<<GrammarSymbol(p - 1), ts>> :
               ts \in Forest(c, w, c.productions[p].rhs, i, j, d - 1)} :
              p \in {q \in Productions(c) : c.productions[q].lhs = s.index}}

\* The same for a list of symbols: lists of trees side by side.
Forest(c, w, rhs, i, j, d) ==
  IF rhs = <<>> THEN IF i = j THEN {<<>>} ELSE {}
  ELSE UNION {{<<t>> \o ts : t \in Trees(c, w, Head(rhs), i, k, d),
                             ts \in Forest(c, w, Tail(rhs), k, j, d)} :
              k \in i .. j}

RECURSIVE Spines(_, _, _, _, _, _)

\* The ways symbol s, begun after i tokens, can have just consumed the last
\* token of w and still be completed: from the outside in, the productions
\* still open, each with its finished children and the number it still expects.
Spines(c, w, s, i, d, depth) ==
  IF s.kind = "Terminal"
    THEN IF i = Len(w) - 1 /\ w[Len(w)].terminal = s.index
                           /\ s.index \in c.lexemes
           THEN {<<>>} ELSE {}
  ELSE IF d = 0 THEN {}
  ELSE UNION {LET rhs == c.productions[x[1]].rhs IN
              {<<[symbol |-> GrammarSymbol(x[1] - 1), left |-> ts,
                  right |-> Len(rhs) - x[2]]>> \o spine :
               ts \in Forest(c, w, SubSeq(rhs, 1, x[2] - 1), i, x[3], depth),
               spine \in Spines(c, w, rhs[x[2]], x[3], d - 1, depth)} :
              x \in {<<p, k, j>> \in Productions(c) \X (1 .. Longest(c))
                                       \X (i .. (Len(w) - 1)) :
                       /\ c.productions[p].lhs = s.index
                       /\ k <= Len(c.productions[p].rhs)
                       /\ \A r \in k + 1 .. Len(c.productions[p].rhs) :
                            Completable(c, c.productions[p].rhs[r])}}

----------------------------------------------------------------------------
(* Which inputs can be read, without a bound on depth.                     *)

RECURSIVE Least(_, _)
Least(Sweep(_), found) ==
  LET more == found \cup Sweep(found)
  IN IF more = found THEN found ELSE Least(Sweep, more)

RECURSIVE Spans(_, _, _, _, _)
\* The symbols of rhs can derive w[i+1] .. w[j], given what nonterminals can.
Spans(w, rhs, i, j, known) ==
  IF rhs = <<>> THEN i = j
  ELSE IF Head(rhs).kind = "Terminal"
    THEN /\ i < j /\ w[i + 1].terminal = Head(rhs).index
         /\ Spans(w, Tail(rhs), i + 1, j, known)
    ELSE \E k \in i .. j : /\ <<Head(rhs).index, i, k>> \in known
                           /\ Spans(w, Tail(rhs), k, j, known)

Derivations(c, w) ==
  LET Sweep(known) ==
        {<<c.productions[x[1]].lhs, x[2], x[3]>> :
         x \in {y \in Productions(c) \X (0 .. Len(w)) \X (0 .. Len(w)) :
                Spans(w, c.productions[y[1]].rhs, y[2], y[3], known)}}
  IN Least(Sweep, {})

RECURSIVE Extends(_, _, _, _, _, _)
\* The symbols of rhs can derive some w[i+1] .. w[n] followed by anything.
Extends(c, w, rhs, i, spans, known) ==
  IF i = Len(w) THEN \A k \in DOMAIN rhs : Completable(c, rhs[k])
  ELSE /\ rhs # <<>>
       /\ IF Head(rhs).kind = "Terminal"
            THEN /\ w[i + 1].terminal = Head(rhs).index
                 /\ Extends(c, w, Tail(rhs), i + 1, spans, known)
            ELSE \/ /\ <<Head(rhs).index, i>> \in known
                    /\ \A k \in 2 .. Len(rhs) : Completable(c, rhs[k])
                 \/ \E k \in i .. Len(w) :
                      /\ <<Head(rhs).index, i, k>> \in spans
                      /\ Extends(c, w, Tail(rhs), k, spans, known)

\* w is a prefix of some sentence of c.
Viable(c, w) ==
  IF w = <<>> THEN Completable(c, N(c.start))
  ELSE LET spans == Derivations(c, w)
           Sweep(known) ==
             {<<c.productions[x[1]].lhs, x[2]>> :
              x \in {y \in Productions(c) \X (0 .. (Len(w) - 1)) :
                     Extends(c, w, c.productions[y[1]].rhs, y[2], spans, known)}}
       IN <<c.start, 0>> \in Least(Sweep, {})
=============================================================================
