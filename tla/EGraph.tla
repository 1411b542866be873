------------------------------- MODULE EGraph -------------------------------
(***************************************************************************)
(* The e-graph as src/egglog_backend.rs reads and grows it.  egglog itself *)
(* is an external crate, modelled from that use.                           *)
(*                                                                         *)
(* A value is a sort and a class.  Classes of equality sorts are numbered  *)
(* in the order they are made, and `find` maps each to its representative; *)
(* a value outside its domain is a primitive, equal only to itself.  Rows  *)
(* are always in canonical form, as they are after egglog's rebuild.  Of   *)
(* the relations a program may declare only `Disjoint` is read.            *)
(***************************************************************************)
EXTENDS Integers, Sequences, FiniteSetsExt

NoValue == [sort |-> -1, class |-> -1]   \* where there is none, or none known yet

Disjoint == -2      \* the relation, whose rows have no output
DisjointRow(u, v) ==
  [constructor |-> Disjoint, children |-> <<u, v>>, output |-> NoValue]

Canonical(g, v) == IF v \in DOMAIN g.find THEN g.find[v] ELSE v
Equivalent(g, u, v) == Canonical(g, u) = Canonical(g, v)
CanonicalSeq(g, vs) == [k \in DOMAIN vs |-> Canonical(g, vs[k])]

\* One value of each choice.
Products(choices) ==
  {vs \in [DOMAIN choices -> UNION {choices[a] : a \in DOMAIN choices}] :
     \A a \in DOMAIN choices : vs[a] \in choices[a]}

Applications(g, constructor) == {r \in g.rows : r.constructor = constructor}

\* The value a row of this constructor and these children has, if there is one.
Outputs(g, constructor, children) ==
  {r.output : r \in {x \in Applications(g, constructor) :
                       x.children = CanonicalSeq(g, children)}}

----------------------------------------------------------------------------
(* Growth.                                                                 *)

Fresh(g, sort) == [sort |-> sort, class |-> Cardinality(DOMAIN g.find) + 1]

\* `add_application`: an existing row, or a new one with a class of its own.
Added(g, constructor, children, sort) ==
  IF Outputs(g, constructor, children) # {} THEN g
  ELSE LET v == Fresh(g, sort) IN
       [g EXCEPT
          !.rows = @ \cup {[constructor |-> constructor, output |-> v,
                            children |-> CanonicalSeq(g, children)]},
          !.find = [x \in DOMAIN @ \cup {v} |-> IF x = v THEN v ELSE @[x]]]

\* One application for each of these lists of children.
AddedAll(g, constructor, lists, sort) ==
  FoldSet(LAMBDA children, h : Added(h, constructor, children, sort), g, lists)

\* One equality, `kept` being the representative from now on.
Equated(g, kept, lost) ==
  LET find == [x \in DOMAIN g.find |->
                 IF g.find[x] = lost THEN kept ELSE g.find[x]]
      h == [g EXCEPT !.find = find]
  IN [h EXCEPT !.rows =
        {[r EXCEPT !.children = CanonicalSeq(h, @),
                   !.output = Canonical(h, @)] : r \in @}]

\* Rows of equal children must have equal values.
Conflicts(g) ==
  {p \in g.rows \X g.rows :
     /\ p[1].constructor = p[2].constructor /\ p[1].children = p[2].children
     /\ p[1].output # p[2].output}

\* Congruence closure.  Each round joins two classes.
Rebuilt(g) ==
  LET after[n \in Nat] ==
        IF n = 0 THEN g
        ELSE LET h == after[n - 1] IN
             IF Conflicts(h) = {} THEN h
             ELSE LET p == CHOOSE q \in Conflicts(h) : TRUE
                  IN Equated(h, p[1].output, p[2].output)
  IN after[Cardinality(DOMAIN g.find)]
----------------------------------------------------------------------------
(* Properties.                                                             *)

\* A row has a value, which is a class; one of the relation has none.
OutputCoherent(g, r) ==
  IF r.constructor = Disjoint THEN r.output = NoValue
  ELSE r.output \in DOMAIN g.find /\ g.find[r.output] = r.output

\* What rebuilding leaves behind: representatives stand for themselves, and the
\* rows hold nothing but representatives.  No class is numbered out of turn.
Coherent(g) ==
  LET classes == DOMAIN g.find IN
  /\ g = [rows |-> g.rows, find |-> g.find, target |-> g.target]
  /\ IsFiniteSet(classes) /\ IsFiniteSet(g.rows)
  /\ \A v \in classes : v.class \in 1 .. Cardinality(classes)
  /\ g.find \in [classes -> classes]
  /\ \A v \in classes : g.find[g.find[v]] = g.find[v]
  /\ g.target \in classes
  /\ \A r \in g.rows :
       /\ r = [constructor |-> r.constructor, children |-> r.children,
               output |-> r.output]
       /\ IsFiniteSet(DOMAIN r.children) /\ CanonicalSeq(g, r.children) = r.children
       /\ OutputCoherent(g, r)
=============================================================================
