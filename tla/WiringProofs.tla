---------------------------- MODULE WiringProofs ----------------------------
(***************************************************************************)
(* What every step that the parser, the index or the e-graph can take does *)
(* to what the index claims, whoever takes it: for every grammar, e-graph, *)
(* token set and bound that the assumptions of Wiring allow.               *)
(*                                                                         *)
(* A set of facts is closed if the rules of Entailment add nothing to it.  *)
(* The heart of the invariant is that what the index has, read in the      *)
(* e-graph as it is, lies in every closed set.                             *)
(***************************************************************************)
EXTENDS Wiring, FiniteSetTheorems, SequenceTheorems, TLAPS

ParserProofs == INSTANCE PwzProofs

----------------------------------------------------------------------------
(* Natural numbers.                                                        *)

\* A set of natural numbers has a least element.
LEMMA NatLeast ==
  ASSUME NEW T \in SUBSET Nat, T # {}
  PROVE  \E n \in T : \A m \in T : n <= m
<1>1. PICK n \in T : \A m \in T : <<m, n>> \notin OpToRel(<, Nat)
  BY NatLessThanWellFounded, WFMin
<1>2. \A m \in T : ~(m < n)
  BY <1>1 DEF OpToRel
<1> QED  BY <1>2

\* Induction, for a property given as the set of its numbers.
LEMMA NatAll ==
  ASSUME NEW T, 0 \in T, \A n \in Nat : n \in T => n + 1 \in T
  PROVE  Nat \subseteq T
<1> DEFINE U == {n \in Nat : n \notin T}
<1> SUFFICES ASSUME U # {} PROVE FALSE
  OBVIOUS
<1>1. PICK n \in U : \A m \in U : n <= m
  BY NatLeast
<1>2. n \in Nat /\ n # 0 /\ n - 1 \in Nat /\ (n - 1) + 1 = n
  BY <1>1
<1>3. n - 1 \notin U
  BY <1>1, <1>2
<1> QED  BY <1>1, <1>2, <1>3

----------------------------------------------------------------------------
(* The growth of an e-graph: what an addition, an equality, the rebuild    *)
(* after it and a whole fold of additions keep.                            *)

\* A row as a later e-graph has it.
RowIn(g, r) ==
  [constructor |-> r.constructor, children |-> CanonicalSeq(g, r.children),
   output |-> Canonical(g, r.output)]

\* What was equal stays equal, what was a row stays one, for the same target.
Continues(g, h) ==
  /\ DOMAIN g.find \subseteq DOMAIN h.find
  /\ \A u : Canonical(h, Canonical(g, u)) = Canonical(h, u)
  /\ \A r \in g.rows : RowIn(h, r) \in h.rows
  /\ Canonical(h, h.target) = Canonical(h, g.target)

Sorts(g) == {v.sort : v \in DOMAIN g.find}
Shapes(g) == {<<r.constructor, DOMAIN r.children>> : r \in g.rows}

\* h is g grown, by classes of these sorts and rows of these shapes at most.
Grows(g, h, sorts, shapes) ==
  /\ Coherent(h) /\ Continues(g, h)
  /\ Sorts(h) \subseteq Sorts(g) \cup sorts
  /\ Shapes(h) \subseteq Shapes(g) \cup shapes

\* The canonical form of a row is that row, and of a value of a class one too.
LEMMA CoherentRows ==
  ASSUME NEW g, Coherent(g)
  PROVE  /\ \A r \in g.rows : RowIn(g, r) = r
         /\ \A v : Canonical(g, Canonical(g, v)) = Canonical(g, v)
         /\ \A v \in DOMAIN g.find : Canonical(g, v) \in DOMAIN g.find
<1>1. \A r \in g.rows : RowIn(g, r) = r
  <2> SUFFICES ASSUME NEW r \in g.rows PROVE RowIn(g, r) = r  OBVIOUS
  <2>1. Canonical(g, r.output) = r.output
    BY DEF Coherent, OutputCoherent, Canonical, NoValue
  <2>2. CanonicalSeq(g, r.children) = r.children
        /\ r = [constructor |-> r.constructor, children |-> r.children, output |-> r.output]
    BY DEF Coherent
  <2> QED  BY <2>1, <2>2 DEF RowIn
<1>2. \A v : Canonical(g, Canonical(g, v)) = Canonical(g, v)
  BY DEF Coherent, Canonical
<1>3. \A v \in DOMAIN g.find : Canonical(g, v) \in DOMAIN g.find
  BY DEF Coherent, Canonical
<1> QED  BY <1>1, <1>2, <1>3

\* An e-graph that does not change grows.
LEMMA GrowsNot ==
  ASSUME NEW g, Coherent(g), NEW sorts, NEW shapes
  PROVE  Grows(g, g, sorts, shapes)
BY CoherentRows DEF Grows, Continues

\* Canonical sequences of canonical sequences.
LEMMA CanonicalTwice ==
  ASSUME NEW g, NEW h, \A u : Canonical(h, Canonical(g, u)) = Canonical(h, u),
         NEW vs
  PROVE  CanonicalSeq(h, CanonicalSeq(g, vs)) = CanonicalSeq(h, vs)
BY DEF CanonicalSeq

\* Growth upon growth is growth.
LEMMA GrowsOn ==
  ASSUME NEW g, NEW h, NEW k, NEW sorts, NEW shapes,
         Grows(g, h, sorts, shapes), Grows(h, k, sorts, shapes)
  PROVE  Grows(g, k, sorts, shapes)
<1>1. \A u : Canonical(k, Canonical(g, u)) = Canonical(k, u)
  <2> TAKE u
  <2>1. Canonical(k, Canonical(h, Canonical(g, u))) = Canonical(k, Canonical(g, u))
    BY DEF Grows, Continues
  <2>2. Canonical(h, Canonical(g, u)) = Canonical(h, u)
    BY DEF Grows, Continues
  <2>3. Canonical(k, Canonical(h, u)) = Canonical(k, u)
    BY DEF Grows, Continues
  <2> QED  BY <2>1, <2>2, <2>3
<1>2. ASSUME NEW r \in g.rows PROVE RowIn(k, r) \in k.rows
  <2>1. RowIn(h, r) \in h.rows
    BY DEF Grows, Continues
  <2>2. RowIn(k, RowIn(h, r)) \in k.rows
    BY <2>1 DEF Grows, Continues
  <2>3. RowIn(h, r).constructor = r.constructor
        /\ RowIn(h, r).children = CanonicalSeq(h, r.children)
        /\ RowIn(h, r).output = Canonical(h, r.output)
    BY DEF RowIn
  <2>4. CanonicalSeq(k, CanonicalSeq(h, r.children)) = CanonicalSeq(k, r.children)
    BY CanonicalTwice DEF Grows, Continues
  <2>5. Canonical(k, Canonical(h, r.output)) = Canonical(k, r.output)
    BY DEF Grows, Continues
  <2>6. RowIn(k, RowIn(h, r)) = RowIn(k, r)
    BY <2>3, <2>4, <2>5 DEF RowIn
  <2> QED  BY <2>2, <2>6
<1>3. Canonical(k, k.target) = Canonical(k, g.target)
  <2>1. Canonical(k, k.target) = Canonical(k, h.target)
    BY DEF Grows, Continues
  <2>2. Canonical(k, Canonical(h, h.target)) = Canonical(k, h.target)
    BY DEF Grows, Continues
  <2>3. Canonical(h, h.target) = Canonical(h, g.target)
    BY DEF Grows, Continues
  <2>4. Canonical(k, Canonical(h, g.target)) = Canonical(k, g.target)
    BY DEF Grows, Continues
  <2> QED  BY <2>1, <2>2, <2>3, <2>4
<1>4. DOMAIN g.find \subseteq DOMAIN k.find
  BY DEF Grows, Continues
<1>5. Continues(g, k)
  BY <1>1, <1>2, <1>3, <1>4 DEF Continues
<1>6. Coherent(k) /\ Sorts(k) \subseteq Sorts(g) \cup sorts
      /\ Shapes(k) \subseteq Shapes(g) \cup shapes
  BY DEF Grows
<1> QED  BY <1>5, <1>6 DEF Grows

\* The representatives of g, and its target, are those of h too.
Keeps(g, h) == h.target = g.target /\ \A v \in DOMAIN g.find : h.find[v] = g.find[v]

\* An application is a row from now on, with a class of its own if it is new.
LEMMA AddedGrows ==
  ASSUME NEW g, Coherent(g), NEW c, c # Disjoint, NEW vs, IsFiniteSet(DOMAIN vs), NEW s
  PROVE  /\ Grows(g, Added(g, c, vs, s), {s}, {<<c, DOMAIN vs>>})
         /\ Keeps(g, Added(g, c, vs, s))
<1>1. CASE Outputs(g, c, vs) # {}
  <2>1. Added(g, c, vs, s) = g
    BY <1>1 DEF Added
  <2> QED  BY <2>1, GrowsNot DEF Keeps
<1>2. CASE Outputs(g, c, vs) = {}
  <2> DEFINE v == Fresh(g, s)
             D == DOMAIN g.find
             row == [constructor |-> c, output |-> v, children |-> CanonicalSeq(g, vs)]
             find == [x \in D \cup {v} |-> IF x = v THEN v ELSE g.find[x]]
             h == Added(g, c, vs, s)
  <2>1. h = [rows |-> g.rows \cup {row}, find |-> find, target |-> g.target]
    <3>1. h = [g EXCEPT !.rows = @ \cup {row}, !.find = find]
      BY <1>2 DEF Added
    <3>2. g = [rows |-> g.rows, find |-> g.find, target |-> g.target]
      BY DEF Coherent
    <3> HIDE DEF h, row, find
    <3> QED  BY <3>1, <3>2
  <2>2. /\ Cardinality(D) \in Nat
        /\ v.class = Cardinality(D) + 1 /\ v.sort = s
        /\ IsFiniteSet(D \cup {v})
    BY FS_CardinalityType, FS_AddElement DEF Coherent, Fresh
  <2>3. v \notin D
    BY <2>2 DEF Coherent
  <2>4. Cardinality(D \cup {v}) = Cardinality(D) + 1
    BY <2>3, FS_AddElement DEF Coherent
  <2> HIDE DEF v
  <2>5. /\ DOMAIN find = D \cup {v} /\ find[v] = v
        /\ \A x \in D : find[x] = g.find[x]
        /\ \A x \in D : g.find[x] \in D /\ g.find[g.find[x]] = g.find[x]
    BY <2>3 DEF Coherent
  <2> HIDE DEF find
  <2>6. h.rows = g.rows \cup {row} /\ h.find = find /\ h.target = g.target
    BY <2>1
  <2> HIDE DEF h, D
  <2>7. /\ \A u \in D : Canonical(h, u) = g.find[u] /\ Canonical(g, u) = g.find[u]
        /\ Canonical(h, v) = v /\ Canonical(g, v) = v
        /\ \A u : u \notin D \cup {v} => Canonical(h, u) = u /\ Canonical(g, u) = u
    BY <2>3, <2>5, <2>6 DEF Canonical, D
  <2>8. \A u : Canonical(h, Canonical(g, u)) = Canonical(h, u)
               /\ Canonical(h, Canonical(g, u)) = Canonical(g, u)
    BY <2>5, <2>7
  <2>9. \A xs : CanonicalSeq(h, CanonicalSeq(g, xs)) = CanonicalSeq(g, xs)
    BY <2>8 DEF CanonicalSeq
  <2>10. \A r \in g.rows : /\ RowIn(g, r) = r
                           /\ CanonicalSeq(g, r.children) = r.children
                           /\ OutputCoherent(g, r)
    BY CoherentRows DEF Coherent, D
  <2>10a. NoValue \notin D \cup {v}
    <3>1. \A x \in D : x.class \in 1 .. Cardinality(D)
      BY DEF Coherent, D
    <3> QED  BY <2>2, <3>1 DEF NoValue
  <2>11. \A r \in g.rows : CanonicalSeq(h, r.children) = r.children
                           /\ Canonical(h, r.output) = r.output /\ OutputCoherent(h, r)
    BY <2>5, <2>6, <2>7, <2>9, <2>10, <2>10a DEF OutputCoherent, D
  <2>12. \A r \in g.rows : RowIn(h, r) = r
    BY <2>10, <2>11 DEF RowIn, Coherent
  <2>13. /\ row.constructor = c /\ row.output = v
         /\ row.children = CanonicalSeq(g, vs)
         /\ row = [constructor |-> row.constructor, children |-> row.children,
                   output |-> row.output]
    OBVIOUS
  <2>14. DOMAIN CanonicalSeq(g, vs) = DOMAIN vs
    BY DEF CanonicalSeq
  <2> HIDE DEF row
  <2>15. Coherent(h)
    <3>1. h = [rows |-> h.rows, find |-> h.find, target |-> h.target]
      BY <2>1, <2>6
    <3>2. IsFiniteSet(DOMAIN h.find) /\ IsFiniteSet(h.rows)
      BY <2>2, <2>5, <2>6, FS_AddElement DEF Coherent
    <3>3. \A x \in DOMAIN h.find : x.class \in 1 .. Cardinality(DOMAIN h.find)
      <4>1. \A x \in D : x.class \in 1 .. Cardinality(D)
        BY DEF Coherent, D
      <4> QED  BY <4>1, <2>2, <2>4, <2>5, <2>6
    <3>4. h.find \in [DOMAIN h.find -> DOMAIN h.find]
      <4>1. find = [x \in DOMAIN find |-> find[x]]
        BY DEF find
      <4>2. \A x \in DOMAIN find : find[x] \in DOMAIN find
        BY <2>5
      <4> QED  BY <4>1, <4>2, <2>6
    <3>5. \A x \in DOMAIN h.find : h.find[h.find[x]] = h.find[x]
      BY <2>5, <2>6
    <3>6. h.target \in DOMAIN h.find
      BY <2>5, <2>6 DEF Coherent, D
    <3>7. ASSUME NEW r \in h.rows
          PROVE  /\ r = [constructor |-> r.constructor, children |-> r.children,
                         output |-> r.output]
                 /\ IsFiniteSet(DOMAIN r.children)
                 /\ CanonicalSeq(h, r.children) = r.children
                 /\ OutputCoherent(h, r)
      <4>1. CASE r \in g.rows
        <5>1. r = [constructor |-> r.constructor, children |-> r.children,
                   output |-> r.output] /\ IsFiniteSet(DOMAIN r.children)
          BY <4>1 DEF Coherent
        <5> QED  BY <4>1, <5>1, <2>11
      <4>2. CASE r = row
        <5>1. CanonicalSeq(h, r.children) = r.children
          BY <4>2, <2>9, <2>13
        <5> QED  BY <4>2, <5>1, <2>5, <2>6, <2>13, <2>14 DEF OutputCoherent
      <4> QED  BY <4>1, <4>2, <2>6
    <3> QED  BY <3>1, <3>2, <3>3, <3>4, <3>5, <3>6, <3>7 DEF Coherent
  <2>16. Continues(g, h)
    <3>1. D \subseteq DOMAIN h.find
      BY <2>5, <2>6
    <3> QED  BY <3>1, <2>6, <2>8, <2>12 DEF Continues, D
  <2>17. Sorts(h) \subseteq Sorts(g) \cup {s}
    BY <2>2, <2>5, <2>6 DEF Sorts, D
  <2>18. Shapes(h) \subseteq Shapes(g) \cup {<<c, DOMAIN vs>>}
    BY <2>6, <2>13, <2>14 DEF Shapes
  <2>19. \A x \in DOMAIN g.find : h.find[x] = g.find[x]
    BY <2>5, <2>6 DEF D
  <2> QED  BY <2>6, <2>15, <2>16, <2>17, <2>18, <2>19 DEF Grows, Keeps, h
<1> QED  BY <1>1, <1>2

\* The image of a finite set is finite.
LEMMA FiniteImage ==
  ASSUME NEW S, IsFiniteSet(S), NEW f
  PROVE  IsFiniteSet({f[x] : x \in S})
<1> DEFINE T == {f[x] : x \in S}
           h == [x \in S |-> f[x]]
<1>1. h \in Surjection(S, T)
  BY DEF Surjection
<1> HIDE DEF h
<1> QED  BY <1>1, FS_Surjection

\* There are finitely many functions between finite sets.
LEMMA FiniteFunctions ==
  ASSUME NEW D, IsFiniteSet(D), NEW V, IsFiniteSet(V)
  PROVE  IsFiniteSet([D -> V])
<1> DEFINE graph(f) == {<<x, f[x]>> : x \in D}
           graphs == [f \in [D -> V] |-> graph(f)]
<1>1. IsFiniteSet(SUBSET (D \X V))
  BY FS_Product, FS_SUBSET
<1>2. \A f \in [D -> V] : graph(f) \in SUBSET (D \X V)
  OBVIOUS
<1>3. ASSUME NEW f \in [D -> V], NEW g \in [D -> V], graph(f) = graph(g)
      PROVE  f = g
  <2>1. \A x \in D : <<x, f[x]>> \in graph(g)
    BY <1>3
  <2>2. \A x \in D : f[x] = g[x]
    BY <2>1
  <2> QED  BY <2>2
<1> HIDE DEF graph
<1>4. graphs \in Injection([D -> V], SUBSET (D \X V))
  BY <1>2, <1>3 DEF Injection, IsInjective
<1> QED  BY <1>1, <1>4, FS_Injection

\* A row with other children and another output.
LEMMA RowChanged ==
  ASSUME NEW r, r = [constructor |-> r.constructor, children |-> r.children,
                     output |-> r.output],
         NEW vs, NEW v
  PROVE  [r EXCEPT !.children = vs, !.output = v]
           = [constructor |-> r.constructor, children |-> vs, output |-> v]
<1> DEFINE h == [r EXCEPT !.children = vs, !.output = v]
<1>1. h.children = vs /\ h.output = v /\ h.constructor = r.constructor
  OBVIOUS
<1>2. DOMAIN h = {"constructor", "children", "output"}
  OBVIOUS
<1>3. h = [x \in DOMAIN h |-> h[x]]
  OBVIOUS
<1> HIDE DEF h
<1>4. h = [constructor |-> r.constructor, children |-> vs, output |-> v]
  BY <1>1, <1>2, <1>3
<1> QED  BY <1>4 DEF h

\* One equality between two representatives.
LEMMA EquatedGrows ==
  ASSUME NEW g, Coherent(g),
         NEW kept \in DOMAIN g.find, g.find[kept] = kept,
         NEW lost \in DOMAIN g.find, g.find[lost] = lost
  PROVE  /\ Grows(g, Equated(g, kept, lost), {}, {})
         /\ Equated(g, kept, lost).rows = {RowIn(Equated(g, kept, lost), r) : r \in g.rows}
         /\ Equated(g, kept, lost).target = g.target
         /\ DOMAIN Equated(g, kept, lost).find = DOMAIN g.find
<1> DEFINE D == DOMAIN g.find
           find == [x \in D |-> IF g.find[x] = lost THEN kept ELSE g.find[x]]
           k == [g EXCEPT !.find = find]
           h == Equated(g, kept, lost)
<1>1. g = [rows |-> g.rows, find |-> g.find, target |-> g.target]
  BY DEF Coherent
<1>2. k = [rows |-> g.rows, find |-> find, target |-> g.target]
  <2> HIDE DEF find
  <2> QED  BY <1>1
<1>3. h = [k EXCEPT !.rows = {[r EXCEPT !.children = CanonicalSeq(k, @),
                                        !.output = Canonical(k, @)] : r \in @}]
  BY DEF Equated
<1>4. DOMAIN find = D /\ \A x \in D : find[x] = IF g.find[x] = lost THEN kept ELSE g.find[x]
  OBVIOUS
<1>5. /\ \A x \in D : find[x] \in D /\ find[find[x]] = find[x]
      /\ \A x \in D : find[g.find[x]] = find[x] /\ g.find[x] \in D
  BY <1>4 DEF Coherent
<1>6. find \in [D -> D]
  BY <1>5
<1> HIDE DEF find
<1>7. k.rows = g.rows /\ k.find = find /\ k.target = g.target
  BY <1>2
<1> HIDE DEF k
<1>8. \A r \in g.rows : r = [constructor |-> r.constructor, children |-> r.children,
                             output |-> r.output]
  BY DEF Coherent
<1>9. \A r \in g.rows : [r EXCEPT !.children = CanonicalSeq(k, @),
                                  !.output = Canonical(k, @)] = RowIn(k, r)
  BY <1>8, RowChanged DEF RowIn
<1>10. h = [rows |-> {RowIn(k, r) : r \in g.rows}, find |-> find, target |-> g.target]
  <2>1. {[r EXCEPT !.children = CanonicalSeq(k, @), !.output = Canonical(k, @)] :
           r \in g.rows} = {RowIn(k, r) : r \in g.rows}
    <3> DEFINE Old(r) == [r EXCEPT !.children = CanonicalSeq(k, @),
                                   !.output = Canonical(k, @)]
               New(r) == RowIn(k, r)
    <3>1. \A r \in g.rows : Old(r) = New(r)
      BY <1>9
    <3> HIDE DEF Old, New
    <3>2. {Old(r) : r \in g.rows} = {New(r) : r \in g.rows}
      BY <3>1
    <3> QED  BY <3>2 DEF Old, New
  <2> HIDE DEF h
  <2> QED  BY <1>2, <1>3, <1>7, <2>1
<1> HIDE DEF h
<1>11. h.rows = {RowIn(k, r) : r \in g.rows} /\ h.find = find /\ h.target = g.target
  BY <1>10
<1>12. \A u : Canonical(h, u) = Canonical(k, u)
  BY <1>7, <1>11 DEF Canonical
<1>13. \A r : RowIn(h, r) = RowIn(k, r)
  BY <1>12 DEF RowIn, CanonicalSeq
<1>14. h.rows = {RowIn(h, r) : r \in g.rows}
  BY <1>11, <1>13
<1>15. \A u : /\ Canonical(h, Canonical(g, u)) = Canonical(h, u)
              /\ Canonical(h, Canonical(h, u)) = Canonical(h, u)
  BY <1>4, <1>5, <1>11 DEF Canonical
<1>16. \A u \in D : Canonical(h, u) \in D /\ find[Canonical(h, u)] = Canonical(h, u)
  BY <1>4, <1>5, <1>11 DEF Canonical
<1>17. \A xs : CanonicalSeq(h, CanonicalSeq(h, xs)) = CanonicalSeq(h, xs)
  BY <1>15, CanonicalTwice
<1>18. Coherent(h)
  <2>1. h = [rows |-> h.rows, find |-> h.find, target |-> h.target]
    BY <1>10, <1>11
  <2>2. IsFiniteSet(h.rows)
    <3> DEFINE f == [r \in g.rows |-> RowIn(h, r)]
    <3>1. {f[r] : r \in g.rows} = h.rows
      BY <1>14
    <3>2. IsFiniteSet(g.rows)
      BY DEF Coherent
    <3> HIDE DEF f
    <3> QED  BY <3>1, <3>2, FiniteImage
  <2>3. IsFiniteSet(D) /\ \A v \in D : v.class \in 1 .. Cardinality(D)
    BY DEF Coherent
  <2>4. h.target \in D
    BY <1>11 DEF Coherent
  <2>5. ASSUME NEW x \in h.rows
        PROVE  /\ x = [constructor |-> x.constructor, children |-> x.children,
                       output |-> x.output]
               /\ IsFiniteSet(DOMAIN x.children)
               /\ CanonicalSeq(h, x.children) = x.children
               /\ OutputCoherent(h, x)
    <3>1. PICK r \in g.rows : x = RowIn(h, r)
      BY <1>14
    <3>2. x.constructor = r.constructor /\ x.children = CanonicalSeq(h, r.children)
          /\ x.output = Canonical(h, r.output)
      BY <3>1 DEF RowIn
    <3>3. x = [constructor |-> x.constructor, children |-> x.children,
               output |-> x.output]
      BY <3>1, <3>2 DEF RowIn
    <3>4. DOMAIN x.children = DOMAIN r.children
      BY <3>2 DEF CanonicalSeq
    <3>5. IsFiniteSet(DOMAIN r.children) /\ OutputCoherent(g, r)
      BY DEF Coherent
    <3>6. NoValue \notin D
      BY <2>3 DEF NoValue
    <3>7. OutputCoherent(h, x)
      <4>1. CASE r.constructor = Disjoint
        BY <3>2, <3>5, <3>6, <4>1, <1>4, <1>11 DEF OutputCoherent, Canonical
      <4>2. CASE r.constructor # Disjoint
        BY <3>2, <3>5, <4>2, <1>4, <1>11, <1>16 DEF OutputCoherent
      <4> QED  BY <4>1, <4>2
    <3> QED  BY <3>2, <3>3, <3>4, <3>5, <3>7, <1>17
  <2> QED  BY <2>1, <2>2, <2>3, <2>4, <2>5, <1>4, <1>5, <1>6, <1>11 DEF Coherent
<1>19. Continues(g, h)
  BY <1>4, <1>11, <1>14, <1>15 DEF Continues
<1>20. Sorts(h) \subseteq Sorts(g)
  BY <1>4, <1>11 DEF Sorts
<1>21. Shapes(h) \subseteq Shapes(g)
  <2>1. \A r : RowIn(h, r).constructor = r.constructor
               /\ DOMAIN RowIn(h, r).children = DOMAIN r.children
    BY DEF RowIn, CanonicalSeq
  <2> QED  BY <1>14, <2>1 DEF Shapes
<1> QED  BY <1>4, <1>11, <1>14, <1>18, <1>19, <1>20, <1>21 DEF Grows, h

\* One round of the rebuild, and what it keeps of the e-graph it began with.
RebuildStep(g, n, h) ==
  IF Conflicts(h) = {} THEN h
  ELSE LET p == CHOOSE q \in Conflicts(h) : TRUE IN Equated(h, p[1].output, p[2].output)
GrownFrom(g, h) == Grows(g, h, {}, {}) /\ h.target = g.target

AnyOf(s) == CHOOSE x \in s : TRUE

Rebuilding == INSTANCE FoldLemmas WITH Step <- RebuildStep, Pick <- AnyOf, Good <- GrownFrom

\* What the lemmas about folds and loops ask for, in every instance of them.
LEMMA FoldsInduct == Rebuilding!NatInducts
<1> SUFFICES ASSUME NEW T, 0 \in T, \A n \in Nat : n \in T => n + 1 \in T
             PROVE  Nat \subseteq T
  BY DEF Rebuilding!NatInducts
<1> QED  BY NatAll

LEMMA FiniteSized ==
  ASSUME NEW S, IsFiniteSet(S)
  PROVE  Rebuilding!Sized(S)
<1> DEFINE size == [s \in SUBSET S |-> Cardinality(s)]
<1>1. \A s \in SUBSET S : /\ Cardinality(s) \in Nat /\ (s = {} <=> Cardinality(s) = 0)
                          /\ Cardinality(s) <= Cardinality(S)
  BY FS_Subset, FS_CardinalityType, FS_EmptySet
<1>2. \A s \in SUBSET S : \A x \in s :
        s \ {x} \in SUBSET S /\ Cardinality(s \ {x}) = Cardinality(s) - 1
  BY FS_Subset, FS_RemoveElement
<1>3. S \in SUBSET S /\ \A s \in SUBSET S : size[s] = Cardinality(s)
  OBVIOUS
<1> HIDE DEF size
<1>4. Rebuilding!Sizes(size, S)
  BY <1>1, <1>2, <1>3 DEF Rebuilding!Sizes
<1> QED  BY <1>4 DEF Rebuilding!Sized

\* Whatever the rebuild joins, the e-graph has grown by equalities only.
LEMMA RebuiltGrows ==
  ASSUME NEW g, Coherent(g)
  PROVE  Grows(g, Rebuilt(g), {}, {}) /\ Rebuilt(g).target = g.target
<1>1. Rebuilt(g) = Rebuilding!Loop(g, g, Cardinality(DOMAIN g.find))
  BY DEF Rebuilt, Rebuilding!Loop, RebuildStep
<1>2. GrownFrom(g, g)
  BY GrowsNot DEF GrownFrom
<1>3. ASSUME NEW h, NEW n \in Nat, GrownFrom(g, h)
      PROVE  GrownFrom(g, RebuildStep(g, n, h))
  <2>1. CASE Conflicts(h) = {}
    BY <1>3, <2>1 DEF RebuildStep
  <2>2. CASE Conflicts(h) # {}
    <3>1. PICK p \in Conflicts(h) : RebuildStep(g, n, h) = Equated(h, p[1].output, p[2].output)
      BY <2>2 DEF RebuildStep
    <3> DEFINE kept == p[1].output
               lost == p[2].output
               k == Equated(h, kept, lost)
    <3>2. /\ p[1] \in h.rows /\ p[2] \in h.rows
          /\ p[1].constructor = p[2].constructor /\ kept # lost
      BY DEF Conflicts
    <3>3. Coherent(h) /\ OutputCoherent(h, p[1]) /\ OutputCoherent(h, p[2])
      BY <1>3, <3>2 DEF GrownFrom, Grows, Coherent
    <3>4. /\ kept \in DOMAIN h.find /\ h.find[kept] = kept
          /\ lost \in DOMAIN h.find /\ h.find[lost] = lost
      BY <3>2, <3>3 DEF OutputCoherent
    <3> HIDE DEF kept, lost
    <3>5. Grows(h, k, {}, {}) /\ k.target = h.target
      BY <3>3, <3>4, EquatedGrows
    <3> HIDE DEF k
    <3>6. Grows(g, k, {}, {})
      BY <1>3, <3>5, GrowsOn DEF GrownFrom
    <3>7. RebuildStep(g, n, h) = k
      BY <3>1 DEF k, kept, lost
    <3> QED  BY <1>3, <3>5, <3>6, <3>7 DEF GrownFrom
  <2> QED  BY <2>1, <2>2
<1>4. Cardinality(DOMAIN g.find) \in Nat
  BY FS_CardinalityType DEF Coherent
<1>5. GrownFrom(g, Rebuilding!Loop(g, g, Cardinality(DOMAIN g.find)))
  BY <1>2, <1>3, <1>4, FoldsInduct, Rebuilding!LoopGood
<1> QED  BY <1>1, <1>5 DEF GrownFrom

----------------------------------------------------------------------------
(* A fold of additions.                                                    *)

\* One addition of the fold, and what it keeps.
Addition(c, sort, from, shape) ==
  [constructor |-> c, sort |-> sort, from |-> from, shape |-> shape]
AddOne(p, vs, h) == Added(h, p.constructor, vs, p.sort)
AddedTo(p, h) ==
  Grows(p.from, h, {p.sort}, {<<p.constructor, p.shape>>}) /\ Keeps(p.from, h)

Adding == INSTANCE FoldLemmas WITH Step <- AddOne, Pick <- AnyOf, Good <- AddedTo

\* Rows of one constructor are added, for each of some lists of children.
LEMMA FoldGrows ==
  ASSUME NEW g, Coherent(g), NEW c, c # Disjoint, NEW sort,
         NEW S, IsFiniteSet(S),
         NEW D, IsFiniteSet(D), \A vs \in S : DOMAIN vs = D
  PROVE  LET h == AddedAll(g, c, S, sort) IN
         Grows(g, h, {sort}, {<<c, D>>}) /\ Keeps(g, h)
<1> DEFINE p == Addition(c, sort, g, D)
<1>1. p.constructor = c /\ p.sort = sort /\ p.from = g /\ p.shape = D
  BY DEF Addition
<1> HIDE DEF p
<1>2. AddedAll(g, c, S, sort) = Adding!Fold(p, g, S)
  BY <1>1 DEF AddedAll, FoldSet, MapThenFoldSet, Adding!Fold, AddOne, AnyOf
<1>3. AddedTo(p, g)
  BY <1>1, GrowsNot DEF AddedTo, Keeps
<1>4. ASSUME NEW vs \in S, NEW h, AddedTo(p, h) PROVE AddedTo(p, AddOne(p, vs, h))
  <2> DEFINE k == Added(h, c, vs, sort)
  <2>1. Coherent(h) /\ IsFiniteSet(DOMAIN vs) /\ DOMAIN vs = D
    BY <1>4 DEF Grows, AddedTo
  <2>2. Grows(h, k, {sort}, {<<c, DOMAIN vs>>}) /\ Keeps(h, k)
    BY <2>1, AddedGrows
  <2>3. AddOne(p, vs, h) = k
    BY <1>1 DEF AddOne
  <2> HIDE DEF k
  <2>4. Grows(g, k, {sort}, {<<c, D>>})
    BY <1>1, <1>4, <2>1, <2>2, GrowsOn DEF AddedTo
  <2>5. Keeps(g, k)
    BY <1>1, <1>4, <2>2 DEF Keeps, Grows, Continues, AddedTo
  <2> QED  BY <1>1, <2>3, <2>4, <2>5 DEF AddedTo
<1>5. \A s \in SUBSET S : s # {} => AnyOf(s) \in s
  BY DEF AnyOf
<1>6. Adding!NatInducts /\ Adding!Sized(S)
  BY FoldsInduct, FiniteSized
     DEF Rebuilding!NatInducts, Adding!NatInducts, Rebuilding!Sized, Adding!Sized,
         Rebuilding!Sizes, Adding!Sizes
<1>7. AddedTo(p, Adding!Fold(p, g, S))
  BY <1>3, <1>4, <1>5, <1>6, Adding!FoldGood
<1> QED  BY <1>1, <1>2, <1>7 DEF AddedTo

\* The target is found again by its representative.
LEMMA Retargeted ==
  ASSUME NEW g, NEW h, NEW sorts, NEW shapes, Grows(g, h, sorts, shapes)
  PROVE  LET k == [h EXCEPT !.target = Canonical(h, @)] IN
         Grows(g, k, sorts, shapes) /\ k.find[k.target] = k.target
<1> DEFINE k == [h EXCEPT !.target = Canonical(h, @)]
<1>1. Coherent(h) /\ Continues(g, h)
  BY DEF Grows
<1>2. h = [rows |-> h.rows, find |-> h.find, target |-> h.target]
  BY <1>1 DEF Coherent
<1>3. k = [rows |-> h.rows, find |-> h.find, target |-> Canonical(h, h.target)]
  BY <1>2
<1> HIDE DEF k
<1>4. /\ k.rows = h.rows /\ k.find = h.find /\ k.target = Canonical(h, h.target)
      /\ k = [rows |-> k.rows, find |-> k.find, target |-> k.target]
  BY <1>3
<1>5. /\ \A u : Canonical(k, u) = Canonical(h, u)
      /\ \A r : RowIn(k, r) = RowIn(h, r)
      /\ \A vs : CanonicalSeq(k, vs) = CanonicalSeq(h, vs)
      /\ \A r : OutputCoherent(h, r) => OutputCoherent(k, r)
  BY <1>4 DEF Canonical, RowIn, CanonicalSeq, OutputCoherent
<1>6. k.target \in DOMAIN k.find /\ k.find[k.target] = k.target
  BY <1>1, <1>4 DEF Coherent, Canonical
<1>7. Coherent(k)
  BY <1>1, <1>4, <1>5, <1>6 DEF Coherent
<1>8. Continues(g, k)
  <2>1. Canonical(k, k.target) = Canonical(k, g.target)
    BY <1>1, <1>4, <1>5, CoherentRows DEF Continues
  <2> QED  BY <1>1, <1>4, <1>5, <2>1 DEF Continues
<1>9. Sorts(k) = Sorts(h) /\ Shapes(k) = Shapes(h)
  BY <1>4 DEF Sorts, Shapes
<1> QED  BY <1>6, <1>7, <1>8, <1>9 DEF Grows, k

----------------------------------------------------------------------------
(* The inductive invariant.                                                *)

ActionOK(action) ==
  /\ action.constructor = None => DOMAIN action.positions \subseteq {1}
  /\ action.constructor # None =>
       /\ action.constructor \in DOMAIN schema.constructors
       /\ DOMAIN action.positions = DOMAIN schema.constructors[action.constructor].inputs

\* What is read of the parser's maps: they are closed under reference, finite,
\* and every action suits its constructor.
MapsOK ==
  /\ IsFiniteSet(DOMAIN expressions) /\ IsFiniteSet(DOMAIN memos)
  /\ IsFiniteSet(DOMAIN contexts)
  /\ Disjoint \notin DOMAIN schema.constructors
  /\ \A e \in DOMAIN expressions : LET node == expressions[e].node IN
       /\ node.tag \in {"Tok", "Seq", "Alt"}
       /\ node.tag = "Tok" => node.terminal \in DOMAIN schema.lexemes
       /\ node.tag = "Seq" => ActionOK(Index!ExpressionAction(e))
       /\ Index!IsLeaf(node) => /\ IsFiniteSet(node.symbol.token.payload)
                                /\ \A v \in node.symbol.token.payload : v.sort \in LexicalSorts(schema)
                                /\ Index!ExpressionAction(e) = [constructor |-> None, positions |-> <<>>]
  /\ \A c \in DOMAIN contexts :
       /\ contexts[c].tag \in {"Top", "Seq", "Alt"}
       /\ contexts[c].tag # "Top" => contexts[c].memo \in DOMAIN memos
       /\ contexts[c].tag = "Seq" =>
            /\ ActionOK(Index!ContextAction(c))
            /\ Index!ContextAction(c).constructor = None =>
                 DOMAIN Index!ContextAction(c).positions = {1}
  /\ \A m \in DOMAIN memos : Range(memos[m].parents) \subseteq DOMAIN contexts

EGraphOK == EGraphWellTyped(schema, egraph)

SchemaOK == \A c \in DOMAIN schema.constructors : ConstructorWellTyped(schema, c)

\* A set of facts that the rules add nothing to.
Closed(X) == Index!Implied(X) \subseteq X

\* The graph as a log.
PackedChildren ==
  UNION {{ChildAppended(e, child) : child \in Range(expressions[e].node.children)} :
         e \in {x \in DOMAIN expressions : expressions[x].node.tag = "Alt"}}
GraphLog == Index!InitialLog \cup PackedChildren

\* The indexes tell of nothing that the maps do not hold.
Bounded(known) ==
  /\ known.consumers_by_expression \subseteq
       (UNION {{<<child, Index!ExpressionConsumer(e)>> : child \in Range(Index!Selected(e))} :
               e \in DOMAIN expressions})
         \cup (UNION {{<<child, Index!ContextConsumer(c)>> :
                         child \in Range(Index!ContextChildren(c)) \ {Index!Hole}} :
                      c \in {x \in DOMAIN contexts : contexts[x].tag = "Seq"}})
  /\ {x[2] : x \in known.consumers_by_constructor} \subseteq
       {Index!ExpressionConsumer(e) : e \in DOMAIN expressions}
         \cup {Index!ContextConsumer(c) : c \in DOMAIN contexts}
  /\ {x[2] : x \in known.expressions_by_terminal} \subseteq DOMAIN expressions
  /\ known.memos_by_context \subseteq
       UNION {{<<c, m>> : c \in Range(memos[m].parents)} : m \in DOMAIN memos}
  /\ known.contexts_by_outer_memo \subseteq
       {<<contexts[c].memo, c>> : c \in {x \in DOMAIN contexts : contexts[x].tag # "Top"}}
  /\ known.top_contexts \subseteq {c \in DOMAIN contexts : contexts[c].tag = "Top"}
IndexTrue == Bounded(indexes)

\* Every fact read follows.
Supported == \A X : Closed(X) => Index!Reading \subseteq X

\* Every fact has one of the three forms.
IsFact(f) ==
  \/ f = Index!Produces(f.expression, f.value)
  \/ f = Index!RealizableFor(f.site, f.value)
  \/ f = Index!Realizable(f.site)
Shaped == \A f \in closure : IsFact(f)

\* Every event is a fact, pending once.
Stack(s, facts) ==
  /\ s \in Seq(SUBSET facts)
  /\ \A i, j \in DOMAIN s : s[i] # {} /\ (i # j => s[i] \cap s[j] = {})
AgendaOK == Stack(agenda, closure)

----------------------------------------------------------------------------
(* Facts, and the rules as single steps.                                   *)

\* Index has the library's operators and those of EGraph under names of its own.
LEMMA IndexNames ==
  /\ \A f : Index!Range(f) = Range(f)
  /\ \A g, v : Index!Canonical(g, v) = Canonical(g, v)
  /\ \A g, u, v : Index!Equivalent(g, u, v) <=> Canonical(g, u) = Canonical(g, v)
  /\ \A g, vs : Index!CanonicalSeq(g, vs) = CanonicalSeq(g, vs)
  /\ \A g, c : Index!Applications(g, c) = {r \in g.rows : r.constructor = c}
  /\ Index!None = None /\ Index!Hole = None /\ Index!Bottom = Bottom
  /\ \A e : Index!NewExpression(e) = NewExpression(e)
  /\ \A c : Index!NewContext(c) = NewContext(c)
  /\ \A m, c : Index!ParentAppended(m, c) = ParentAppended(m, c)
  /\ \A a, e : Index!ChildAppended(a, e) = ChildAppended(a, e)
BY DEF Index!Range, Range, Index!Canonical, Canonical, Index!Equivalent,
       Index!CanonicalSeq, CanonicalSeq, Index!Applications,
       Index!None, None, Index!Hole, Index!Bottom, Bottom,
       Index!NewExpression, NewExpression, Index!NewContext, NewContext,
       Index!ParentAppended, ParentAppended, Index!ChildAppended, ChildAppended

LEMMA FactForms ==
  /\ \A e, v : LET f == Index!Produces(e, v) IN
       f.fact = "Produces" /\ f.expression = e /\ f.value = v
       /\ Index!Canonized(f) = Index!Produces(e, Canonical(egraph, v))
  /\ \A s, v : LET f == Index!RealizableFor(s, v) IN
       f.fact = "RealizableFor" /\ f.site = s /\ f.value = v
       /\ Index!Canonized(f) = Index!RealizableFor(s, Canonical(egraph, v))
  /\ \A s : LET f == Index!Realizable(s) IN
       f.fact = "Realizable" /\ f.site = s /\ Index!Canonized(f) = f
BY DEF Index!Produces, Index!RealizableFor, Index!Realizable, Index!Canonized,
       Index!Canonical, Canonical

\* A fact is told by its kind.
LEMMA FactKinds ==
  ASSUME NEW f, IsFact(f)
  PROVE  /\ f.fact \in {"Produces", "RealizableFor", "Realizable"}
         /\ f.fact = "Produces" => f = Index!Produces(f.expression, f.value)
         /\ f.fact = "RealizableFor" => f = Index!RealizableFor(f.site, f.value)
         /\ f.fact = "Realizable" => f = Index!Realizable(f.site)
BY DEF IsFact, Index!Produces, Index!RealizableFor, Index!Realizable

\* Sites of the two kinds differ.
LEMMA SiteForms ==
  /\ \A m : Index!MemoSite(m).site = "Memo" /\ Index!MemoSite(m).id = m
  /\ \A c : Index!ContextSite(c).site = "Context" /\ Index!ContextSite(c).id = c
BY DEF Index!MemoSite, Index!ContextSite

LEMMA ValuesInForm ==
  ASSUME NEW X, NEW e, NEW v
  PROVE  Index!Produces(e, v) \in X => v \in Index!ValuesIn(X, e)
BY DEF Index!ValuesIn, Index!Produces

LEMMA DemandsInForm ==
  ASSUME NEW X, NEW s, NEW v
  PROVE  Index!RealizableFor(s, v) \in X => v \in Index!DemandsIn(X, s)
BY DEF Index!DemandsIn, Index!RealizableFor

\* What a closed set holds of an expression, a context and a memo.
LEMMA ClosedExpression ==
  ASSUME NEW X, Closed(X), NEW e \in DOMAIN expressions,
         NEW v \in Index!ImpliedValues(X, e)
  PROVE  Index!Produces(e, v) \in X
BY DEF Closed, Index!Implied

LEMMA ClosedContext ==
  ASSUME NEW X, Closed(X), NEW c \in DOMAIN contexts
  PROVE  Index!ImpliedAt(X, c) \subseteq X
BY DEF Closed, Index!Implied

LEMMA ClosedMemo ==
  ASSUME NEW X, Closed(X), NEW m \in DOMAIN memos, NEW c \in Range(memos[m].parents)
  PROVE  /\ \A v : Index!RealizableFor(Index!ContextSite(c), v) \in X =>
                     Index!RealizableFor(Index!MemoSite(m), v) \in X
         /\ Index!Realizable(Index!ContextSite(c)) \in X =>
              Index!Realizable(Index!MemoSite(m)) \in X
<1> DEFINE above == {Index!ContextSite(d) : d \in Range(memos[m].parents)}
<1>1. Index!ImpliedBelow(X, m) \subseteq X
  BY DEF Closed, Index!Implied
<1>2. \A f \in X : f.fact # "Produces" /\ f.site \in above =>
        [f EXCEPT !.site = Index!MemoSite(m)] \in X
  BY <1>1, IndexNames DEF Index!ImpliedBelow
<1>3. Index!ContextSite(c) \in above
  OBVIOUS
<1> HIDE DEF above
<1>4. \A v, s, t : [Index!RealizableFor(s, v) EXCEPT !.site = t] = Index!RealizableFor(t, v)
                   /\ [Index!Realizable(s) EXCEPT !.site = t] = Index!Realizable(t)
  BY DEF Index!RealizableFor, Index!Realizable
<1> QED  BY <1>2, <1>3, <1>4, FactForms

----------------------------------------------------------------------------
(* What is inserted follows from what is known.                            *)

\* X is closed and has what the index has.
Holds(X) == Closed(X) /\ Index!Reading \subseteq X

\* What the index has, seen in X.
LEMMA KnownValues ==
  ASSUME Shaped, NEW X, Holds(X)
  PROVE  /\ \A e : \A v \in Index!Values(e) : Canonical(egraph, v) \in Index!ValuesIn(X, e)
         /\ \A s : \A v \in Index!Demands(s) : Canonical(egraph, v) \in Index!DemandsIn(X, s)
         /\ \A s : \A v \in Index!Demands(s) : Index!RealizableFor(s, Canonical(egraph, v)) \in X
         /\ \A s : Index!Realizable(s) \in closure => Index!Realizable(s) \in X
<1>1. \A f \in closure : Index!Canonized(f) \in X
  BY DEF Holds, Index!Reading
<1>2. ASSUME NEW e, NEW v \in Index!Values(e)
      PROVE  Canonical(egraph, v) \in Index!ValuesIn(X, e)
  <2>1. PICK f \in closure : f.fact = "Produces" /\ f.expression = e /\ f.value = v
    BY <1>2 DEF Index!Values
  <2>2. f = Index!Produces(e, v)
    BY <2>1, FactKinds DEF Shaped
  <2>3. Index!Produces(e, Canonical(egraph, v)) \in X
    BY <1>1, <2>2, FactForms
  <2> QED  BY <2>3, ValuesInForm
<1>3. ASSUME NEW s, NEW v \in Index!Demands(s)
      PROVE  /\ Canonical(egraph, v) \in Index!DemandsIn(X, s)
             /\ Index!RealizableFor(s, Canonical(egraph, v)) \in X
  <2>1. PICK f \in closure : f.fact = "RealizableFor" /\ f.site = s /\ f.value = v
    BY <1>3 DEF Index!Demands
  <2>2. f = Index!RealizableFor(s, v)
    BY <2>1, FactKinds DEF Shaped
  <2>3. Index!RealizableFor(s, Canonical(egraph, v)) \in X
    BY <1>1, <2>2, FactForms
  <2> QED  BY <2>3, DemandsInForm
<1>4. \A s : Index!Realizable(s) \in closure => Index!Realizable(s) \in X
  BY <1>1, FactForms
<1> QED  BY <1>2, <1>3, <1>4

LEMMA KnownProduces ==
  ASSUME Shaped, NEW X, Holds(X), NEW e, NEW v, Index!HasProduces(e, v)
  PROVE  Canonical(egraph, v) \in Index!ValuesIn(X, e)
<1>1. PICK w \in Index!Values(e) : Canonical(egraph, w) = Canonical(egraph, v)
  BY IndexNames DEF Index!HasProduces
<1> QED  BY <1>1, KnownValues

\* Rows hold canonical values only, as many as their constructor asks for.
LEMMA RowFacts ==
  ASSUME EGraphOK, NEW r \in egraph.rows
  PROVE  /\ Canonical(egraph, r.output) = r.output
         /\ \A a \in DOMAIN r.children : Canonical(egraph, r.children[a]) = r.children[a]
         /\ r.constructor \in DOMAIN schema.constructors =>
              DOMAIN r.children = DOMAIN schema.constructors[r.constructor].inputs
<1>1. CanonicalSeq(egraph, r.children) = r.children
  BY DEF EGraphOK, EGraphWellTyped, Coherent
<1>2. \A a \in DOMAIN r.children : CanonicalSeq(egraph, r.children)[a] = Canonical(egraph, r.children[a])
  BY DEF CanonicalSeq
<1>3. Canonical(egraph, r.output) = r.output
  BY CoherentRows DEF EGraphOK, EGraphWellTyped, RowIn
<1>4. RowWellTyped(schema, r)
  BY DEF EGraphOK, EGraphWellTyped
<1> QED  BY <1>1, <1>2, <1>3, <1>4 DEF RowWellTyped

\* The row's children but those at `given` are known; those at `given` fit.
Matches(r, children, given) ==
  \A a \in DOMAIN children \ given :
    children[a] = None \/ Index!HasProduces(children[a], r.children[a])
Suits(X, r, children, given) ==
  \A a \in given : Canonical(egraph, r.children[a]) \in Index!ValuesIn(X, children[a])

LEMMA MatchingRows ==
  ASSUME NEW rows, NEW children, NEW given
  PROVE  Index!RowsMatching(rows, children, given)
           = {r \in rows : Matches(r, children, given)}
BY IndexNames DEF Index!RowsMatching, Matches

\* A row the index takes to match does fit.
LEMMA MatchingFits ==
  ASSUME Shaped, EGraphOK, NEW X, Holds(X),
         NEW r \in egraph.rows, r.constructor \in DOMAIN schema.constructors,
         NEW children,
         DOMAIN children = DOMAIN schema.constructors[r.constructor].inputs,
         NEW given, Matches(r, children, given), Suits(X, r, children, given)
  PROVE  Index!Fits(X, r, children)
<1>1. ASSUME NEW a \in DOMAIN children
      PROVE  children[a] = None \/ r.children[a] \in Index!ValuesIn(X, children[a])
  <2>1. Canonical(egraph, r.children[a]) = r.children[a]
    BY RowFacts
  <2>2. CASE a \in given
    BY <2>1, <2>2 DEF Suits
  <2>3. CASE a \notin given
    BY <2>1, <2>3, KnownProduces DEF Matches
  <2> QED  BY <2>2, <2>3
<1> QED  BY <1>1, IndexNames DEF Index!Fits

\* An expression that constructs has a child for every input.
LEMMA ConstructingExpression ==
  ASSUME MapsOK, NEW e \in DOMAIN expressions, expressions[e].node.tag = "Seq",
         Index!ExpressionAction(e).constructor # None
  PROVE  LET k == Index!ExpressionAction(e).constructor IN
         /\ k \in DOMAIN schema.constructors
         /\ DOMAIN Index!ExpressionChildren(e) = DOMAIN schema.constructors[k].inputs
         /\ ~Index!IsLeaf(expressions[e].node)
<1>1. ActionOK(Index!ExpressionAction(e))
  BY DEF MapsOK
<1>2. DOMAIN Index!ExpressionChildren(e) = DOMAIN Index!ExpressionAction(e).positions
  BY DEF Index!ExpressionChildren
<1>3. ASSUME Index!IsLeaf(expressions[e].node) PROVE FALSE
  <2>1. Index!ExpressionAction(e) = [constructor |-> None, positions |-> <<>>]
    BY <1>3 DEF MapsOK
  <2> QED  BY <2>1
<1> QED  BY <1>1, <1>2, <1>3 DEF ActionOK

\* The value of a row that fits is one of the expression.
LEMMA ConstructedValue ==
  ASSUME MapsOK, NEW X, Closed(X), NEW e \in DOMAIN expressions,
         expressions[e].node.tag = "Seq",
         Index!ExpressionAction(e).constructor # None,
         NEW r \in egraph.rows, r.constructor = Index!ExpressionAction(e).constructor,
         Index!Fits(X, r, Index!ExpressionChildren(e))
  PROVE  Index!Produces(e, r.output) \in X
<1>1. ~Index!IsLeaf(expressions[e].node)
  BY ConstructingExpression
<1>2. r \in Index!ExpressionRows(e)
  BY IndexNames DEF Index!ExpressionRows
<1>3. r.output \in Index!ImpliedValues(X, e)
  BY <1>1, <1>2, IndexNames DEF Index!ImpliedValues
<1> QED  BY <1>3, ClosedExpression

\* Any other expression has the values of its selected children.
LEMMA SelectedValue ==
  ASSUME NEW X, Closed(X), NEW e \in DOMAIN expressions,
         expressions[e].node.tag # "Tok", ~Index!IsLeaf(expressions[e].node),
         expressions[e].node.tag = "Seq" => Index!ExpressionAction(e).constructor = None,
         NEW child \in Range(Index!Selected(e)), NEW v \in Index!ValuesIn(X, child)
  PROVE  Index!Produces(e, v) \in X
<1>1. v \in Index!ImpliedValues(X, e)
  BY IndexNames DEF Index!ImpliedValues
<1> QED  BY <1>1, ClosedExpression

\* `recheck_expression`
LEMMA RecheckedExpression ==
  ASSUME MapsOK, EGraphOK, Shaped, NEW X, Holds(X), NEW e \in DOMAIN expressions,
         NEW f \in Index!RecheckExpression(e)
  PROVE  Index!Canonized(f) \in X
<1> DEFINE node == expressions[e].node
           k == Index!ExpressionAction(e).constructor
           rows == Index!RowsMatching(Index!ExpressionRows(e), Index!ExpressionChildren(e), {})
<1>0. Closed(X)
  BY DEF Holds
<1>5. Index!IsLeaf(node) => node.tag # "Tok"
  BY DEF Index!IsLeaf
<1>1. CASE node.tag = "Tok"
  <2>1. PICK v \in Index!TerminalValues(node.terminal) : f = Index!Produces(e, v)
    BY <1>1 DEF Index!RecheckExpression
  <2>2. PICK r \in egraph.rows : v \in Range(r.children)
    BY <2>1, IndexNames DEF Index!TerminalValues
  <2>3. Canonical(egraph, v) = v
    BY <2>2, RowFacts DEF Range
  <2>4. v \in Index!ImpliedValues(X, e)
    BY <1>1, <1>5, <2>1 DEF Index!ImpliedValues
  <2> QED  BY <1>0, <2>1, <2>3, <2>4, ClosedExpression, FactForms
<1>2. CASE Index!IsLeaf(node)
  <2>1. node.tag = "Seq" /\ node.symbol.tag = "Token"
    BY <1>2 DEF Index!IsLeaf
  <2>2. PICK v \in node.symbol.token.payload : f = Index!Produces(e, v)
    <3>1. Index!ExpressionAction(e).constructor = None
      BY <1>2 DEF MapsOK
    <3>2. node.tag # "Tok"
      BY <2>1
    <3> QED  BY <2>1, <3>1, <3>2, IndexNames DEF Index!RecheckExpression
  <2>3. Canonical(egraph, v) \in Index!ImpliedValues(X, e)
    BY <1>2, <2>1, <2>2, IndexNames DEF Index!ImpliedValues
  <2> QED  BY <1>0, <2>2, <2>3, ClosedExpression, FactForms
<1>3. CASE ~Index!IsLeaf(node) /\ node.tag = "Seq" /\ k # None
  <2>1. PICK r \in rows : f = Index!Produces(e, r.output)
    BY <1>3, IndexNames DEF Index!RecheckExpression, Index!IsLeaf
  <2>2. /\ r \in egraph.rows /\ r.constructor = k
        /\ Matches(r, Index!ExpressionChildren(e), {})
    BY IndexNames, MatchingRows DEF Index!ExpressionRows
  <2>5. k \in DOMAIN schema.constructors
        /\ DOMAIN Index!ExpressionChildren(e) = DOMAIN schema.constructors[k].inputs
    BY <1>3, ConstructingExpression
  <2> HIDE DEF k
  <2>6. Suits(X, r, Index!ExpressionChildren(e), {})
    BY DEF Suits
  <2>3. Index!Fits(X, r, Index!ExpressionChildren(e))
    BY <2>2, <2>5, <2>6, MatchingFits
  <2>4. Index!Produces(e, r.output) \in X
    BY <1>0, <1>3, <2>2, <2>3, ConstructedValue DEF k
  <2> QED  BY <2>1, <2>2, <2>4, RowFacts, FactForms
<1>4. CASE ~Index!IsLeaf(node) /\ node.tag # "Tok" /\ (node.tag = "Seq" => k = None)
  <2>1. PICK child \in Range(Index!Selected(e)) :
          \E v \in Index!Values(child) : f = Index!Produces(e, v)
    BY <1>4, IndexNames DEF Index!RecheckExpression, Index!IsLeaf
  <2>2. PICK v \in Index!Values(child) : f = Index!Produces(e, v)
    BY <2>1
  <2>3. Canonical(egraph, v) \in Index!ValuesIn(X, child)
    BY <2>2, KnownValues
  <2>4. Index!Produces(e, Canonical(egraph, v)) \in X
    BY <1>0, <1>4, <2>3, SelectedValue
  <2> QED  BY <2>2, <2>4, FactForms
<1> QED  BY <1>1, <1>2, <1>3, <1>4, <1>5

\* Tokens and leaves select nothing.
LEMMA LeafSelects ==
  ASSUME MapsOK, NEW e \in DOMAIN expressions, NEW child \in Range(Index!Selected(e))
  PROVE  expressions[e].node.tag # "Tok" /\ ~Index!IsLeaf(expressions[e].node)
<1>1. CASE expressions[e].node.tag = "Tok"
  <2>1. Index!Selected(e) = <<>>
    BY <1>1 DEF Index!Selected
  <2> QED  BY <2>1 DEF Range
<1>2. CASE Index!IsLeaf(expressions[e].node)
  <2>1. expressions[e].node.tag = "Seq"
    BY <1>2 DEF Index!IsLeaf
  <2>2. Index!Selected(e) = Index!ExpressionChildren(e)
    BY <2>1 DEF Index!Selected
  <2>3. Index!ExpressionAction(e).positions = <<>>
    BY <1>2 DEF MapsOK
  <2>4. DOMAIN Index!ExpressionChildren(e) = {}
    BY <2>3 DEF Index!ExpressionChildren
  <2> QED  BY <2>2, <2>4 DEF Range
<1> QED  BY <1>1, <1>2

\* `propagate_sequence_value`, and its counterpart for alternatives.
LEMMA PropagatedValue ==
  ASSUME MapsOK, EGraphOK, Shaped, NEW X, Holds(X), NEW e \in DOMAIN expressions,
         NEW child \in Range(Index!Selected(e)),
         NEW v, Canonical(egraph, v) \in Index!ValuesIn(X, child),
         NEW f \in Index!PropagateValue(e, child, v)
  PROVE  Index!Canonized(f) \in X
<1> DEFINE node == expressions[e].node
           k == Index!ExpressionAction(e).constructor
           children == Index!ExpressionChildren(e)
<1>0. Closed(X)
  BY DEF Holds
<1>1. CASE node.tag = "Seq" /\ k # None
  <2>1. PICK a \in DOMAIN children :
          /\ children[a] = child
          /\ \E r \in Index!ExpressionRows(e) :
               /\ Index!Equivalent(egraph, r.children[a], v)
               /\ Matches(r, children, {a})
               /\ f = Index!Produces(e, r.output)
    BY <1>1, IndexNames, MatchingRows DEF Index!PropagateValue
  <2>2. PICK r \in Index!ExpressionRows(e) :
          /\ Index!Equivalent(egraph, r.children[a], v)
          /\ Matches(r, children, {a})
          /\ f = Index!Produces(e, r.output)
    BY <2>1
  <2>3. r \in egraph.rows /\ r.constructor = k
    BY <2>2, IndexNames DEF Index!ExpressionRows
  <2>4. Canonical(egraph, r.children[a]) = Canonical(egraph, v)
    BY <2>2, IndexNames
  <2>5. k \in DOMAIN schema.constructors
        /\ DOMAIN children = DOMAIN schema.constructors[k].inputs
    BY <1>1, ConstructingExpression
  <2> HIDE DEF children, k
  <2>6. Suits(X, r, children, {a})
    BY <2>1, <2>4 DEF Suits
  <2>7. Index!Fits(X, r, children)
    BY <2>2, <2>3, <2>5, <2>6, MatchingFits
  <2>8. Index!Produces(e, r.output) \in X
    BY <1>0, <1>1, <2>3, <2>7, ConstructedValue DEF children, k
  <2> QED  BY <2>2, <2>3, <2>8, RowFacts, FactForms
<1>2. CASE ~(node.tag = "Seq" /\ k # None)
  <2>1. f = Index!Produces(e, v)
    BY <1>2, IndexNames DEF Index!PropagateValue
  <2>2. Index!Produces(e, Canonical(egraph, v)) \in X
    BY <1>0, <1>2, LeafSelects, SelectedValue
  <2> QED  BY <2>1, <2>2, FactForms
<1> QED  BY <1>1, <1>2

----------------------------------------------------------------------------
(* Contexts.                                                               *)

\* A context that constructs has a child, or the hole, for every input.
LEMMA ConstructingContext ==
  ASSUME MapsOK, NEW c \in DOMAIN contexts, contexts[c].tag = "Seq",
         Index!ContextAction(c).constructor # None
  PROVE  LET k == Index!ContextAction(c).constructor IN
         /\ k \in DOMAIN schema.constructors
         /\ DOMAIN Index!ContextChildren(c) = DOMAIN schema.constructors[k].inputs
<1>1. ActionOK(Index!ContextAction(c))
  BY DEF MapsOK
<1>2. DOMAIN Index!ContextChildren(c) = DOMAIN Index!ContextAction(c).positions
  BY DEF Index!ContextChildren
<1> QED  BY <1>1, <1>2 DEF ActionOK

\* Which fact a row asks for.
LEMMA HoleFacts ==
  ASSUME NEW c, NEW r, NEW s,
         DOMAIN Index!ContextChildren(c) \subseteq DOMAIN r.children,
         \A a \in DOMAIN r.children : s.children[a] = Canonical(egraph, r.children[a])
  PROVE  Index!Canonized(Index!HoleFact(c, r)) = Index!HoleFact(c, s)
<1> DEFINE children == Index!ContextChildren(c)
           hole == CHOOSE a \in DOMAIN children : children[a] = None
<1>1. CASE None \in Range(children)
  <2>1. hole \in DOMAIN children
    BY <1>1 DEF Range
  <2>2. \A x : Index!HoleFact(c, x) = Index!RealizableFor(Index!ContextSite(c), x.children[hole])
    BY <1>1, IndexNames DEF Index!HoleFact
  <2> QED  BY <2>1, <2>2, FactForms
<1>2. CASE None \notin Range(children)
  <2>1. \A x : Index!HoleFact(c, x) = Index!Realizable(Index!ContextSite(c))
    BY <1>2, IndexNames DEF Index!HoleFact
  <2> QED  BY <2>1, FactForms
<1> QED  BY <1>1, <1>2

\* A context hands on what its memo has, by its kind.
LEMMA ContextTarget ==
  ASSUME NEW X, Closed(X), NEW c \in DOMAIN contexts, contexts[c].tag = "Top"
  PROVE  Index!RealizableFor(Index!ContextSite(c), Canonical(egraph, egraph.target)) \in X
BY ClosedContext, IndexNames DEF Index!ImpliedAt

LEMMA ContextRealizable ==
  ASSUME NEW X, Closed(X), NEW c \in DOMAIN contexts, contexts[c].tag # "Top",
         Index!Realizable(Index!MemoSite(contexts[c].memo)) \in X
  PROVE  Index!Realizable(Index!ContextSite(c)) \in X
BY ClosedContext DEF Index!ImpliedAt

LEMMA ContextDemand ==
  ASSUME NEW X, Closed(X), NEW c \in DOMAIN contexts, contexts[c].tag # "Top",
         NEW v \in Index!DemandsIn(X, Index!MemoSite(contexts[c].memo)),
         NEW f \in Index!ImpliedDemand(X, c, v)
  PROVE  f \in X
BY ClosedContext DEF Index!ImpliedAt

LEMMA ConstructedDemand ==
  ASSUME NEW X, NEW c, contexts[c].tag = "Seq",
         Index!ContextAction(c).constructor # None,
         NEW r \in egraph.rows, r.constructor = Index!ContextAction(c).constructor,
         Index!Fits(X, r, Index!ContextChildren(c))
  PROVE  Index!HoleFact(c, r) \in Index!ImpliedDemand(X, c, r.output)
BY IndexNames DEF Index!ImpliedDemand

LEMMA ProjectedDemand ==
  ASSUME NEW X, NEW c, NEW v, contexts[c].tag = "Seq",
         Index!ContextAction(c).constructor = None
  PROVE  /\ Head(Index!ContextChildren(c)) = None =>
              Index!RealizableFor(Index!ContextSite(c), v) \in Index!ImpliedDemand(X, c, v)
         /\ Head(Index!ContextChildren(c)) # None
              /\ v \in Index!ValuesIn(X, Head(Index!ContextChildren(c))) =>
                Index!Realizable(Index!ContextSite(c)) \in Index!ImpliedDemand(X, c, v)
BY IndexNames DEF Index!ImpliedDemand

LEMMA AlternativeDemand ==
  ASSUME NEW X, NEW c, NEW v, contexts[c].tag = "Alt"
  PROVE  Index!RealizableFor(Index!ContextSite(c), v) \in Index!ImpliedDemand(X, c, v)
BY DEF Index!ImpliedDemand

\* A row whose output is demanded and that matches but at `given`.
LEMMA DemandedRow ==
  ASSUME MapsOK, EGraphOK, Shaped, NEW X, Holds(X),
         NEW c \in DOMAIN contexts, contexts[c].tag = "Seq",
         Index!ContextAction(c).constructor # None,
         NEW demand,
         Canonical(egraph, demand) \in Index!DemandsIn(X, Index!MemoSite(contexts[c].memo)),
         NEW r \in Index!DemandedRows(c, demand),
         NEW given, Matches(r, Index!ContextChildren(c), given),
         Suits(X, r, Index!ContextChildren(c), given)
  PROVE  Index!Canonized(Index!HoleFact(c, r)) \in X
<1> DEFINE k == Index!ContextAction(c).constructor
           children == Index!ContextChildren(c)
<1>1. /\ r \in egraph.rows /\ r.constructor = k
      /\ Canonical(egraph, r.output) = Canonical(egraph, demand)
  BY IndexNames DEF Index!DemandedRows
<1>2. k \in DOMAIN schema.constructors /\ DOMAIN children = DOMAIN schema.constructors[k].inputs
  BY ConstructingContext
<1>3. /\ r.output = Canonical(egraph, demand)
      /\ DOMAIN children = DOMAIN r.children
      /\ \A a \in DOMAIN r.children : r.children[a] = Canonical(egraph, r.children[a])
  BY <1>1, <1>2, RowFacts
<1>4. Index!Fits(X, r, children)
  BY <1>1, <1>2, MatchingFits
<1>5. Index!HoleFact(c, r) \in Index!ImpliedDemand(X, c, Canonical(egraph, demand))
  BY <1>1, <1>3, <1>4, ConstructedDemand
<1>6. Index!HoleFact(c, r) \in X
  BY <1>5, ContextDemand DEF Holds
<1> QED  BY <1>3, <1>6, HoleFacts

\* `propagate_context_demand`
LEMMA PropagatedDemand ==
  ASSUME MapsOK, EGraphOK, Shaped, NEW X, Holds(X),
         NEW c \in DOMAIN contexts, contexts[c].tag # "Top",
         NEW v,
         Canonical(egraph, v) \in Index!DemandsIn(X, Index!MemoSite(contexts[c].memo)),
         NEW f \in Index!PropagateDemand(c, v)
  PROVE  Index!Canonized(f) \in X
<1> DEFINE k == Index!ContextAction(c).constructor
           children == Index!ContextChildren(c)
           w == Canonical(egraph, v)
<1>0. Closed(X) /\ contexts[c].tag \in {"Seq", "Alt"}
  BY DEF Holds, MapsOK
<1>1. CASE contexts[c].tag = "Alt"
  <2>1. f = Index!RealizableFor(Index!ContextSite(c), v)
    BY <1>1 DEF Index!PropagateDemand
  <2>2. Index!RealizableFor(Index!ContextSite(c), w) \in X
    BY <1>0, <1>1, AlternativeDemand, ContextDemand
  <2> QED  BY <2>1, <2>2, FactForms
<1>2. CASE contexts[c].tag = "Seq" /\ k # None
  <2>1. PICK r \in Index!DemandedRows(c, v) : Matches(r, children, {}) /\ f = Index!HoleFact(c, r)
    BY <1>2, IndexNames, MatchingRows DEF Index!PropagateDemand
  <2>2. Suits(X, r, children, {})
    BY DEF Suits
  <2> QED  BY <1>2, <2>1, <2>2, DemandedRow
<1>3. CASE contexts[c].tag = "Seq" /\ k = None /\ Head(children) = None
  <2>1. f = Index!RealizableFor(Index!ContextSite(c), v)
    BY <1>3, IndexNames DEF Index!PropagateDemand
  <2>2. Index!RealizableFor(Index!ContextSite(c), w) \in X
    BY <1>0, <1>3, ProjectedDemand, ContextDemand
  <2> QED  BY <2>1, <2>2, FactForms
<1>4. CASE contexts[c].tag = "Seq" /\ k = None /\ Head(children) # None
  <2>1. f = Index!Realizable(Index!ContextSite(c)) /\ Index!HasProduces(Head(children), v)
    BY <1>4, IndexNames DEF Index!PropagateDemand
  <2>2. w \in Index!ValuesIn(X, Head(children))
    BY <2>1, KnownProduces
  <2>3. Index!Realizable(Index!ContextSite(c)) \in X
    BY <1>0, <1>4, <2>2, ProjectedDemand, ContextDemand
  <2> QED  BY <2>1, <2>3, FactForms
<1> QED  BY <1>0, <1>1, <1>2, <1>3, <1>4

\* `propagate_context_value`
LEMMA PropagatedContextValue ==
  ASSUME MapsOK, EGraphOK, Shaped, NEW X, Holds(X),
         NEW c \in DOMAIN contexts, contexts[c].tag = "Seq",
         NEW e \in Range(Index!ContextChildren(c)), e # None,
         NEW v, Canonical(egraph, v) \in Index!ValuesIn(X, e),
         NEW f \in Index!PropagateContextValue(c, e, v)
  PROVE  Index!Canonized(f) \in X
<1> DEFINE k == Index!ContextAction(c).constructor
           children == Index!ContextChildren(c)
           outer == Index!MemoSite(contexts[c].memo)
<1>0. Closed(X)
  BY DEF Holds
<1>1. CASE k # None
  <2> DEFINE Rows(demand, a) == {x \in Index!DemandedRows(c, demand) :
                                   Index!Equivalent(egraph, x.children[a], v)}
             Told(demand, a) == {Index!HoleFact(c, r) :
                                   r \in Index!RowsMatching(Rows(demand, a), children, {a})}
  <2>1. Index!PropagateContextValue(c, e, v) =
          UNION {Told(demand, a) : demand \in Index!Demands(outer),
                                   a \in {x \in DOMAIN children : children[x] = e}}
    BY <1>1, IndexNames DEF Index!PropagateContextValue
  <2> HIDE DEF Told
  <2>2. PICK demand \in Index!Demands(outer), a \in DOMAIN children :
          children[a] = e /\ f \in Told(demand, a)
    BY <2>1
  <2>3. children[a] = e /\ \E r \in Index!DemandedRows(c, demand) :
          /\ Index!Equivalent(egraph, r.children[a], v)
          /\ Matches(r, children, {a}) /\ f = Index!HoleFact(c, r)
    BY <2>2, MatchingRows DEF Told
  <2>4. PICK r \in Index!DemandedRows(c, demand) :
          /\ Canonical(egraph, r.children[a]) = Canonical(egraph, v)
          /\ Matches(r, children, {a}) /\ f = Index!HoleFact(c, r)
    BY <2>3, IndexNames
  <2>5. Canonical(egraph, demand) \in Index!DemandsIn(X, outer)
    BY KnownValues
  <2>6. Suits(X, r, children, {a})
    BY <2>3, <2>4 DEF Suits
  <2> QED  BY <1>1, <2>4, <2>5, <2>6, DemandedRow
<1>2. CASE k = None
  <2>1. /\ f = Index!Realizable(Index!ContextSite(c))
        /\ \E demand \in Index!Demands(outer) : Canonical(egraph, demand) = Canonical(egraph, v)
    BY <1>2, IndexNames DEF Index!PropagateContextValue
  <2>2. Canonical(egraph, v) \in Index!DemandsIn(X, outer)
    BY <2>1, KnownValues
  <2>3. Head(children) = e
    <3>1. ActionOK(Index!ContextAction(c))
      BY DEF MapsOK
    <3>2. DOMAIN children \subseteq {1}
      BY <1>2, <3>1 DEF ActionOK, Index!ContextChildren
    <3>3. PICK i \in DOMAIN children : children[i] = e
      BY DEF Range
    <3>4. DOMAIN children = 1 .. 1 /\ children[1] = e
      BY <3>2, <3>3
    <3>5. children = [j \in DOMAIN children |-> children[j]]
      BY DEF Index!ContextChildren
    <3> HIDE DEF children
    <3>6. children \in [1 .. 1 -> {e}]
      BY <3>4, <3>5
    <3> QED  BY <3>4, <3>6, SeqDef, HeadTailProperties
  <2>4. Index!Realizable(Index!ContextSite(c)) \in X
    BY <1>0, <1>2, <2>2, <2>3, ProjectedDemand, ContextDemand
  <2> QED  BY <2>1, <2>4, FactForms
<1> QED  BY <1>1, <1>2

\* `recheck_context`
LEMMA RecheckedContext ==
  ASSUME MapsOK, EGraphOK, Shaped, NEW X, Holds(X), NEW c \in DOMAIN contexts,
         NEW f \in Index!RecheckContext(c)
  PROVE  Index!Canonized(f) \in X
<1> DEFINE outer == Index!MemoSite(contexts[c].memo)
<1>0. Closed(X) /\ contexts[c].tag # "Top"
  BY DEF Holds, Index!RecheckContext
<1>1. CASE Index!Realizable(outer) \in closure
  <2>1. f = Index!Realizable(Index!ContextSite(c))
    BY <1>0, <1>1 DEF Index!RecheckContext
  <2>2. Index!Realizable(outer) \in X
    BY <1>1, KnownValues
  <2> QED  BY <1>0, <2>1, <2>2, ContextRealizable, FactForms
<1>2. CASE Index!Realizable(outer) \notin closure
  <2>1. PICK v \in Index!Demands(outer) : f \in Index!PropagateDemand(c, v)
    BY <1>0, <1>2 DEF Index!RecheckContext
  <2>2. Canonical(egraph, v) \in Index!DemandsIn(X, outer)
    BY KnownValues
  <2> QED  BY <1>0, <2>1, <2>2, PropagatedDemand
<1> QED  BY <1>1, <1>2

\* The facts of a context, passed to a memo it waits for.
LEMMA PassedFacts ==
  ASSUME Shaped, NEW X, Holds(X), NEW m \in DOMAIN memos,
         NEW c \in Range(memos[m].parents),
         NEW f \in Index!Passed(Index!ContextSite(c), Index!MemoSite(m))
  PROVE  Index!Canonized(f) \in X
<1>0. Closed(X)
  BY DEF Holds
<1>1. CASE \E v \in Index!Demands(Index!ContextSite(c)) :
             f = Index!RealizableFor(Index!MemoSite(m), v)
  <2>1. PICK v \in Index!Demands(Index!ContextSite(c)) :
          f = Index!RealizableFor(Index!MemoSite(m), v)
    BY <1>1
  <2>2. Index!RealizableFor(Index!ContextSite(c), Canonical(egraph, v)) \in X
    BY KnownValues
  <2> QED  BY <1>0, <2>1, <2>2, ClosedMemo, FactForms
<1>2. CASE Index!Realizable(Index!ContextSite(c)) \in closure
           /\ f = Index!Realizable(Index!MemoSite(m))
  <2>1. Index!Realizable(Index!ContextSite(c)) \in X
    BY <1>2, KnownValues
  <2> QED  BY <1>0, <1>2, <2>1, ClosedMemo, FactForms
<1> QED  BY <1>1, <1>2 DEF Index!Passed

----------------------------------------------------------------------------
(* What the operations insert.                                             *)

\* The target, demanded at contexts without a memo above.
LEMMA TargetFacts ==
  ASSUME NEW X, Closed(X), NEW tops,
         \A c \in tops : c \in DOMAIN contexts /\ contexts[c].tag = "Top",
         NEW f \in Index!Targets(tops)
  PROVE  Index!Canonized(f) \in X
<1>1. PICK c \in tops : f = Index!RealizableFor(Index!ContextSite(c), egraph.target)
  BY DEF Index!Targets
<1> QED  BY <1>1, ContextTarget, FactForms

\* A change is told by its kind.
LEMMA ChangeForms ==
  /\ \A e : NewExpression(e).change = "NewExpression" /\ NewExpression(e).expression = e
  /\ \A c : NewContext(c).change = "NewContext" /\ NewContext(c).context = c
  /\ \A m, c : LET x == ParentAppended(m, c) IN
       x.change = "MemoParentAppended" /\ x.memo = m /\ x.context = c
  /\ \A a, e : LET x == ChildAppended(a, e) IN
       x.change = "AlternativeChildAppended" /\ x.alternative = a /\ x.child = e
BY DEF NewExpression, NewContext, ParentAppended, ChildAppended

\* What a true log names.
LEMMA LogNames ==
  ASSUME NEW told, told \subseteq GraphLog
  PROVE  /\ Index!NewExpressions(told) \subseteq DOMAIN expressions
         /\ Index!NewContexts(told) \subseteq DOMAIN contexts
         /\ \A x \in Index!Named(told, "MemoParentAppended") :
              x.memo \in DOMAIN memos /\ x.context \in Range(memos[x.memo].parents)
         /\ \A x \in Index!Named(told, "AlternativeChildAppended") :
              /\ x.alternative \in DOMAIN expressions
              /\ expressions[x.alternative].node.tag = "Alt"
              /\ x.child \in Range(expressions[x.alternative].node.children)
<1>1. ASSUME NEW x \in told
      PROVE  \/ \E e \in DOMAIN expressions : x = NewExpression(e)
             \/ \E c \in DOMAIN contexts : x = NewContext(c)
             \/ \E m \in DOMAIN memos : \E c \in Range(memos[m].parents) : x = ParentAppended(m, c)
             \/ \E e \in DOMAIN expressions :
                  /\ expressions[e].node.tag = "Alt"
                  /\ \E child \in Range(expressions[e].node.children) : x = ChildAppended(e, child)
  <2>1. x \in Index!InitialLog \/ x \in PackedChildren
    BY DEF GraphLog
  <2>2. CASE x \in Index!InitialLog
    BY <2>2, IndexNames DEF Index!InitialLog
  <2>3. CASE x \in PackedChildren
    BY <2>3 DEF PackedChildren
  <2> QED  BY <2>1, <2>2, <2>3
<1>2. \A x \in told :
        /\ x.change = "NewExpression" => x.expression \in DOMAIN expressions
        /\ x.change = "NewContext" => x.context \in DOMAIN contexts
        /\ x.change = "MemoParentAppended" =>
             x.memo \in DOMAIN memos /\ x.context \in Range(memos[x.memo].parents)
        /\ x.change = "AlternativeChildAppended" =>
             /\ x.alternative \in DOMAIN expressions
             /\ expressions[x.alternative].node.tag = "Alt"
             /\ x.child \in Range(expressions[x.alternative].node.children)
  BY <1>1, ChangeForms
<1> QED  BY <1>2 DEF Index!NewExpressions, Index!NewContexts, Index!Named

\* An alternative has the values of its children.
LEMMA AlternativeValue ==
  ASSUME Shaped, NEW X, Holds(X), NEW e \in DOMAIN expressions,
         expressions[e].node.tag = "Alt",
         NEW child \in Range(expressions[e].node.children),
         NEW v \in Index!Values(child)
  PROVE  Index!Canonized(Index!Produces(e, v)) \in X
<1>1. Canonical(egraph, v) \in Index!ValuesIn(X, child)
  BY KnownValues
<1>2. child \in Range(Index!Selected(e)) /\ ~Index!IsLeaf(expressions[e].node)
  BY DEF Index!Selected, Index!IsLeaf
<1> QED  BY <1>1, <1>2, SelectedValue, FactForms DEF Holds

\* `update_pwz`
LEMMA FirstFactsFollow ==
  ASSUME MapsOK, EGraphOK, Shaped, NEW told, told \subseteq GraphLog, NEW X, Holds(X),
         NEW f \in Index!FirstFacts(told)
  PROVE  Index!Canonized(f) \in X
<1> DEFINE tops == {c \in Index!NewContexts(told) : contexts[c].tag = "Top"}
<1>1. CASE \E e \in Index!NewExpressions(told) : f \in Index!RecheckExpression(e)
  BY <1>1, LogNames, RecheckedExpression
<1>2. CASE \E c \in Index!NewContexts(told) : f \in Index!RecheckContext(c)
  BY <1>2, LogNames, RecheckedContext
<1>3. CASE f \in Index!Targets(tops)
  <2>1. \A c \in tops : c \in DOMAIN contexts /\ contexts[c].tag = "Top"
    BY LogNames
  <2> HIDE DEF tops
  <2> QED  BY <1>3, <2>1, TargetFacts DEF Holds
<1>4. CASE \E x \in Index!Named(told, "MemoParentAppended") :
             f \in Index!Passed(Index!ContextSite(x.context), Index!MemoSite(x.memo))
  BY <1>4, LogNames, PassedFacts
<1>5. CASE \E x \in Index!Named(told, "AlternativeChildAppended") :
             \E v \in Index!Values(x.child) : f = Index!Produces(x.alternative, v)
  BY <1>5, LogNames, AlternativeValue
<1> QED  BY <1>1, <1>2, <1>3, <1>4, <1>5 DEF Index!FirstFacts

\* What the indexes name.
LEMMA IndexesName ==
  ASSUME IndexTrue
  PROVE  /\ \A k : \A x \in Index!Under(indexes.consumers_by_expression, k) :
              \/ \E e \in DOMAIN expressions :
                   x = Index!ExpressionConsumer(e) /\ k \in Range(Index!Selected(e))
              \/ \E c \in DOMAIN contexts :
                   /\ contexts[c].tag = "Seq" /\ x = Index!ContextConsumer(c)
                   /\ k \in Range(Index!ContextChildren(c)) /\ k # None
         /\ \A k : \A x \in Index!Under(indexes.consumers_by_constructor, k) :
              \/ \E e \in DOMAIN expressions : x = Index!ExpressionConsumer(e)
              \/ \E c \in DOMAIN contexts : x = Index!ContextConsumer(c)
         /\ \A k : Index!Under(indexes.expressions_by_terminal, k) \subseteq DOMAIN expressions
         /\ \A k : \A m \in Index!Under(indexes.memos_by_context, k) :
              m \in DOMAIN memos /\ k \in Range(memos[m].parents)
         /\ \A k : \A c \in Index!Under(indexes.contexts_by_outer_memo, k) :
              c \in DOMAIN contexts /\ contexts[c].tag # "Top" /\ contexts[c].memo = k
<1>1. \A index, k : \A x \in Index!Under(index, k) : \E pair \in index : pair[1] = k /\ pair[2] = x
  BY DEF Index!Under
<1>2. ASSUME NEW k, NEW x \in Index!Under(indexes.consumers_by_expression, k)
      PROVE  \/ \E e \in DOMAIN expressions :
                  x = Index!ExpressionConsumer(e) /\ k \in Range(Index!Selected(e))
             \/ \E c \in DOMAIN contexts :
                  /\ contexts[c].tag = "Seq" /\ x = Index!ContextConsumer(c)
                  /\ k \in Range(Index!ContextChildren(c)) /\ k # None
  <2>1. PICK pair \in indexes.consumers_by_expression : pair[1] = k /\ pair[2] = x
    BY <1>1
  <2>2. \/ \E e \in DOMAIN expressions : \E child \in Range(Index!Selected(e)) :
             pair = <<child, Index!ExpressionConsumer(e)>>
        \/ \E c \in DOMAIN contexts : contexts[c].tag = "Seq" /\
             \E child \in Range(Index!ContextChildren(c)) \ {None} :
               pair = <<child, Index!ContextConsumer(c)>>
    BY IndexNames DEF IndexTrue, Bounded
  <2> QED  BY <2>1, <2>2
<1>3. ASSUME NEW k, NEW x \in Index!Under(indexes.consumers_by_constructor, k)
      PROVE  \/ \E e \in DOMAIN expressions : x = Index!ExpressionConsumer(e)
             \/ \E c \in DOMAIN contexts : x = Index!ContextConsumer(c)
  BY <1>1 DEF IndexTrue, Bounded
<1>4. ASSUME NEW k, NEW x \in Index!Under(indexes.expressions_by_terminal, k)
      PROVE  x \in DOMAIN expressions
  BY <1>1 DEF IndexTrue, Bounded
<1>5. ASSUME NEW k, NEW m \in Index!Under(indexes.memos_by_context, k)
      PROVE  m \in DOMAIN memos /\ k \in Range(memos[m].parents)
  <2>1. PICK pair \in indexes.memos_by_context : pair[1] = k /\ pair[2] = m
    BY <1>1
  <2>2. \E n \in DOMAIN memos : \E c \in Range(memos[n].parents) : pair = <<c, n>>
    BY DEF IndexTrue, Bounded
  <2> QED  BY <2>1, <2>2
<1>6. ASSUME NEW k, NEW c \in Index!Under(indexes.contexts_by_outer_memo, k)
      PROVE  c \in DOMAIN contexts /\ contexts[c].tag # "Top" /\ contexts[c].memo = k
  <2>1. PICK pair \in indexes.contexts_by_outer_memo : pair[1] = k /\ pair[2] = c
    BY <1>1
  <2>2. \E d \in DOMAIN contexts : contexts[d].tag # "Top" /\ pair = <<contexts[d].memo, d>>
    BY DEF IndexTrue, Bounded
  <2> QED  BY <2>1, <2>2
<1> QED  BY <1>2, <1>3, <1>4, <1>5, <1>6

\* `update_egraph`
LEMMA ChangeFactsFollow ==
  ASSUME MapsOK, EGraphOK, Shaped, IndexTrue, NEW X, Holds(X),
         NEW x, x.change \in {"Target", "Terminal", "Constructor"},
         NEW f \in Index!ChangeFacts(x)
  PROVE  Index!Canonized(f) \in X
<1>1. CASE x.change = "Target"
  <2>1. f \in Index!Targets(indexes.top_contexts)
    BY <1>1 DEF Index!ChangeFacts
  <2>2. \A c \in indexes.top_contexts : c \in DOMAIN contexts /\ contexts[c].tag = "Top"
    BY DEF IndexTrue, Bounded
  <2> QED  BY <2>1, <2>2, TargetFacts DEF Holds
<1>2. CASE x.change = "Terminal"
  <2>1. \E e \in Index!Under(indexes.expressions_by_terminal, x.terminal) :
          f \in Index!RecheckExpression(e)
    BY <1>2 DEF Index!ChangeFacts
  <2> QED  BY <2>1, IndexesName, RecheckedExpression
<1>3. CASE x.change = "Constructor"
  <2>1. PICK consumer \in Index!Under(indexes.consumers_by_constructor, x.constructor) :
          f \in Index!RecheckConsumer(consumer)
    BY <1>3 DEF Index!ChangeFacts
  <2>2. CASE \E e \in DOMAIN expressions : consumer = Index!ExpressionConsumer(e)
    BY <2>1, <2>2, RecheckedExpression DEF Index!RecheckConsumer, Index!ExpressionConsumer
  <2>3. CASE \E c \in DOMAIN contexts : consumer = Index!ContextConsumer(c)
    BY <2>1, <2>3, RecheckedContext DEF Index!RecheckConsumer, Index!ContextConsumer
  <2> QED  BY <2>1, <2>2, <2>3, IndexesName
<1> QED  BY <1>1, <1>2, <1>3

\* One turn of `close`.
LEMMA ConsequencesFollow ==
  ASSUME MapsOK, EGraphOK, Shaped, IndexTrue, NEW X, Holds(X),
         NEW event \in closure, event.fact # "Produces" => event.site \in Index!Site,
         NEW f \in Index!Consequences(event)
  PROVE  Index!Canonized(f) \in X
<1> DEFINE site == event.site
           v == event.value
<1>0. Closed(X) /\ IsFact(event) /\ Index!Canonized(event) \in X
  BY DEF Holds, Shaped, Index!Reading
<1>1. CASE event.fact = "Produces"
  <2> DEFINE e == event.expression
  <2>1. Canonical(egraph, v) \in Index!ValuesIn(X, e)
    BY <1>0, <1>1, FactKinds, FactForms, ValuesInForm
  <2>2. PICK x \in Index!Under(indexes.consumers_by_expression, e) :
          f \in IF x.consumer = "Expression"
                  THEN Index!PropagateValue(x.id, e, v)
                  ELSE Index!PropagateContextValue(x.id, e, v)
    BY <1>1 DEF Index!Consequences
  <2>3. CASE \E d \in DOMAIN expressions :
               x = Index!ExpressionConsumer(d) /\ e \in Range(Index!Selected(d))
    <3>1. x.consumer = "Expression" /\ x.id \in DOMAIN expressions
          /\ e \in Range(Index!Selected(x.id))
      BY <2>3 DEF Index!ExpressionConsumer
    <3> QED  BY <2>1, <2>2, <3>1, PropagatedValue
  <2>4. CASE \E c \in DOMAIN contexts :
               /\ contexts[c].tag = "Seq" /\ x = Index!ContextConsumer(c)
               /\ e \in Range(Index!ContextChildren(c)) /\ e # None
    <3>1. x.consumer # "Expression" /\ x.id \in DOMAIN contexts /\ contexts[x.id].tag = "Seq"
          /\ e \in Range(Index!ContextChildren(x.id)) /\ e # None
      BY <2>4 DEF Index!ContextConsumer
    <3> QED  BY <2>1, <2>2, <3>1, PropagatedContextValue
  <2> QED  BY <2>2, <2>3, <2>4, IndexesName
<1>2. CASE event.fact = "RealizableFor"
  <2>1. Index!RealizableFor(site, Canonical(egraph, v)) \in X
    BY <1>0, <1>2, FactKinds, FactForms
  <2>2. CASE \E c \in DOMAIN contexts : site = Index!ContextSite(c)
    <3>1. PICK c \in DOMAIN contexts : site = Index!ContextSite(c)
      BY <2>2
    <3>2. PICK m \in Index!Under(indexes.memos_by_context, c) :
            f = Index!RealizableFor(Index!MemoSite(m), v)
      BY <1>2, <3>1, SiteForms DEF Index!Consequences
    <3>3. m \in DOMAIN memos /\ c \in Range(memos[m].parents)
      BY IndexesName
    <3> QED  BY <1>0, <2>1, <3>1, <3>2, <3>3, ClosedMemo, FactForms
  <2>3. CASE \E m \in DOMAIN memos : site = Index!MemoSite(m)
    <3>1. PICK m \in DOMAIN memos : site = Index!MemoSite(m)
      BY <2>3
    <3>2. PICK c \in Index!Under(indexes.contexts_by_outer_memo, m) :
            f \in Index!PropagateDemand(c, v)
      BY <1>2, <3>1, SiteForms DEF Index!Consequences
    <3>3. c \in DOMAIN contexts /\ contexts[c].tag # "Top" /\ contexts[c].memo = m
      BY IndexesName
    <3>4. Canonical(egraph, v) \in Index!DemandsIn(X, Index!MemoSite(m))
      BY <2>1, <3>1, DemandsInForm
    <3> QED  BY <3>2, <3>3, <3>4, PropagatedDemand
  <2> QED  BY <1>2, <2>2, <2>3 DEF Index!Site
<1>3. CASE event.fact = "Realizable"
  <2>1. Index!Realizable(site) \in X
    BY <1>0, <1>3, FactKinds, FactForms
  <2>2. CASE \E c \in DOMAIN contexts : site = Index!ContextSite(c)
    <3>1. PICK c \in DOMAIN contexts : site = Index!ContextSite(c)
      BY <2>2
    <3>2. PICK m \in Index!Under(indexes.memos_by_context, c) :
            f = Index!Realizable(Index!MemoSite(m))
      BY <1>3, <3>1, SiteForms DEF Index!Consequences
    <3>3. m \in DOMAIN memos /\ c \in Range(memos[m].parents)
      BY IndexesName
    <3> QED  BY <1>0, <2>1, <3>1, <3>2, <3>3, ClosedMemo, FactForms
  <2>3. CASE \E m \in DOMAIN memos : site = Index!MemoSite(m)
    <3>1. PICK m \in DOMAIN memos : site = Index!MemoSite(m)
      BY <2>3
    <3>2. PICK c \in Index!Under(indexes.contexts_by_outer_memo, m) :
            f = Index!Realizable(Index!ContextSite(c))
      BY <1>3, <3>1, SiteForms DEF Index!Consequences
    <3>3. c \in DOMAIN contexts /\ contexts[c].tag # "Top" /\ contexts[c].memo = m
      BY IndexesName
    <3> QED  BY <1>0, <2>1, <3>1, <3>2, <3>3, ContextRealizable, FactForms
  <2> QED  BY <1>3, <2>2, <2>3 DEF Index!Site
<1> QED  BY <1>0, <1>1, <1>2, <1>3, FactKinds

----------------------------------------------------------------------------
(* There are finitely many facts, and the rules lead to no other.          *)

LEMMA FactMembers ==
  /\ \A e \in DOMAIN expressions : \A v \in Index!Value : Index!Produces(e, v) \in Index!Fact
  /\ \A s \in Index!Site : \A v \in Index!Value : Index!RealizableFor(s, v) \in Index!Fact
  /\ \A s \in Index!Site : Index!Realizable(s) \in Index!Fact
  /\ \A c \in DOMAIN contexts : Index!ContextSite(c) \in Index!Site
  /\ \A m \in DOMAIN memos : Index!MemoSite(m) \in Index!Site
BY DEF Index!Produces, Index!RealizableFor, Index!Realizable, Index!Fact, Index!Site

LEMMA FactParts ==
  ASSUME NEW f \in Index!Fact
  PROVE  /\ IsFact(f)
         /\ f.fact = "Produces" => f.expression \in DOMAIN expressions /\ f.value \in Index!Value
         /\ f.fact = "RealizableFor" => f.site \in Index!Site /\ f.value \in Index!Value
         /\ f.fact = "Realizable" => f.site \in Index!Site
<1>1. CASE f \in [fact : {"Produces"}, expression : DOMAIN expressions, value : Index!Value]
  BY <1>1 DEF IsFact, Index!Produces
<1>2. CASE f \in [fact : {"RealizableFor"}, site : Index!Site, value : Index!Value]
  BY <1>2 DEF IsFact, Index!RealizableFor
<1>3. CASE f \in [fact : {"Realizable"}, site : Index!Site]
  BY <1>3 DEF IsFact, Index!Realizable
<1> QED  BY <1>1, <1>2, <1>3 DEF Index!Fact

LEMMA ValueMembers ==
  ASSUME EGraphOK, MapsOK
  PROVE  /\ Canonical(egraph, egraph.target) \in Index!Value
         /\ \A v \in Index!Value : Canonical(egraph, v) \in Index!Value
         /\ \A r \in egraph.rows : r.constructor \in DOMAIN schema.constructors =>
              r.output \in Index!Value
         /\ \A r \in egraph.rows : Range(r.children) \subseteq Index!Value
         /\ \A e \in DOMAIN expressions : Index!IsLeaf(expressions[e].node) =>
              expressions[e].node.symbol.token.payload \subseteq Index!Value
<1>1. Coherent(egraph)
  BY DEF EGraphOK, EGraphWellTyped
<1>2. egraph.target \in DOMAIN egraph.find
      /\ \A r \in egraph.rows : r.constructor # Disjoint => r.output \in DOMAIN egraph.find
  BY <1>1 DEF Coherent, OutputCoherent
<1>2a. Disjoint \notin DOMAIN schema.constructors
  BY DEF MapsOK
<1>3. \A v \in Index!Value : Canonical(egraph, v) \in Index!Value
  BY <1>1, CoherentRows DEF Canonical, Index!Value
<1> QED  BY <1>2, <1>2a, <1>3, IndexNames DEF Index!Value

\* The rules lead from facts to facts.
LEMMA ImpliedTyped ==
  ASSUME MapsOK, EGraphOK, NEW Y, Y \subseteq Index!Fact
  PROVE  Index!Implied(Y) \subseteq Index!Fact
<1>1. /\ \A e : Index!ValuesIn(Y, e) \subseteq Index!Value
      /\ \A s : Index!DemandsIn(Y, s) \subseteq Index!Value
  BY FactParts DEF Index!ValuesIn, Index!DemandsIn
<1>2. ASSUME NEW e \in DOMAIN expressions, NEW v \in Index!ImpliedValues(Y, e)
      PROVE  v \in Index!Value
  <2> DEFINE node == expressions[e].node
             k == Index!ExpressionAction(e).constructor
  <2>0. Index!IsLeaf(node) => node.tag # "Tok"
    BY DEF Index!IsLeaf
  <2>1. CASE node.tag = "Tok"
    <3>1. v \in Index!TerminalValues(node.terminal)
      BY <1>2, <2>0, <2>1 DEF Index!ImpliedValues
    <3>2. \E r \in egraph.rows : v \in Range(r.children)
      BY <3>1, IndexNames DEF Index!TerminalValues
    <3> QED  BY <3>2, ValueMembers
  <2>2. CASE Index!IsLeaf(node)
    <3>1. \E u \in node.symbol.token.payload : v = Canonical(egraph, u)
      BY <1>2, <2>0, <2>2, IndexNames DEF Index!ImpliedValues
    <3> QED  BY <2>2, <3>1, ValueMembers
  <2>3. CASE ~Index!IsLeaf(node) /\ node.tag = "Seq" /\ k # None
    <3>1. \E r \in Index!ExpressionRows(e) : v = r.output
      BY <1>2, <2>3, IndexNames DEF Index!ImpliedValues
    <3>2. k \in DOMAIN schema.constructors
      BY <2>3, ConstructingExpression
    <3> QED  BY <3>1, <3>2, IndexNames, ValueMembers DEF Index!ExpressionRows
  <2>4. CASE ~Index!IsLeaf(node) /\ node.tag # "Tok" /\ (node.tag = "Seq" => k = None)
    <3>1. \E child : v \in Index!ValuesIn(Y, child)
      BY <1>2, <2>4, IndexNames DEF Index!ImpliedValues
    <3> QED  BY <1>1, <3>1
  <2> QED  BY <2>1, <2>2, <2>3, <2>4
<1>3. ASSUME NEW c \in DOMAIN contexts, contexts[c].tag # "Top", NEW v \in Index!Value,
             NEW f \in Index!ImpliedDemand(Y, c, v)
      PROVE  f \in Index!Fact
  <2> DEFINE k == Index!ContextAction(c).constructor
  <2>1. CASE f = Index!RealizableFor(Index!ContextSite(c), v) \/ f = Index!Realizable(Index!ContextSite(c))
    BY <2>1, FactMembers
  <2>2. CASE /\ contexts[c].tag = "Seq" /\ k # None
             /\ \E r \in egraph.rows : r.constructor = k /\ f = Index!HoleFact(c, r)
    <3> DEFINE children == Index!ContextChildren(c)
    <3>1. PICK r \in egraph.rows : r.constructor = k /\ f = Index!HoleFact(c, r)
      BY <2>2
    <3>2. DOMAIN children = DOMAIN r.children
      BY <2>2, <3>1, ConstructingContext, RowFacts
    <3>3. None \in Range(children) =>
            (CHOOSE a \in DOMAIN children : children[a] = None) \in DOMAIN children
      BY DEF Range
    <3>4. \/ f = Index!Realizable(Index!ContextSite(c))
          \/ \E u \in Range(r.children) : f = Index!RealizableFor(Index!ContextSite(c), u)
      BY <3>1, <3>2, <3>3, IndexNames DEF Index!HoleFact, Range
    <3> QED  BY <3>4, ValueMembers, FactMembers
  <2>3. CASE contexts[c].tag = "Alt"
    BY <1>3, <2>1, <2>3 DEF Index!ImpliedDemand
  <2>4. CASE contexts[c].tag = "Seq" /\ k # None
    BY <1>3, <2>2, <2>4, IndexNames DEF Index!ImpliedDemand
  <2>5. CASE contexts[c].tag = "Seq" /\ k = None
    BY <1>3, <2>1, <2>5, IndexNames DEF Index!ImpliedDemand
  <2> QED  BY <1>3, <2>3, <2>4, <2>5 DEF MapsOK
<1>4. ASSUME NEW c \in DOMAIN contexts, NEW f \in Index!ImpliedAt(Y, c)
      PROVE  f \in Index!Fact
  <2>1. CASE contexts[c].tag = "Top"
    BY <1>4, <2>1, IndexNames, ValueMembers, FactMembers DEF Index!ImpliedAt
  <2>2. CASE contexts[c].tag # "Top"
    <3>1. \/ f = Index!Realizable(Index!ContextSite(c))
          \/ \E v \in Index!DemandsIn(Y, Index!MemoSite(contexts[c].memo)) :
               f \in Index!ImpliedDemand(Y, c, v)
      BY <1>4, <2>2 DEF Index!ImpliedAt
    <3> QED  BY <1>1, <1>3, <2>2, <3>1, FactMembers
  <2> QED  BY <2>1, <2>2
<1>5. ASSUME NEW m \in DOMAIN memos, NEW f \in Index!ImpliedBelow(Y, m)
      PROVE  f \in Index!Fact
  <2>1. PICK h \in Y : h.fact # "Produces" /\ f = [h EXCEPT !.site = Index!MemoSite(m)]
    BY <1>5 DEF Index!ImpliedBelow
  <2>2. \A v, s, t : [Index!RealizableFor(s, v) EXCEPT !.site = t] = Index!RealizableFor(t, v)
                     /\ [Index!Realizable(s) EXCEPT !.site = t] = Index!Realizable(t)
    BY DEF Index!RealizableFor, Index!Realizable
  <2>3. \/ f = Index!Realizable(Index!MemoSite(m))
        \/ h.value \in Index!Value /\ f = Index!RealizableFor(Index!MemoSite(m), h.value)
    BY <2>1, <2>2, FactParts, FactKinds
  <2> QED  BY <2>3, FactMembers
<1>6. \A e \in DOMAIN expressions : \A v \in Index!ImpliedValues(Y, e) : Index!Produces(e, v) \in Index!Fact
  BY <1>2, FactMembers
<1> QED  BY <1>4, <1>5, <1>6 DEF Index!Implied

\* There are finitely many values.
LEMMA FiniteValues ==
  ASSUME EGraphOK, MapsOK
  PROVE  IsFiniteSet(Index!Value)
<1>1. IsFiniteSet(DOMAIN egraph.find) /\ IsFiniteSet(egraph.rows)
  BY DEF EGraphOK, EGraphWellTyped, Coherent
<1>2. IsFiniteSet(UNION {Range(r.children) : r \in egraph.rows})
  <2> DEFINE ranges == [r \in egraph.rows |-> Range(r.children)]
  <2>1. IsFiniteSet({ranges[r] : r \in egraph.rows})
    BY <1>1, FiniteImage
  <2>2. \A r \in egraph.rows : IsFiniteSet(ranges[r])
    <3> TAKE r \in egraph.rows
    <3>1. IsFiniteSet(DOMAIN r.children)
      BY DEF EGraphOK, EGraphWellTyped, Coherent
    <3>2. IsFiniteSet({r.children[a] : a \in DOMAIN r.children})
      BY <3>1, FiniteImage
    <3> QED  BY <3>2 DEF Range
  <2>3. {Range(r.children) : r \in egraph.rows} = {ranges[r] : r \in egraph.rows}
    OBVIOUS
  <2> QED  BY <2>1, <2>2, <2>3, FS_UNION
<1>3. IsFiniteSet(UNION {expressions[e].node.symbol.token.payload :
                         e \in {x \in DOMAIN expressions : Index!IsLeaf(expressions[x].node)}})
  <2> DEFINE leaves == {x \in DOMAIN expressions : Index!IsLeaf(expressions[x].node)}
             payload == [e \in leaves |-> expressions[e].node.symbol.token.payload]
  <2>1. IsFiniteSet(leaves)
    BY FS_Subset DEF MapsOK
  <2>2. \A e \in leaves : IsFiniteSet(payload[e])
    BY DEF MapsOK
  <2>3. {expressions[e].node.symbol.token.payload : e \in leaves} = {payload[e] : e \in leaves}
    OBVIOUS
  <2> HIDE DEF leaves
  <2>4. IsFiniteSet({payload[e] : e \in leaves})
    BY <2>1, FiniteImage
  <2>5. IsFiniteSet(UNION {payload[e] : e \in leaves})
    BY <2>2, <2>4, FS_UNION
  <2> QED  BY <2>3, <2>5 DEF leaves
<1>4. UNION {Index!Range(r.children) : r \in egraph.rows} = UNION {Range(r.children) : r \in egraph.rows}
  BY IndexNames
<1> QED  BY <1>1, <1>2, <1>3, <1>4, FS_Union DEF Index!Value

LEMMA FiniteFacts ==
  ASSUME EGraphOK, MapsOK
  PROVE  IsFiniteSet(Index!Fact)
<1> DEFINE E == DOMAIN expressions
           V == Index!Value
           S == Index!Site
<1>1. IsFiniteSet(E) /\ IsFiniteSet(V)
  BY FiniteValues DEF MapsOK
<1>2. IsFiniteSet(S)
  <2> DEFINE ofMemo == [m \in DOMAIN memos |-> Index!MemoSite(m)]
             ofContext == [c \in DOMAIN contexts |-> Index!ContextSite(c)]
  <2>1. S = {ofMemo[m] : m \in DOMAIN memos} \cup {ofContext[c] : c \in DOMAIN contexts}
    BY DEF Index!Site
  <2>2. IsFiniteSet(DOMAIN memos) /\ IsFiniteSet(DOMAIN contexts)
    BY DEF MapsOK
  <2> HIDE DEF ofMemo, ofContext
  <2>3. IsFiniteSet({ofMemo[m] : m \in DOMAIN memos})
    BY <2>2, FiniteImage
  <2>4. IsFiniteSet({ofContext[c] : c \in DOMAIN contexts})
    BY <2>2, FiniteImage
  <2> QED  BY <2>1, <2>3, <2>4, FS_Union
<1>3. IsFiniteSet([fact : {"Produces"}, expression : E, value : V])
  <2> DEFINE of == [p \in E \X V |-> [fact |-> "Produces", expression |-> p[1], value |-> p[2]]]
  <2>1. IsFiniteSet({of[p] : p \in E \X V})
    <3>1. IsFiniteSet(E \X V)
      BY <1>1, FS_Product
    <3> HIDE DEF of
    <3> QED  BY <3>1, FiniteImage
  <2>2. \A f \in [fact : {"Produces"}, expression : E, value : V] :
          f = of[<<f.expression, f.value>>] /\ <<f.expression, f.value>> \in E \X V
    OBVIOUS
  <2> HIDE DEF of, E, V
  <2>3. [fact : {"Produces"}, expression : E, value : V] \subseteq {of[p] : p \in E \X V}
    BY <2>2
  <2> QED  BY <2>1, <2>3, FS_Subset
<1>4. IsFiniteSet([fact : {"RealizableFor"}, site : S, value : V])
  <2> DEFINE of == [p \in S \X V |-> [fact |-> "RealizableFor", site |-> p[1], value |-> p[2]]]
  <2>1. IsFiniteSet({of[p] : p \in S \X V})
    <3>1. IsFiniteSet(S \X V)
      BY <1>1, <1>2, FS_Product
    <3> HIDE DEF of
    <3> QED  BY <3>1, FiniteImage
  <2>2. \A f \in [fact : {"RealizableFor"}, site : S, value : V] :
          f = of[<<f.site, f.value>>] /\ <<f.site, f.value>> \in S \X V
    OBVIOUS
  <2> HIDE DEF of, S, V
  <2>3. [fact : {"RealizableFor"}, site : S, value : V] \subseteq {of[p] : p \in S \X V}
    BY <2>2
  <2> QED  BY <2>1, <2>3, FS_Subset
<1>5. IsFiniteSet([fact : {"Realizable"}, site : S])
  <2> DEFINE of == [s \in S |-> [fact |-> "Realizable", site |-> s]]
  <2>1. IsFiniteSet({of[s] : s \in S})
    BY <1>2, FiniteImage
  <2>2. \A f \in [fact : {"Realizable"}, site : S] : f = of[f.site] /\ f.site \in S
    OBVIOUS
  <2> HIDE DEF of, S
  <2>3. [fact : {"Realizable"}, site : S] \subseteq {of[s] : s \in S}
    BY <2>2
  <2> QED  BY <2>1, <2>3, FS_Subset
<1> QED  BY <1>3, <1>4, <1>5, FS_Union DEF Index!Fact

\* What the index has is about what exists.
LEMMA ClosureTyped ==
  ASSUME MapsOK, EGraphOK, Shaped, Supported, NEW f \in closure
  PROVE  /\ Index!Canonized(f) \in Index!Fact
         /\ f.fact = "Produces" => f.expression \in DOMAIN expressions
                                   /\ Canonical(egraph, f.value) \in Index!Value
         /\ f.fact # "Produces" => f.site \in Index!Site
<1>1. Closed(Index!Fact)
  BY ImpliedTyped DEF Closed
<1>2. Index!Canonized(f) \in Index!Fact
  BY <1>1 DEF Supported, Index!Reading
<1> QED  BY <1>2, FactParts, FactKinds, FactForms DEF Shaped

----------------------------------------------------------------------------
(* The maps and the e-graph grow: what follows now still follows later.    *)

Moves ==
  /\ MapsOK /\ EGraphOK /\ MapsOK' /\ EGraphOK'
  /\ ParserProofs!GraphGrows /\ Continues(egraph, egraph')

\* The facts that will be in X once they are read in the next e-graph.  If X is
\* closed then, this set is closed now.
Earlier(X) == {f \in Index!Fact : Index!Canonized(f)' \in X}

LEMMA FactFormsNext ==
  /\ \A e, v : Index!Canonized(Index!Produces(e, v))'
                 = Index!Produces(e, Canonical(egraph', v))
  /\ \A s, v : Index!Canonized(Index!RealizableFor(s, v))'
                 = Index!RealizableFor(s, Canonical(egraph', v))
  /\ \A s : Index!Canonized(Index!Realizable(s))' = Index!Realizable(s)
BY DEF Index!Produces, Index!RealizableFor, Index!Realizable, Index!Canonized,
       Index!Canonical, Canonical

\* Expressions keep their nodes, but that alternatives gain children.
LEMMA MovedNodes ==
  ASSUME ParserProofs!GraphGrows
  PROVE  /\ schema' = schema
         /\ \A e \in DOMAIN expressions :
              /\ e \in DOMAIN expressions'
              /\ expressions'[e].node.tag = expressions[e].node.tag
              /\ expressions[e].node.tag # "Alt" => expressions'[e].node = expressions[e].node
              /\ expressions[e].node.tag = "Alt" =>
                   Range(expressions[e].node.children) \subseteq Range(expressions'[e].node.children)
         /\ \A c \in DOMAIN contexts : c \in DOMAIN contexts' /\ contexts'[c] = contexts[c]
         /\ \A m \in DOMAIN memos : m \in DOMAIN memos'
              /\ Range(memos[m].parents) \subseteq Range(memos'[m].parents)
BY DEF ParserProofs!GraphGrows, ParserProofs!Extends, schema, ParserProofs!Range, Range

\* So do the operators that read a node or a context.
LEMMA MovedReadings ==
  ASSUME ParserProofs!GraphGrows
  PROVE  /\ \A e \in DOMAIN expressions : expressions[e].node.tag # "Alt" =>
              /\ Index!ExpressionAction(e)' = Index!ExpressionAction(e)
              /\ Index!ExpressionChildren(e)' = Index!ExpressionChildren(e)
         /\ \A e \in DOMAIN expressions :
              Range(Index!Selected(e)) \subseteq Range(Index!Selected(e)')
         /\ \A c \in DOMAIN contexts :
              /\ Index!ContextAction(c)' = Index!ContextAction(c)
              /\ Index!ContextChildren(c)' = Index!ContextChildren(c)
<1>1. schema' = schema
  BY MovedNodes
<1>2. ASSUME NEW e \in DOMAIN expressions, expressions[e].node.tag # "Alt"
      PROVE  /\ Index!ExpressionAction(e)' = Index!ExpressionAction(e)
             /\ Index!ExpressionChildren(e)' = Index!ExpressionChildren(e)
             /\ Index!Selected(e)' = Index!Selected(e)
  <2>1. expressions'[e].node = expressions[e].node
    BY <1>2, MovedNodes
  <2>2. Index!ExpressionAction(e)' = Index!ExpressionAction(e)
    BY <1>1, <2>1 DEF Index!ExpressionAction, Index!Action
  <2>3. Index!ExpressionChildren(e)' = Index!ExpressionChildren(e)
    BY <2>1, <2>2 DEF Index!ExpressionChildren
  <2> QED  BY <2>1, <2>2, <2>3 DEF Index!Selected
<1>3. ASSUME NEW e \in DOMAIN expressions, expressions[e].node.tag = "Alt"
      PROVE  Range(Index!Selected(e)) \subseteq Range(Index!Selected(e)')
  <2>1. Index!Selected(e) = expressions[e].node.children
        /\ Index!Selected(e)' = expressions'[e].node.children
    BY <1>3, MovedNodes DEF Index!Selected
  <2> QED  BY <1>3, <2>1, MovedNodes
<1>4. ASSUME NEW c \in DOMAIN contexts
      PROVE  /\ Index!ContextAction(c)' = Index!ContextAction(c)
             /\ Index!ContextChildren(c)' = Index!ContextChildren(c)
  <2>1. contexts'[c] = contexts[c]
    BY MovedNodes
  <2>2. Index!ContextAction(c)' = Index!ContextAction(c)
    BY <1>1, <2>1 DEF Index!ContextAction, Index!Action
  <2>3. \A p : Index!ContextChild(c, p)' = Index!ContextChild(c, p)
    BY <2>1 DEF Index!ContextChild
  <2> QED  BY <2>2, <2>3 DEF Index!ContextChildren
<1> QED  BY <1>2, <1>3, <1>4

\* A row as it will be.
LEMMA MovedRow ==
  ASSUME Moves, NEW r \in egraph.rows
  PROVE  LET s == RowIn(egraph', r) IN
         /\ s \in egraph'.rows /\ s.constructor = r.constructor
         /\ s.output = Canonical(egraph', r.output)
         /\ DOMAIN s.children = DOMAIN r.children
         /\ \A a \in DOMAIN r.children : s.children[a] = Canonical(egraph', r.children[a])
BY DEF Moves, Continues, RowIn, CanonicalSeq

LEMMA MovedKnowledge ==
  ASSUME NEW X
  PROVE  /\ \A e : \A v \in Index!ValuesIn(Earlier(X), e) :
              Canonical(egraph', v) \in Index!ValuesIn(X, e)
         /\ \A s : \A v \in Index!DemandsIn(Earlier(X), s) :
              Canonical(egraph', v) \in Index!DemandsIn(X, s)
         /\ \A s : Index!Realizable(s) \in Earlier(X) => Index!Realizable(s) \in X
<1>1. ASSUME NEW e, NEW v \in Index!ValuesIn(Earlier(X), e)
      PROVE  Canonical(egraph', v) \in Index!ValuesIn(X, e)
  <2>1. PICK f \in Earlier(X) : f.fact = "Produces" /\ f.expression = e /\ f.value = v
    BY <1>1 DEF Index!ValuesIn
  <2>2. f \in Index!Fact /\ Index!Canonized(f)' \in X
    BY <2>1 DEF Earlier
  <2>3. f = Index!Produces(e, v)
    BY <2>1, <2>2, FactParts, FactKinds
  <2> QED  BY <2>2, <2>3, FactFormsNext, ValuesInForm
<1>2. ASSUME NEW s, NEW v \in Index!DemandsIn(Earlier(X), s)
      PROVE  Canonical(egraph', v) \in Index!DemandsIn(X, s)
  <2>1. PICK f \in Earlier(X) : f.fact = "RealizableFor" /\ f.site = s /\ f.value = v
    BY <1>2 DEF Index!DemandsIn
  <2>2. f \in Index!Fact /\ Index!Canonized(f)' \in X
    BY <2>1 DEF Earlier
  <2>3. f = Index!RealizableFor(s, v)
    BY <2>1, <2>2, FactParts, FactKinds
  <2> QED  BY <2>2, <2>3, FactFormsNext, DemandsInForm
<1>3. \A s : Index!Realizable(s) \in Earlier(X) => Index!Realizable(s) \in X
  BY FactFormsNext DEF Earlier
<1> QED  BY <1>1, <1>2, <1>3

\* A row that fits will fit.
LEMMA MovedFits ==
  ASSUME Moves, NEW X, NEW r \in egraph.rows, NEW children,
         DOMAIN children = DOMAIN r.children, Index!Fits(Earlier(X), r, children)
  PROVE  Index!Fits(X, RowIn(egraph', r), children)
<1>1. ASSUME NEW a \in DOMAIN children, children[a] # None
      PROVE  RowIn(egraph', r).children[a] \in Index!ValuesIn(X, children[a])
  <2>1. r.children[a] \in Index!ValuesIn(Earlier(X), children[a])
    BY <1>1, IndexNames DEF Index!Fits
  <2>2. Canonical(egraph', r.children[a]) \in Index!ValuesIn(X, children[a])
    BY <2>1, MovedKnowledge
  <2> QED  BY <2>2, MovedRow
<1> QED  BY <1>1, IndexNames DEF Index!Fits

\* A lexeme is of a primitive sort, and so is never merged.
LEMMA LexemesStay ==
  ASSUME Moves, NEW t \in DOMAIN schema.lexemes, NEW v \in schema.lexemes[t]
  PROVE  Canonical(egraph', v) = v
<1>1. v.sort \in LexicalSorts(schema)
  BY DEF LexicalSorts, Range
<1>2. schema' = schema
  BY MovedNodes DEF Moves
<1>3. v \notin DOMAIN egraph'.find
  BY <1>1, <1>2 DEF Moves, EGraphOK, EGraphWellTyped
<1> QED  BY <1>3 DEF Canonical

\* The values of an expression.
LEMMA MovedValues ==
  ASSUME Moves, NEW X, NEW e \in DOMAIN expressions,
         NEW v \in Index!ImpliedValues(Earlier(X), e)
  PROVE  Canonical(egraph', v) \in Index!ImpliedValues(X, e)'
<1> DEFINE node == expressions[e].node
           k == Index!ExpressionAction(e).constructor
           w == Canonical(egraph', v)
<1>0. /\ schema' = schema /\ ParserProofs!GraphGrows /\ MapsOK /\ EGraphOK
      /\ expressions'[e].node.tag = node.tag
      /\ node.tag # "Alt" => expressions'[e].node = node
      /\ Index!IsLeaf(node) => node.tag = "Seq" /\ node.symbol.tag = "Token"
      /\ node.tag \in {"Tok", "Seq", "Alt"}
      /\ \A n : Index!IsLeaf(n)' <=> Index!IsLeaf(n)
      /\ Index!IsLeaf(expressions'[e].node) <=> Index!IsLeaf(node)
  BY MovedNodes DEF Moves, MapsOK, Index!IsLeaf
<1>1. CASE node.tag = "Tok"
  <2>1. v \in Index!TerminalValues(node.terminal)
    BY <1>0, <1>1 DEF Index!ImpliedValues
  <2>2. PICK r \in egraph.rows : r.constructor \in DOMAIN schema.constructors
                                 /\ v \in Range(r.children)
    BY <2>1, IndexNames DEF Index!TerminalValues
  <2>3. v \in schema.lexemes[node.terminal] /\ node.terminal \in DOMAIN schema.lexemes
    BY <1>0, <1>1, <2>1 DEF Index!TerminalValues, MapsOK
  <2>4. w = v
    BY <2>3, LexemesStay
  <2>5. /\ RowIn(egraph', r) \in egraph'.rows
        /\ RowIn(egraph', r).constructor \in DOMAIN schema'.constructors
        /\ v \in Range(RowIn(egraph', r).children)
    BY <1>0, <2>2, <2>4, MovedRow DEF Range
  <2>6. v \in Index!TerminalValues(node.terminal)'
    BY <1>0, <1>1, <2>3, <2>5, IndexNames DEF Index!TerminalValues
  <2> QED  BY <1>0, <1>1, <2>4, <2>6 DEF Index!ImpliedValues
<1>2. CASE Index!IsLeaf(node)
  <2>1. PICK u \in node.symbol.token.payload : v = Canonical(egraph, u)
    BY <1>0, <1>2, IndexNames DEF Index!ImpliedValues
  <2>2. w = Canonical(egraph', u)
    BY <2>1 DEF Moves, Continues
  <2> QED  BY <1>0, <1>2, <2>1, <2>2, IndexNames DEF Index!ImpliedValues
<1>3. CASE ~Index!IsLeaf(node) /\ node.tag = "Seq" /\ k # None
  <2> DEFINE children == Index!ExpressionChildren(e)
  <2>1. PICK r \in Index!ExpressionRows(e) : v = r.output /\ Index!Fits(Earlier(X), r, children)
    BY <1>0, <1>3, IndexNames DEF Index!ImpliedValues
  <2>2. r \in egraph.rows /\ r.constructor = k
    BY <2>1, IndexNames DEF Index!ExpressionRows
  <2>3. DOMAIN children = DOMAIN r.children
    BY <1>0, <1>3, <2>2, ConstructingExpression, RowFacts
  <2>4. Index!ExpressionAction(e)' = Index!ExpressionAction(e)
        /\ Index!ExpressionChildren(e)' = children
    BY <1>0, <1>3, MovedReadings
  <2> DEFINE s == RowIn(egraph', r)
  <2>5. /\ s \in egraph'.rows /\ s.constructor = k /\ s.output = w
        /\ Index!Fits(X, s, children)
    BY <2>1, <2>2, <2>3, MovedRow, MovedFits
  <2> HIDE DEF s, children
  <2>6. s \in Index!ExpressionRows(e)'
    BY <2>4, <2>5, IndexNames DEF Index!ExpressionRows
  <2>7. Index!ImpliedValues(X, e)' =
          {x.output : x \in {y \in Index!ExpressionRows(e)' :
                               Index!Fits(X, y, Index!ExpressionChildren(e)')}}
    BY <1>0, <1>3, <2>4, IndexNames DEF Index!ImpliedValues
  <2> QED  BY <2>4, <2>5, <2>6, <2>7
<1>4. CASE ~Index!IsLeaf(node) /\ node.tag # "Tok" /\ (node.tag = "Seq" => k = None)
  <2>1. PICK child \in Range(Index!Selected(e)) : v \in Index!ValuesIn(Earlier(X), child)
    BY <1>0, <1>4, IndexNames DEF Index!ImpliedValues
  <2>2. child \in Range(Index!Selected(e)')
    BY <1>0, <2>1, MovedReadings
  <2>3. w \in Index!ValuesIn(X, child)
    BY <2>1, MovedKnowledge
  <2>4. node.tag = "Seq" => Index!ExpressionAction(e)' = Index!ExpressionAction(e)
    BY <1>0, MovedReadings
  <2> QED  BY <1>0, <1>4, <2>2, <2>3, <2>4, IndexNames DEF Index!ImpliedValues, Index!ValuesIn
<1> QED  BY <1>0, <1>1, <1>2, <1>3, <1>4

\* What a context asks for.
LEMMA MovedDemand ==
  ASSUME Moves, NEW X, NEW c \in DOMAIN contexts, contexts[c].tag # "Top",
         NEW v, NEW f \in Index!ImpliedDemand(Earlier(X), c, v),
         NEW w, w = Canonical(egraph', v)
  PROVE  Index!Canonized(f)' \in Index!ImpliedDemand(X, c, w)'
<1> DEFINE k == Index!ContextAction(c).constructor
           children == Index!ContextChildren(c)
<1>0. /\ MapsOK /\ EGraphOK /\ contexts'[c] = contexts[c]
      /\ contexts[c].tag \in {"Seq", "Alt"}
      /\ Index!ContextAction(c)' = Index!ContextAction(c)
      /\ Index!ContextChildren(c)' = children
  BY MovedNodes, MovedReadings DEF Moves, MapsOK
<1>1. CASE contexts[c].tag = "Alt"
  <2>1. f = Index!RealizableFor(Index!ContextSite(c), v)
    BY <1>1 DEF Index!ImpliedDemand
  <2>2. Index!RealizableFor(Index!ContextSite(c), w) \in Index!ImpliedDemand(X, c, w)'
    BY <1>0, <1>1 DEF Index!ImpliedDemand
  <2> QED  BY <2>1, <2>2, FactFormsNext
<1>2. CASE contexts[c].tag = "Seq" /\ k # None
  <2>1. PICK r \in egraph.rows : /\ r.constructor = k /\ r.output = v
                                 /\ Index!Fits(Earlier(X), r, children)
                                 /\ f = Index!HoleFact(c, r)
    BY <1>2, IndexNames DEF Index!ImpliedDemand
  <2>2. DOMAIN children = DOMAIN r.children
    BY <1>0, <1>2, <2>1, ConstructingContext, RowFacts
  <2> DEFINE s == RowIn(egraph', r)
  <2>3. /\ s \in egraph'.rows /\ s.constructor = k /\ s.output = w
        /\ Index!Fits(X, s, children)
        /\ \A a \in DOMAIN r.children : s.children[a] = Canonical(egraph', r.children[a])
    BY <2>1, <2>2, MovedRow, MovedFits
  <2> HIDE DEF s
  <2>4. Index!ImpliedDemand(X, c, w)' =
          {Index!HoleFact(c, x) : x \in {y \in egraph'.rows :
             /\ y.constructor = Index!ContextAction(c)'.constructor
             /\ y.output = w /\ Index!Fits(X, y, Index!ContextChildren(c)')}}
    <3>1. \A x : Index!HoleFact(c, x)' = Index!HoleFact(c, x)
      BY <1>0 DEF Index!HoleFact
    <3> HIDE DEF children
    <3> QED  BY <1>0, <1>2, <3>1, IndexNames DEF Index!ImpliedDemand
  <2>5. Index!HoleFact(c, s) \in Index!ImpliedDemand(X, c, w)'
    BY <1>0, <2>3, <2>4
  <2>6. Index!Canonized(f)' = Index!HoleFact(c, s)
    <3>1. CASE None \in Range(children)
      <4>1. PICK hole : hole = CHOOSE a \in DOMAIN children : children[a] = None
        OBVIOUS
      <4>2. hole \in DOMAIN r.children
        BY <2>2, <3>1, <4>1 DEF Range
      <4>3. \A x : Index!HoleFact(c, x)
                     = Index!RealizableFor(Index!ContextSite(c), x.children[hole])
        BY <3>1, <4>1, IndexNames DEF Index!HoleFact
      <4>4. f = Index!RealizableFor(Index!ContextSite(c), r.children[hole])
        BY <2>1, <4>3
      <4>5. Index!Canonized(f)'
              = Index!RealizableFor(Index!ContextSite(c), Canonical(egraph', r.children[hole]))
        BY <4>4, FactFormsNext
      <4> QED  BY <2>3, <4>2, <4>3, <4>5
    <3>2. CASE None \notin Range(children)
      <4>1. \A x : Index!HoleFact(c, x) = Index!Realizable(Index!ContextSite(c))
        BY <3>2, IndexNames DEF Index!HoleFact
      <4> QED  BY <2>1, <4>1, FactFormsNext
    <3> QED  BY <3>1, <3>2
  <2> QED  BY <2>5, <2>6
<1>3. CASE contexts[c].tag = "Seq" /\ k = None
  <2>1. CASE Head(children) = None
    <3>1. f = Index!RealizableFor(Index!ContextSite(c), v)
      BY <1>3, <2>1, IndexNames DEF Index!ImpliedDemand
    <3>2. Index!RealizableFor(Index!ContextSite(c), w) \in Index!ImpliedDemand(X, c, w)'
      BY <1>0, <1>3, <2>1, IndexNames DEF Index!ImpliedDemand
    <3> QED  BY <3>1, <3>2, FactFormsNext
  <2>2. CASE Head(children) # None
    <3>1. f = Index!Realizable(Index!ContextSite(c))
          /\ v \in Index!ValuesIn(Earlier(X), Head(children))
      BY <1>3, <2>2, IndexNames DEF Index!ImpliedDemand
    <3>2. w \in Index!ValuesIn(X, Head(children))
      BY <3>1, MovedKnowledge
    <3>3. Index!Realizable(Index!ContextSite(c)) \in Index!ImpliedDemand(X, c, w)'
      BY <1>0, <1>3, <2>2, <3>2, IndexNames DEF Index!ImpliedDemand
    <3> QED  BY <3>1, <3>3, FactFormsNext
  <2> QED  BY <2>1, <2>2
<1> QED  BY <1>0, <1>1, <1>2, <1>3

\* The facts of a context.
LEMMA MovedAt ==
  ASSUME Moves, NEW X, NEW c \in DOMAIN contexts, NEW f \in Index!ImpliedAt(Earlier(X), c)
  PROVE  Index!Canonized(f)' \in Index!ImpliedAt(X, c)'
<1> DEFINE outer == Index!MemoSite(contexts[c].memo)
<1>0. contexts'[c] = contexts[c]
  BY MovedNodes DEF Moves
<1>1. CASE contexts[c].tag = "Top"
  <2>1. f = Index!RealizableFor(Index!ContextSite(c), Canonical(egraph, egraph.target))
    BY <1>1, IndexNames DEF Index!ImpliedAt
  <2>2. Canonical(egraph', Canonical(egraph, egraph.target)) = Canonical(egraph', egraph'.target)
    BY DEF Moves, Continues
  <2>3. Index!Canonized(f)'
          = Index!RealizableFor(Index!ContextSite(c), Canonical(egraph', egraph'.target))
    BY <2>1, <2>2, FactFormsNext
  <2>4. Index!ImpliedAt(X, c)'
          = {Index!RealizableFor(Index!ContextSite(c), Canonical(egraph', egraph'.target))}
    <3>1. Index!Canonical(egraph, egraph.target)' = Canonical(egraph', egraph'.target)
      BY DEF Index!Canonical, Canonical
    <3> QED  BY <1>0, <1>1, <3>1 DEF Index!ImpliedAt, Index!ContextSite
  <2> QED  BY <2>3, <2>4
<1>2. CASE contexts[c].tag # "Top" /\ Index!Realizable(outer) \in Earlier(X)
           /\ f = Index!Realizable(Index!ContextSite(c))
  <2>1. Index!Realizable(outer) \in X
    BY <1>2, MovedKnowledge
  <2>2. Index!Canonized(f)' = Index!Realizable(Index!ContextSite(c))
    BY <1>2, FactFormsNext
  <2> QED  BY <1>0, <1>2, <2>1, <2>2 DEF Index!ImpliedAt
<1>3. ASSUME contexts[c].tag # "Top", NEW v \in Index!DemandsIn(Earlier(X), outer),
             f \in Index!ImpliedDemand(Earlier(X), c, v)
      PROVE  Index!Canonized(f)' \in Index!ImpliedAt(X, c)'
  <2>1. PICK w : w = Canonical(egraph', v)
    OBVIOUS
  <2>2. Index!Canonized(f)' \in Index!ImpliedDemand(X, c, w)'
    BY <1>3, <2>1, MovedDemand
  <2>3. w \in Index!DemandsIn(X, outer)
    BY <1>3, <2>1, MovedKnowledge
  <2> QED  BY <1>0, <1>3, <2>2, <2>3 DEF Index!ImpliedAt, Index!DemandsIn
<1> QED  BY <1>1, <1>2, <1>3 DEF Index!ImpliedAt

\* The facts of a memo.
LEMMA MovedBelow ==
  ASSUME Moves, NEW X, NEW m \in DOMAIN memos, NEW f \in Index!ImpliedBelow(Earlier(X), m)
  PROVE  Index!Canonized(f)' \in Index!ImpliedBelow(X, m)'
<1>1. PICK g \in Earlier(X) :
        /\ g.fact # "Produces" /\ f = [g EXCEPT !.site = Index!MemoSite(m)]
        /\ \E c \in Range(memos[m].parents) : g.site = Index!ContextSite(c)
  BY IndexNames DEF Index!ImpliedBelow
<1>2. PICK c \in Range(memos[m].parents) : g.site = Index!ContextSite(c)
  BY <1>1
<1>3. g \in Index!Fact /\ Index!Canonized(g)' \in X /\ IsFact(g)
  BY FactParts DEF Earlier
<1>4. c \in Range(memos'[m].parents)
  BY MovedNodes DEF Moves
<1>5. \A v, s, t : [Index!RealizableFor(s, v) EXCEPT !.site = t] = Index!RealizableFor(t, v)
                   /\ [Index!Realizable(s) EXCEPT !.site = t] = Index!Realizable(t)
  BY DEF Index!RealizableFor, Index!Realizable
<1>6. \A h \in X : h.fact # "Produces" /\ h.site = Index!ContextSite(c) =>
        [h EXCEPT !.site = Index!MemoSite(m)] \in Index!ImpliedBelow(X, m)'
  BY <1>4, IndexNames DEF Index!ImpliedBelow
<1>7. CASE g.fact = "RealizableFor"
  <2>1. g = Index!RealizableFor(Index!ContextSite(c), g.value)
    BY <1>2, <1>3, <1>7, FactKinds
  <2>2. Index!Canonized(g)' = Index!RealizableFor(Index!ContextSite(c), Canonical(egraph', g.value))
    BY <2>1, FactFormsNext
  <2>3. f = Index!RealizableFor(Index!MemoSite(m), g.value)
    BY <1>1, <1>5, <2>1
  <2>4. Index!Canonized(f)' = Index!RealizableFor(Index!MemoSite(m), Canonical(egraph', g.value))
    BY <2>3, FactFormsNext
  <2> QED  BY <1>3, <1>5, <1>6, <2>2, <2>4, FactForms
<1>8. CASE g.fact = "Realizable"
  <2>1. g = Index!Realizable(Index!ContextSite(c))
    BY <1>2, <1>3, <1>8, FactKinds
  <2>2. Index!Canonized(g)' = g
    BY <2>1, FactFormsNext
  <2>3. f = Index!Realizable(Index!MemoSite(m))
    BY <1>1, <1>5, <2>1
  <2>4. Index!Canonized(f)' = f
    BY <2>3, FactFormsNext
  <2> QED  BY <1>2, <1>3, <1>5, <1>6, <2>1, <2>2, <2>3, <2>4, FactForms
<1> QED  BY <1>1, <1>3, <1>7, <1>8, FactKinds

LEMMA ClosedEarlier ==
  ASSUME Moves, NEW X, Closed(X)'
  PROVE  Closed(Earlier(X))
<1>1. SUFFICES ASSUME NEW f \in Index!Implied(Earlier(X))
               PROVE  f \in Earlier(X)
  BY DEF Closed
<1>2. f \in Index!Fact
  BY ImpliedTyped DEF Earlier, Moves
<1>3. \A g : g \in Index!Implied(X)' => g \in X
  BY DEF Closed
<1>4. Index!Canonized(f)' \in Index!Implied(X)'
  <2>1. ASSUME NEW e \in DOMAIN expressions, NEW v \in Index!ImpliedValues(Earlier(X), e),
               f = Index!Produces(e, v)
        PROVE  Index!Canonized(f)' \in Index!Implied(X)'
    <3>1. Canonical(egraph', v) \in Index!ImpliedValues(X, e)'
      BY MovedValues
    <3>2. Index!Canonized(f)' = Index!Produces(e, Canonical(egraph', v))
      BY <2>1, FactFormsNext
    <3>3. e \in DOMAIN expressions'
      BY MovedNodes DEF Moves
    <3> QED  BY <3>1, <3>2, <3>3 DEF Index!Implied
  <2>2. ASSUME NEW c \in DOMAIN contexts, f \in Index!ImpliedAt(Earlier(X), c)
        PROVE  Index!Canonized(f)' \in Index!Implied(X)'
    <3>1. Index!Canonized(f)' \in Index!ImpliedAt(X, c)'
      BY <2>2, MovedAt
    <3>2. c \in DOMAIN contexts'
      BY MovedNodes DEF Moves
    <3> QED  BY <3>1, <3>2 DEF Index!Implied
  <2>3. ASSUME NEW m \in DOMAIN memos, f \in Index!ImpliedBelow(Earlier(X), m)
        PROVE  Index!Canonized(f)' \in Index!Implied(X)'
    <3>1. Index!Canonized(f)' \in Index!ImpliedBelow(X, m)'
      BY <2>3, MovedBelow
    <3>2. m \in DOMAIN memos'
      BY MovedNodes DEF Moves
    <3> QED  BY <3>1, <3>2 DEF Index!Implied
  <2> QED  BY <1>1, <2>1, <2>2, <2>3 DEF Index!Implied
<1> QED  BY <1>2, <1>3, <1>4 DEF Earlier

\* What the index has lies in every set that is closed later.
LEMMA SupportedMoves ==
  ASSUME Moves, Supported, Shaped, NEW X, Closed(X)', NEW f \in closure
  PROVE  Index!Canonized(f)' \in X
<1>1. Index!Canonized(f) \in Earlier(X)
  BY ClosedEarlier DEF Supported, Index!Reading
<1>2. PICK g : g = Index!Canonized(f)
  OBVIOUS
<1>3. Index!Canonized(g)' \in X
  BY <1>1, <1>2 DEF Earlier
<1>4. \A v : Canonical(egraph', Canonical(egraph, v)) = Canonical(egraph', v)
  BY DEF Moves, Continues
<1>5. Index!Canonized(g)' = Index!Canonized(f)'
  BY <1>2, <1>4, FactForms, FactFormsNext DEF Shaped, IsFact
<1> QED  BY <1>3, <1>5

----------------------------------------------------------------------------
(* Insertions.                                                             *)

\* While maps and e-graph stay, the rules do.
Stays == UNCHANGED <<grammar, expressions, memos, contexts, egraph>>

LEMMA SameReadings ==
  ASSUME Stays, NEW X
  PROVE  /\ schema' = schema
         /\ \A e : Index!ExpressionAction(e)' = Index!ExpressionAction(e)
         /\ \A c : Index!ContextAction(c)' = Index!ContextAction(c)
         /\ \A e : Index!Selected(e)' = Index!Selected(e)
         /\ \A c : Index!ContextChildren(c)' = Index!ContextChildren(c)
         /\ \A e : Index!ImpliedValues(X, e)' = Index!ImpliedValues(X, e)
         /\ \A c : Index!ImpliedAt(X, c)' = Index!ImpliedAt(X, c)
         /\ \A m : Index!ImpliedBelow(X, m)' = Index!ImpliedBelow(X, m)
<1>1. schema' = schema
  BY DEF Stays, schema
<1>2. /\ \A e : Index!ExpressionAction(e)' = Index!ExpressionAction(e)
      /\ \A c : Index!ContextAction(c)' = Index!ContextAction(c)
  BY <1>1 DEF Stays, Index!ExpressionAction, Index!ContextAction, Index!Action
<1>3. /\ \A e : Index!ExpressionChildren(e)' = Index!ExpressionChildren(e)
      /\ \A c, p : Index!ContextChild(c, p)' = Index!ContextChild(c, p)
  BY <1>2 DEF Stays, Index!ExpressionChildren, Index!ContextChild
<1>4. /\ \A e : Index!Selected(e)' = Index!Selected(e)
      /\ \A c : Index!ContextChildren(c)' = Index!ContextChildren(c)
      /\ \A t : Index!TerminalValues(t)' = Index!TerminalValues(t)
      /\ \A e : Index!ExpressionRows(e)' = Index!ExpressionRows(e)
  BY <1>1, <1>2, <1>3
     DEF Stays, Index!Selected, Index!ContextChildren, Index!TerminalValues,
         Index!ExpressionRows
<1>5. ASSUME NEW c, NEW r
      PROVE  Index!HoleFact(c, r)' = Index!HoleFact(c, r)
  <2>1. Index!ContextChildren(c)' = Index!ContextChildren(c)
    BY <1>4
  <2> QED  BY <2>1 DEF Index!HoleFact
<1>6. \A e : Index!ImpliedValues(X, e)' = Index!ImpliedValues(X, e)
  BY <1>2, <1>3, <1>4 DEF Stays, Index!ImpliedValues
<1>7. \A c, v : Index!ImpliedDemand(X, c, v)' = Index!ImpliedDemand(X, c, v)
  BY <1>2, <1>4, <1>5 DEF Stays, Index!ImpliedDemand
<1>8. /\ \A c : Index!ImpliedAt(X, c)' = Index!ImpliedAt(X, c)
      /\ \A m : Index!ImpliedBelow(X, m)' = Index!ImpliedBelow(X, m)
  BY <1>7 DEF Stays, Index!ImpliedAt, Index!ImpliedBelow
<1> QED  BY <1>1, <1>2, <1>4, <1>6, <1>8

LEMMA SameRules ==
  ASSUME Stays, NEW X
  PROVE  Closed(X)' <=> Closed(X)
BY SameReadings DEF Stays, Closed, Index!Implied

\* What follows may be inserted.
Follows(f) == IsFact(f) /\ \A X : Holds(X) => Index!Canonized(f) \in X

LEMMA InsertsFollow ==
  ASSUME Stays, Shaped, Supported, NEW F, \A f \in F : Follows(f),
         closure' = closure \cup F
  PROVE  Shaped' /\ Supported'
<1>1. Shaped'
  BY DEF Shaped, IsFact, Follows
<1>2. ASSUME NEW X, Closed(X)', NEW f \in closure'
      PROVE  Index!Canonized(f)' \in X
  <2>1. Closed(X)
    BY <1>2, SameRules
  <2>2. Holds(X)
    BY <2>1 DEF Supported, Holds
  <2>3. Index!Canonized(f) \in X
    BY <2>2 DEF Follows, Holds, Index!Reading
  <2>4. Index!Canonized(f)' = Index!Canonized(f)
    BY DEF Stays, Index!Canonized
  <2> QED  BY <2>3, <2>4
<1>3. Supported'
  BY <1>2 DEF Supported, Index!Reading
<1> QED  BY <1>1, <1>3

\* Facts are made by Produces, RealizableFor and Realizable only.
LEMMA FactsMade ==
  /\ \A e, v : IsFact(Index!Produces(e, v))
  /\ \A s, v : IsFact(Index!RealizableFor(s, v))
  /\ \A s : IsFact(Index!Realizable(s))
BY FactForms DEF IsFact

LEMMA InsertedForms ==
  /\ \A e : \A f \in Index!RecheckExpression(e) : IsFact(f)
  /\ \A c : \A f \in Index!RecheckContext(c) : IsFact(f)
  /\ \A e, child, v : \A f \in Index!PropagateValue(e, child, v) : IsFact(f)
  /\ \A c, v : \A f \in Index!PropagateDemand(c, v) : IsFact(f)
  /\ \A c, e, v : \A f \in Index!PropagateContextValue(c, e, v) : IsFact(f)
  /\ \A tops : \A f \in Index!Targets(tops) : IsFact(f)
  /\ \A s, t : \A f \in Index!Passed(s, t) : IsFact(f)
<1>1. \A c, r : IsFact(Index!HoleFact(c, r))
  BY FactsMade DEF Index!HoleFact
<1>2. \A c, v : \A f \in Index!PropagateDemand(c, v) : IsFact(f)
  BY <1>1, FactsMade DEF Index!PropagateDemand
<1>3. ASSUME NEW c, NEW e, NEW v, NEW f \in Index!PropagateContextValue(c, e, v)
      PROVE  IsFact(f)
  <2> DEFINE children == Index!ContextChildren(c)
             Rows(demand, a) == {x \in Index!DemandedRows(c, demand) :
                                   Index!Equivalent(egraph, x.children[a], v)}
             Told(demand, a) == {Index!HoleFact(c, r) :
                                   r \in Index!RowsMatching(Rows(demand, a), children, {a})}
             demands == Index!Demands(Index!MemoSite(contexts[c].memo))
  <2>1. CASE Index!ContextAction(c).constructor # Index!None
    <3>1. Index!PropagateContextValue(c, e, v) =
            UNION {Told(demand, a) : demand \in demands,
                                     a \in {x \in DOMAIN children : children[x] = e}}
      BY <2>1 DEF Index!PropagateContextValue
    <3>2. \A demand, a : \A g \in Told(demand, a) : IsFact(g)
      BY <1>1
    <3> HIDE DEF Told, demands
    <3> QED  BY <1>3, <3>1, <3>2
  <2>2. CASE Index!ContextAction(c).constructor = Index!None
    BY <1>3, <2>2, FactsMade DEF Index!PropagateContextValue
  <2> QED  BY <2>1, <2>2
<1>4. \A c : \A f \in Index!RecheckContext(c) : IsFact(f)
  BY <1>2, FactsMade DEF Index!RecheckContext
<1>5. \A e : \A f \in Index!RecheckExpression(e) : IsFact(f)
  BY FactsMade DEF Index!RecheckExpression
<1>6. \A e, child, v : \A f \in Index!PropagateValue(e, child, v) : IsFact(f)
  BY FactsMade DEF Index!PropagateValue
<1>7. \A tops : \A f \in Index!Targets(tops) : IsFact(f)
  BY FactsMade DEF Index!Targets
<1>8. \A s, t : \A f \in Index!Passed(s, t) : IsFact(f)
  BY FactsMade DEF Index!Passed
<1> QED  BY <1>2, <1>3, <1>4, <1>5, <1>6, <1>7, <1>8

----------------------------------------------------------------------------
(* The agenda.                                                             *)

LEMMA StackedOn ==
  ASSUME NEW C, NEW D, C \subseteq D, NEW s, Stack(s, C),
         NEW F \in SUBSET D, \A i \in DOMAIN s : F \cap s[i] = {}
  PROVE  Stack(Index!Stacked(F, s), D)
<1>1. s \in Seq(SUBSET D)
  <2>1. Len(s) \in Nat /\ s \in [1 .. Len(s) -> SUBSET C]
    BY SeqDef DEF Stack
  <2>2. s \in [1 .. Len(s) -> SUBSET D]
    BY <2>1
  <2> QED  BY <2>1, <2>2, SeqDef
<1>2. CASE F = {}
  BY <1>1, <1>2 DEF Index!Stacked, Stack
<1>3. CASE F # {}
  <2> DEFINE t == <<F>> \o s
  <2>1. Index!Stacked(F, s) = t
    BY <1>3 DEF Index!Stacked
  <2>2. t \in Seq(SUBSET D) /\ Len(t) = 1 + Len(s) /\ Len(s) \in Nat
        /\ DOMAIN t = 1 .. 1 + Len(s) /\ DOMAIN s = 1 .. Len(s)
    BY <1>1
  <2>3. \A i \in DOMAIN t : \/ i = 1 /\ t[i] = F
                            \/ i # 1 /\ i - 1 \in DOMAIN s /\ t[i] = s[i - 1]
    BY <1>1, <2>2
  <2> HIDE DEF t
  <2>4. ASSUME NEW i \in DOMAIN t, NEW j \in DOMAIN t
        PROVE  t[i] # {} /\ (i # j => t[i] \cap t[j] = {})
    <3>1. i - 1 = j - 1 => i = j
      BY <2>2
    <3> QED  BY <1>3, <2>3, <2>4, <3>1 DEF Stack
  <2> QED  BY <2>1, <2>2, <2>4 DEF Stack
<1> QED  BY <1>2, <1>3

LEMMA StackTail ==
  ASSUME NEW C, NEW s, Stack(s, C), s # <<>>
  PROVE  /\ Stack(Tail(s), C) /\ Head(s) \subseteq C
         /\ \A i \in DOMAIN Tail(s) : Head(s) \cap Tail(s)[i] = {}
<1>1. /\ Len(s) \in Nat /\ Len(s) > 0 /\ DOMAIN s = 1 .. Len(s)
      /\ s \in Seq(SUBSET C)
  BY DEF Stack
<1>2. /\ Tail(s) \in Seq(SUBSET C) /\ Head(s) = s[1] /\ 1 \in DOMAIN s
      /\ DOMAIN Tail(s) = 1 .. Len(s) - 1
  BY <1>1
<1>3. \A i \in DOMAIN Tail(s) : i + 1 \in DOMAIN s /\ Tail(s)[i] = s[i + 1] /\ i + 1 # 1
  BY <1>1, <1>2
<1>4. \A i, j \in DOMAIN Tail(s) : i + 1 = j + 1 => i = j
  BY <1>2
<1> QED  BY <1>1, <1>2, <1>3, <1>4 DEF Stack

\* `insert`: what is known already is no event.
LEMMA InsertedAbove ==
  ASSUME AgendaOK, NEW F, NEW s, Stack(s, closure), Index!InsertAbove(F, s)
  PROVE  AgendaOK' /\ closure' = closure \cup F
<1>1. closure' = closure \cup F /\ agenda' = Index!Stacked(F \ closure, s)
  BY DEF Index!InsertAbove
<1>2. \A i \in DOMAIN s : (F \ closure) \cap s[i] = {}
  <2>1. Len(s) \in Nat /\ s \in [1 .. Len(s) -> SUBSET closure]
    BY SeqDef DEF Stack
  <2> QED  BY <2>1
<1>3. Stack(agenda', closure')
  BY <1>1, <1>2, StackedOn
<1> QED  BY <1>1, <1>3 DEF AgendaOK

----------------------------------------------------------------------------
(* The log and the indexes stay true.                                      *)

LEMMA StaysGrows ==
  ASSUME Stays
  PROVE  ParserProofs!GraphGrows
BY DEF Stays, ParserProofs!GraphGrows, ParserProofs!Extends

LEMMA BoundedGrows ==
  ASSUME ParserProofs!GraphGrows, NEW known, Bounded(known)
  PROVE  Bounded(known)'
<1>1. /\ \A e \in DOMAIN expressions : e \in DOMAIN expressions'
           /\ Range(Index!Selected(e)) \subseteq Range(Index!Selected(e)')
      /\ \A c \in DOMAIN contexts : c \in DOMAIN contexts' /\ contexts'[c] = contexts[c]
           /\ Index!ContextChildren(c)' = Index!ContextChildren(c)
      /\ \A m \in DOMAIN memos : m \in DOMAIN memos'
           /\ Range(memos[m].parents) \subseteq Range(memos'[m].parents)
  BY MovedNodes, MovedReadings
<1>2. ASSUME NEW x \in known.consumers_by_expression
      PROVE  \/ \E e \in DOMAIN expressions' : \E child \in Range(Index!Selected(e)') :
                  x = <<child, Index!ExpressionConsumer(e)>>
             \/ \E c \in DOMAIN contexts' : contexts'[c].tag = "Seq" /\
                  \E child \in Range(Index!ContextChildren(c)') \ {Index!Hole} :
                    x = <<child, Index!ContextConsumer(c)>>
  <2>1. \/ \E e \in DOMAIN expressions : \E child \in Range(Index!Selected(e)) :
             x = <<child, Index!ExpressionConsumer(e)>>
        \/ \E c \in DOMAIN contexts : contexts[c].tag = "Seq" /\
             \E child \in Range(Index!ContextChildren(c)) \ {Index!Hole} :
               x = <<child, Index!ContextConsumer(c)>>
    BY <1>2 DEF Bounded
  <2> QED  BY <1>1, <2>1
<1>3. ASSUME NEW x \in known.consumers_by_constructor
      PROVE  \/ \E e \in DOMAIN expressions' : x[2] = Index!ExpressionConsumer(e)
             \/ \E c \in DOMAIN contexts' : x[2] = Index!ContextConsumer(c)
  <2>1. \/ \E e \in DOMAIN expressions : x[2] = Index!ExpressionConsumer(e)
        \/ \E c \in DOMAIN contexts : x[2] = Index!ContextConsumer(c)
    BY <1>3 DEF Bounded
  <2> QED  BY <1>1, <2>1
<1>4. ASSUME NEW x \in known.expressions_by_terminal
      PROVE  x[2] \in DOMAIN expressions'
  BY <1>1, <1>4 DEF Bounded
<1>5. ASSUME NEW x \in known.memos_by_context
      PROVE  \E m \in DOMAIN memos' : \E c \in Range(memos'[m].parents) : x = <<c, m>>
  <2>1. \E m \in DOMAIN memos : \E c \in Range(memos[m].parents) : x = <<c, m>>
    BY <1>5 DEF Bounded
  <2> QED  BY <1>1, <2>1
<1>6. ASSUME NEW x \in known.contexts_by_outer_memo
      PROVE  \E c \in DOMAIN contexts' : contexts'[c].tag # "Top" /\ x = <<contexts'[c].memo, c>>
  <2>1. \E c \in DOMAIN contexts : contexts[c].tag # "Top" /\ x = <<contexts[c].memo, c>>
    BY <1>6 DEF Bounded
  <2> QED  BY <1>1, <2>1
<1>7. ASSUME NEW c \in known.top_contexts
      PROVE  c \in DOMAIN contexts' /\ contexts'[c].tag = "Top"
  BY <1>1, <1>7 DEF Bounded
<1> QED  BY <1>2, <1>3, <1>4, <1>5, <1>6, <1>7 DEF Bounded

\* What `index_expression` and its like note of a true log is true.
LEMMA IndexedBounded ==
  ASSUME NEW told, told \subseteq GraphLog, IndexTrue
  PROVE  Bounded(Index!Indexed(told))
<1> DEFINE new == Index!Indexed(told)
<1>0. /\ Index!NewExpressions(told) \subseteq DOMAIN expressions
      /\ Index!NewContexts(told) \subseteq DOMAIN contexts
      /\ \A x \in Index!Named(told, "MemoParentAppended") :
           x.memo \in DOMAIN memos /\ x.context \in Range(memos[x.memo].parents)
      /\ \A x \in Index!Named(told, "AlternativeChildAppended") :
           /\ x.alternative \in DOMAIN expressions
           /\ expressions[x.alternative].node.tag = "Alt"
           /\ x.child \in Range(expressions[x.alternative].node.children)
  BY LogNames
<1>1. ASSUME NEW x \in new.consumers_by_expression
      PROVE  \/ \E e \in DOMAIN expressions : \E child \in Range(Index!Selected(e)) :
                  x = <<child, Index!ExpressionConsumer(e)>>
             \/ \E c \in DOMAIN contexts : contexts[c].tag = "Seq" /\
                  \E child \in Range(Index!ContextChildren(c)) \ {Index!Hole} :
                    x = <<child, Index!ContextConsumer(c)>>
  <2>1. \/ x \in indexes.consumers_by_expression
        \/ \E e \in Index!NewExpressions(told) : \E child \in Index!Range(Index!Selected(e)) :
             x = <<child, Index!ExpressionConsumer(e)>>
        \/ \E y \in Index!Named(told, "AlternativeChildAppended") :
             x = <<y.child, Index!ExpressionConsumer(y.alternative)>>
        \/ \E c \in Index!SeqContexts(told) :
             \E child \in Index!Range(Index!ContextChildren(c)) \ {Index!Hole} :
               x = <<child, Index!ContextConsumer(c)>>
    BY <1>1 DEF Index!Indexed
  <2>2. CASE x \in indexes.consumers_by_expression
    BY <2>2 DEF IndexTrue, Bounded
  <2>3. CASE \E e \in Index!NewExpressions(told) : \E child \in Index!Range(Index!Selected(e)) :
               x = <<child, Index!ExpressionConsumer(e)>>
    BY <1>0, <2>3, IndexNames
  <2>4. CASE \E y \in Index!Named(told, "AlternativeChildAppended") :
               x = <<y.child, Index!ExpressionConsumer(y.alternative)>>
    <3>1. PICK y \in Index!Named(told, "AlternativeChildAppended") :
            x = <<y.child, Index!ExpressionConsumer(y.alternative)>>
      BY <2>4
    <3>2. Index!Selected(y.alternative) = expressions[y.alternative].node.children
      BY <1>0 DEF Index!Selected
    <3> QED  BY <1>0, <3>1, <3>2
  <2>5. CASE \E c \in Index!SeqContexts(told) :
               \E child \in Index!Range(Index!ContextChildren(c)) \ {Index!Hole} :
                 x = <<child, Index!ContextConsumer(c)>>
    <3>1. Index!SeqContexts(told) \subseteq {c \in DOMAIN contexts : contexts[c].tag = "Seq"}
      BY <1>0 DEF Index!SeqContexts
    <3> QED  BY <2>5, <3>1, IndexNames
  <2> QED  BY <2>1, <2>2, <2>3, <2>4, <2>5
<1>2. ASSUME NEW x \in new.consumers_by_constructor
      PROVE  \/ \E e \in DOMAIN expressions : x[2] = Index!ExpressionConsumer(e)
             \/ \E c \in DOMAIN contexts : x[2] = Index!ContextConsumer(c)
  <2>1. x \in indexes.consumers_by_constructor \/ x \in Index!Constructing(told)
    BY <1>2 DEF Index!Indexed
  <2>2. CASE x \in indexes.consumers_by_constructor
    BY <2>2 DEF IndexTrue, Bounded
  <2>3. CASE x \in Index!Constructing(told)
    BY <1>0, <2>3 DEF Index!Constructing, Index!SeqExpressions, Index!SeqContexts
  <2> QED  BY <2>1, <2>2, <2>3
<1>3. ASSUME NEW x \in new.expressions_by_terminal
      PROVE  x[2] \in DOMAIN expressions
  <2>1. x \in indexes.expressions_by_terminal
        \/ \E e \in Index!NewExpressions(told) : x = <<expressions[e].node.terminal, e>>
    BY <1>3 DEF Index!Indexed
  <2> QED  BY <1>0, <2>1 DEF IndexTrue, Bounded
<1>4. ASSUME NEW x \in new.memos_by_context
      PROVE  \E m \in DOMAIN memos : \E c \in Range(memos[m].parents) : x = <<c, m>>
  <2>1. x \in indexes.memos_by_context
        \/ \E y \in Index!Named(told, "MemoParentAppended") : x = <<y.context, y.memo>>
    BY <1>4 DEF Index!Indexed
  <2>2. CASE x \in indexes.memos_by_context
    BY <2>2 DEF IndexTrue, Bounded
  <2> QED  BY <1>0, <2>1, <2>2
<1>5. ASSUME NEW x \in new.contexts_by_outer_memo
      PROVE  \E c \in DOMAIN contexts : contexts[c].tag # "Top" /\ x = <<contexts[c].memo, c>>
  <2>1. x \in indexes.contexts_by_outer_memo
        \/ \E c \in Index!NewContexts(told) :
             contexts[c].tag # "Top" /\ x = <<contexts[c].memo, c>>
    BY <1>5 DEF Index!Indexed
  <2>2. CASE x \in indexes.contexts_by_outer_memo
    BY <2>2 DEF IndexTrue, Bounded
  <2> QED  BY <1>0, <2>1, <2>2
<1>6. ASSUME NEW c \in new.top_contexts
      PROVE  c \in DOMAIN contexts /\ contexts[c].tag = "Top"
  BY <1>0, <1>6 DEF Index!Indexed, IndexTrue, Bounded
<1> HIDE DEF new
<1> QED  BY <1>1, <1>2, <1>3, <1>4, <1>5, <1>6 DEF Bounded, new

LEMMA LogGrows ==
  ASSUME ParserProofs!GraphGrows
  PROVE  GraphLog \subseteq GraphLog'
<1>1. /\ \A e \in DOMAIN expressions :
           /\ e \in DOMAIN expressions'
           /\ expressions'[e].node.tag = expressions[e].node.tag
           /\ expressions[e].node.tag = "Alt" =>
                Range(expressions[e].node.children) \subseteq Range(expressions'[e].node.children)
      /\ \A c \in DOMAIN contexts : c \in DOMAIN contexts'
      /\ \A m \in DOMAIN memos :
           /\ m \in DOMAIN memos'
           /\ Range(memos[m].parents) \subseteq Range(memos'[m].parents)
  BY MovedNodes
<1>2. Index!InitialLog \subseteq Index!InitialLog'
  <2>1. ASSUME NEW x \in Index!InitialLog
        PROVE  x \in Index!InitialLog'
    <3>1. \/ \E e \in DOMAIN expressions : x = Index!NewExpression(e)
          \/ \E c \in DOMAIN contexts : x = Index!NewContext(c)
          \/ \E m \in DOMAIN memos : \E c \in Range(memos[m].parents) :
               x = Index!ParentAppended(m, c)
      BY <2>1, IndexNames DEF Index!InitialLog
    <3>2. \/ \E e \in DOMAIN expressions' : x = Index!NewExpression(e)
          \/ \E c \in DOMAIN contexts' : x = Index!NewContext(c)
          \/ \E m \in DOMAIN memos' : \E c \in Range(memos'[m].parents) :
               x = Index!ParentAppended(m, c)
      <4>1. CASE \E m \in DOMAIN memos : \E c \in Range(memos[m].parents) :
                   x = Index!ParentAppended(m, c)
        <5>1. PICK m \in DOMAIN memos : \E c \in Range(memos[m].parents) :
                x = Index!ParentAppended(m, c)
          BY <4>1
        <5>2. m \in DOMAIN memos' /\ Range(memos[m].parents) \subseteq Range(memos'[m].parents)
          BY <1>1, <5>1
        <5> QED  BY <5>1, <5>2
      <4> QED  BY <1>1, <3>1, <4>1
    <3> QED  BY <3>2, IndexNames DEF Index!InitialLog
  <2> QED  BY <2>1
<1>3. PackedChildren \subseteq PackedChildren'
  <2>1. ASSUME NEW x \in PackedChildren
        PROVE  x \in PackedChildren'
    <3>1. PICK e \in DOMAIN expressions :
            /\ expressions[e].node.tag = "Alt"
            /\ \E child \in Range(expressions[e].node.children) : x = ChildAppended(e, child)
      BY <2>1 DEF PackedChildren
    <3>2. PICK child \in Range(expressions[e].node.children) : x = ChildAppended(e, child)
      BY <3>1
    <3>3. e \in DOMAIN expressions' /\ expressions'[e].node.tag = "Alt"
          /\ child \in Range(expressions'[e].node.children)
      BY <1>1, <3>1, <3>2
    <3> QED  BY <3>2, <3>3 DEF PackedChildren
  <2> QED  BY <2>1
<1> QED  BY <1>2, <1>3 DEF GraphLog

----------------------------------------------------------------------------
(* The steps of the index, between which maps and e-graph stay.            *)

IndexOK == IndexTrue /\ Shaped /\ Supported /\ AgendaOK

LEMMA BoundedStays ==
  ASSUME Stays, NEW known, Bounded(known), indexes' = known
  PROVE  IndexTrue'
<1>1. Bounded(known)'
  BY StaysGrows, BoundedGrows
<1> QED  BY <1>1 DEF IndexTrue, Bounded

\* `update_pwz`, told of some of the graph.
LEMMA TellKeeps ==
  ASSUME MapsOK, EGraphOK, IndexOK, Stays,
         NEW told, told \subseteq GraphLog, Index!UpdatePwz(told)
  PROVE  IndexOK'
<1>1. /\ indexes' = Index!Indexed(told)
      /\ Index!InsertAbove(Index!FirstFacts(told), agenda)
  BY DEF Index!UpdatePwz, Index!Insert
<1>2. IndexTrue'
  BY <1>1, IndexedBounded, BoundedStays DEF IndexOK
<1>3. AgendaOK' /\ closure' = closure \cup Index!FirstFacts(told)
  BY <1>1, InsertedAbove DEF IndexOK, AgendaOK
<1>4. \A f \in Index!FirstFacts(told) : IsFact(f)
  BY InsertedForms, FactsMade DEF Index!FirstFacts
<1>5. \A f \in Index!FirstFacts(told) : Follows(f)
  BY <1>4, FirstFactsFollow DEF IndexOK, Follows
<1>6. Shaped' /\ Supported'
  BY <1>3, <1>5, InsertsFollow DEF IndexOK
<1> QED  BY <1>2, <1>3, <1>6 DEF IndexOK

\* One turn of `close`.
LEMMA CloseKeeps ==
  ASSUME MapsOK, EGraphOK, IndexOK, Stays, agenda # <<>>,
         NEW event \in Head(agenda), Index!CloseEvent(event)
  PROVE  IndexOK'
<1> DEFINE rest == Index!Stacked(Head(agenda) \ {event}, Tail(agenda))
<1>2. indexes' = indexes /\ Index!InsertAbove(Index!Consequences(event), rest)
  BY DEF Index!CloseEvent
<1>3. Stack(rest, closure) /\ event \in closure
  <2>1. /\ Stack(Tail(agenda), closure) /\ Head(agenda) \subseteq closure
        /\ \A i \in DOMAIN Tail(agenda) : Head(agenda) \cap Tail(agenda)[i] = {}
    BY StackTail DEF IndexOK, AgendaOK
  <2>2. Head(agenda) \ {event} \in SUBSET closure
        /\ \A i \in DOMAIN Tail(agenda) : (Head(agenda) \ {event}) \cap Tail(agenda)[i] = {}
    BY <2>1
  <2> QED  BY <2>1, <2>2, StackedOn
<1> HIDE DEF rest
<1>4. AgendaOK' /\ closure' = closure \cup Index!Consequences(event)
  BY <1>2, <1>3, InsertedAbove DEF IndexOK
<1>5. event.fact # "Produces" => event.site \in Index!Site
  BY <1>3, ClosureTyped DEF IndexOK
<1>6. \A f \in Index!Consequences(event) : IsFact(f)
  <2>1. event.fact \in {"Produces", "RealizableFor", "Realizable"}
    BY <1>3, FactKinds DEF IndexOK, Shaped
  <2>2. CASE event.fact = "Produces"
    BY <2>2, InsertedForms DEF Index!Consequences
  <2>3. CASE event.fact # "Produces"
    <3>1. event.site.site \in {"Memo", "Context"}
      BY <1>5, <2>3, SiteForms DEF Index!Site
    <3> QED  BY <2>1, <2>3, <3>1, InsertedForms, FactsMade DEF Index!Consequences
  <2> QED  BY <2>2, <2>3
<1>7. \A f \in Index!Consequences(event) : Follows(f)
  BY <1>3, <1>5, <1>6, ConsequencesFollow DEF IndexOK, Follows
<1>8. Shaped' /\ Supported'
  BY <1>4, <1>7, InsertsFollow DEF IndexOK
<1>9. IndexTrue'
  BY <1>2, BoundedStays DEF IndexOK, IndexTrue
<1> QED  BY <1>4, <1>8, <1>9 DEF IndexOK

\* `update_egraph`, told of some changes.
LEMMA ReportKeeps ==
  ASSUME MapsOK, EGraphOK, IndexOK, Stays,
         NEW marks, \A x \in marks : x.change \in {"Target", "Terminal", "Constructor"},
         Index!UpdateEGraph(marks)
  PROVE  IndexOK'
<1> DEFINE new == UNION {Index!ChangeFacts(x) : x \in marks}
<1>1. indexes' = indexes /\ Index!InsertAbove(new, agenda)
  BY DEF Index!UpdateEGraph, Index!Insert
<1>2. AgendaOK' /\ closure' = closure \cup new
  BY <1>1, InsertedAbove DEF IndexOK, AgendaOK
<1>3. \A x \in marks : \A f \in Index!ChangeFacts(x) : IsFact(f)
  BY InsertedForms DEF Index!ChangeFacts, Index!RecheckConsumer
<1>4. \A x \in marks : \A f \in Index!ChangeFacts(x) : Follows(f)
  BY <1>3, ChangeFactsFollow DEF IndexOK, Follows
<1>5. \A f \in new : Follows(f)
  BY <1>4
<1> HIDE DEF new
<1>6. Shaped' /\ Supported'
  BY <1>2, <1>5, InsertsFollow DEF IndexOK
<1>7. IndexTrue'
  BY <1>1, BoundedStays DEF IndexOK, IndexTrue
<1> QED  BY <1>2, <1>6, <1>7 DEF IndexOK

\* Nothing happens to maps, e-graph and index.
LEMMA StaysKeeps ==
  ASSUME IndexOK, Stays, UNCHANGED link
  PROVE  IndexOK'
<1>1. indexes' = indexes /\ closure' = closure /\ agenda' = agenda
  BY DEF link
<1>2. IndexTrue'
  BY <1>1, BoundedStays DEF IndexOK, IndexTrue
<1>3. PICK F : F = {}
  OBVIOUS
<1>4. closure' = closure \cup F /\ \A f \in F : Follows(f)
  BY <1>1, <1>3
<1>5. Shaped' /\ Supported'
  BY <1>4, InsertsFollow DEF IndexOK
<1>6. AgendaOK'
  BY <1>1 DEF IndexOK, AgendaOK
<1> QED  BY <1>2, <1>5, <1>6 DEF IndexOK

----------------------------------------------------------------------------
(* What the proofs about the parser say of its maps.                       *)

ParserOK == ParserProofs!Reported /\ ParserProofs!Given /\ grammar \in Grammars

LEMMA ParserTyped ==
  ASSUME ParserOK
  PROVE  LET E == DOMAIN expressions
             M == DOMAIN memos
             C == DOMAIN contexts
         IN /\ IsFiniteSet(E) /\ IsFiniteSet(M) /\ IsFiniteSet(C)
            /\ \A e \in E : expressions[e].node \in ParserProofs!Node(E)
            /\ \A c \in C : contexts[c] \in ParserProofs!Context(E, M)
            /\ \A m \in M : memos[m].parents \in Seq(C)
<1> DEFINE E == DOMAIN expressions
           M == DOMAIN memos
           C == DOMAIN contexts
<1>1. /\ next_expression \in Nat /\ E \subseteq 0 .. (next_expression - 1)
      /\ next_memo \in Nat /\ M = 0 .. (next_memo - 1)
      /\ next_context \in Nat /\ C = 0 .. (next_context - 1)
      /\ expressions \in [E -> ParserProofs!Expression(E, M)]
      /\ memos \in [M -> ParserProofs!Memo(E, C)]
      /\ contexts \in [C -> ParserProofs!Context(E, M)]
  BY DEF ParserOK, ParserProofs!Reported, ParserProofs!Inductive, ParserProofs!TypeOK
<1> HIDE DEF E, M, C
<1>2. IsFiniteSet(E) /\ IsFiniteSet(M) /\ IsFiniteSet(C)
  <2>1. \A n \in Nat : IsFiniteSet(0 .. (n - 1))
    <3>1. \A n \in Nat : 0 \in Int /\ n - 1 \in Int
      OBVIOUS
    <3> QED  BY <3>1, FS_Interval
  <2> QED  BY <1>1, <2>1, FS_Subset
<1>3. \A e \in E : expressions[e].node \in ParserProofs!Node(E)
  BY <1>1 DEF ParserProofs!Expression
<1>4. \A m \in M : memos[m].parents \in Seq(C)
  BY <1>1 DEF ParserProofs!Memo
<1> QED  BY <1>1, <1>2, <1>3, <1>4 DEF E, M, C

\* Every symbol has an action that suits its constructor.
LEMMA ActionTyped ==
  ASSUME ParserOK, NEW s \in ParserProofs!Symbol, NEW n \in Nat,
         ParserProofs!GivenSequence(s, n) \/ s.tag = "Token"
  PROVE  /\ ActionOK(Index!Action(s, n))
         /\ Index!Action(s, n).positions \in Seq(1 .. n)
         /\ n > 0 /\ s.tag # "Token" /\ Index!Action(s, n).constructor = None =>
              DOMAIN Index!Action(s, n).positions = {1}
         /\ s.tag = "Token" => Index!Action(s, n) = [constructor |-> None, positions |-> <<>>]
<1>1. CASE s.tag = "Grammar"
  <2>1. PICK e \in DOMAIN grammar.expressions :
          /\ grammar.expressions[e].tag = "Seq" /\ grammar.expressions[e].symbol = s
          /\ Len(grammar.expressions[e].children) = n
    <3>1. s # ParserProofs!Bottom /\ s.tag # "Token"
      BY <1>1 DEF ParserProofs!Bottom
    <3> QED  BY <3>1 DEF ParserProofs!GivenSequence
  <2>2. s.symbol + 1 \in DOMAIN schema.actions
        /\ schema.actions[s.symbol + 1].positions
             \in Seq(1 .. Len(grammar.expressions[e].children))
        /\ \A k \in DOMAIN schema.actions : ActionWellTyped(schema, schema.actions[k])
    BY <1>1, <2>1, GrammarsWellTyped DEF ParserOK, schema
  <2>3. Index!Action(s, n) = schema.actions[s.symbol + 1]
    BY <1>1 DEF Index!Action
  <2>4. ActionWellTyped(schema, Index!Action(s, n))
    BY <2>2, <2>3
  <2>5. Index!Action(s, n).positions \in Seq(1 .. n)
    BY <2>1, <2>2, <2>3
  <2> QED  BY <1>1, <2>4, <2>5 DEF ActionWellTyped, ActionOK
<1>2. CASE s.tag # "Grammar" /\ (s.tag # "Token" => s = Bottom)
  <2>1. Index!Action(s, n) = [constructor |-> None,
          positions |-> IF s = Index!Bottom /\ n > 0 THEN <<n>> ELSE <<>>]
    BY <1>2, IndexNames DEF Index!Action
  <2>2. (s.tag = "Token" <=> s # Bottom) /\ Index!Bottom = Bottom
    BY <1>2, IndexNames DEF Bottom
  <2>3. DOMAIN <<n>> = {1} /\ DOMAIN <<>> = {} /\ <<n>>[1] = n
    OBVIOUS
  <2>4. Index!Action(s, n).positions \in Seq(1 .. n)
    <3>1. <<>> \in Seq(1 .. n) /\ (n > 0 => <<n>> \in Seq(1 .. n))
      OBVIOUS
    <3>2. PICK action : action = Index!Action(s, n)
      OBVIOUS
    <3>3. CASE n > 0 /\ s = Index!Bottom
      <4>1. action.positions = <<n>>
        BY <2>1, <3>2, <3>3
      <4> QED  BY <3>1, <3>2, <3>3, <4>1
    <3>4. CASE ~(n > 0 /\ s = Index!Bottom)
      <4>1. action.positions = <<>>
        BY <2>1, <3>2, <3>4
      <4> QED  BY <3>1, <3>2, <4>1
    <3> QED  BY <3>3, <3>4
  <2> QED  BY <2>1, <2>2, <2>3, <2>4 DEF ActionOK
<1>3. s.tag \notin {"Grammar", "Token"} => s = Bottom
  BY DEF ParserProofs!Symbol, ParserProofs!Bottom, Bottom
<1> QED  BY <1>1, <1>2, <1>3

LEMMA MapsTyped ==
  ASSUME ParserOK
  PROVE  MapsOK /\ SchemaOK
<1>1. SchemaOK
  BY GrammarsWellTyped DEF ParserOK, SchemaOK, schema
<1>2. ASSUME NEW e \in DOMAIN expressions
      PROVE  LET node == expressions[e].node IN
             /\ node.tag \in {"Tok", "Seq", "Alt"}
             /\ node.tag = "Tok" => node.terminal \in DOMAIN schema.lexemes
             /\ node.tag = "Seq" => ActionOK(Index!ExpressionAction(e))
             /\ Index!IsLeaf(node) => /\ IsFiniteSet(node.symbol.token.payload)
                                      /\ \A v \in node.symbol.token.payload :
                                           v.sort \in LexicalSorts(schema)
                                      /\ Index!ExpressionAction(e) = [constructor |-> None, positions |-> <<>>]
  <2> DEFINE node == expressions[e].node
  <2>1. node \in ParserProofs!Node(DOMAIN expressions) /\ ParserProofs!GivenNode(node)
    BY ParserTyped DEF ParserOK, ParserProofs!Given
  <2>2. node.tag \in {"Tok", "Seq", "Alt"} /\ (node.tag = "Seq" => node.symbol \in ParserProofs!Symbol)
    BY <2>1 DEF ParserProofs!Node
  <2>3. ASSUME node.tag = "Tok"
        PROVE  node.terminal \in DOMAIN schema.lexemes
    <3>1. PICK g \in DOMAIN grammar.expressions : grammar.expressions[g] = node
      BY <2>1, <2>3 DEF ParserProofs!GivenNode
    <3> QED  BY <2>3, <3>1, GrammarsWellTyped DEF ParserOK, schema
  <2>4. ASSUME node.tag = "Seq"
        PROVE  ActionOK(Index!ExpressionAction(e))
               /\ (node.symbol.tag = "Token" =>
                     Index!ExpressionAction(e) = [constructor |-> None, positions |-> <<>>])
    <3>1. \/ ParserProofs!GivenSequence(node.symbol, Len(node.children))
          \/ node.symbol.tag = "Token"
      BY <2>1, <2>4 DEF ParserProofs!GivenNode
    <3>2. Len(node.children) \in Nat
      BY <2>1, <2>4 DEF ParserProofs!Node
    <3> QED  BY <2>2, <2>4, <3>1, <3>2, ActionTyped DEF Index!ExpressionAction
  <2>5. ASSUME node.tag = "Seq", node.symbol.tag = "Token"
        PROVE  /\ IsFiniteSet(node.symbol.token.payload)
               /\ \A v \in node.symbol.token.payload : v.sort \in LexicalSorts(schema)
    <3>1. node.symbol.token \in Tokens
      BY <2>2, <2>5 DEF ParserProofs!Symbol, ParserProofs!Bottom
    <3>2. {v.sort : v \in node.symbol.token.payload} \subseteq LexicalSorts(schema)
      BY <3>1, PayloadsLexical DEF ParserOK, schema
    <3> QED  BY <3>1, <3>2, PayloadsFinite
  <2> QED  BY <2>2, <2>3, <2>4, <2>5 DEF Index!IsLeaf
<1>3. ASSUME NEW c \in DOMAIN contexts
      PROVE  /\ contexts[c].tag \in {"Top", "Seq", "Alt"}
             /\ contexts[c].tag # "Top" => contexts[c].memo \in DOMAIN memos
             /\ contexts[c].tag = "Seq" =>
                  /\ ActionOK(Index!ContextAction(c))
                  /\ Index!ContextAction(c).constructor = None =>
                       DOMAIN Index!ContextAction(c).positions = {1}
  <2>1. contexts[c] \in ParserProofs!Context(DOMAIN expressions, DOMAIN memos)
    BY ParserTyped
  <2>2. /\ contexts[c].tag \in {"Top", "Seq", "Alt"}
        /\ contexts[c].tag # "Top" => contexts[c].memo \in DOMAIN memos
        /\ contexts[c].tag = "Seq" => contexts[c].symbol \in ParserProofs!Symbol
    BY <2>1 DEF ParserProofs!Context, ParserProofs!TopContext
  <2>3. contexts[c].tag = "Seq" =>
          ParserProofs!GivenSequence(contexts[c].symbol,
            Len(contexts[c].left) + 1 + Len(contexts[c].right))
    BY DEF ParserOK, ParserProofs!Given, ParserProofs!GivenContext
  <2>4. ASSUME contexts[c].tag = "Seq"
        PROVE  /\ ActionOK(Index!ContextAction(c))
               /\ Index!ContextAction(c).constructor = None =>
                    DOMAIN Index!ContextAction(c).positions = {1}
    <3> DEFINE n == Len(contexts[c].left) + 1 + Len(contexts[c].right)
    <3>1. n \in Nat /\ n > 0
      <4>1. /\ contexts[c].left \in Seq(DOMAIN expressions)
            /\ contexts[c].right \in Seq(DOMAIN expressions)
        BY <2>1, <2>4 DEF ParserProofs!Context, ParserProofs!TopContext
      <4>2. Len(contexts[c].left) \in Nat /\ Len(contexts[c].right) \in Nat
        BY <4>1, LenProperties
      <4>3. \A a, b \in Nat : a + 1 + b \in Nat /\ a + 1 + b > 0
        OBVIOUS
      <4> QED  BY <4>2, <4>3
    <3>2. contexts[c].symbol.tag # "Token"
      <4>1. contexts[c].symbol # ParserProofs!Bottom =>
              \E e \in DOMAIN grammar.expressions :
                /\ grammar.expressions[e].tag = "Seq"
                /\ grammar.expressions[e].symbol = contexts[c].symbol
        BY <2>3, <2>4 DEF ParserProofs!GivenSequence
      <4> QED  BY <4>1, GrammarsWellTyped DEF ParserOK, ParserProofs!Bottom
    <3> HIDE DEF n
    <3>3. Index!ContextAction(c) = Index!Action(contexts[c].symbol, n)
      BY DEF Index!ContextAction, n
    <3>4. ParserProofs!GivenSequence(contexts[c].symbol, n)
      BY <2>3, <2>4 DEF n
    <3>5. contexts[c].symbol \in ParserProofs!Symbol
      BY <2>2, <2>4
    <3> QED  BY <3>1, <3>2, <3>3, <3>4, <3>5, ActionTyped
  <2> QED  BY <2>2, <2>4
<1>4. ASSUME NEW m \in DOMAIN memos
      PROVE  Range(memos[m].parents) \subseteq DOMAIN contexts
  <2>1. memos[m].parents \in Seq(DOMAIN contexts)
    BY ParserTyped
  <2> QED  BY <2>1 DEF Range
<1>5. Disjoint \notin DOMAIN schema.constructors
  BY <1>1 DEF SchemaOK, ConstructorWellTyped
<1> QED  BY <1>1, <1>2, <1>3, <1>4, <1>5, ParserTyped DEF MapsOK

\* Positions left of a hole, at it, and right of it.
LEMMA HolePositions ==
  ASSUME NEW a \in Nat, NEW b \in Nat
  PROVE  /\ a + 1 + b \in Nat
         /\ \A p \in 1 .. (a + 1 + b) :
              \/ p <= a /\ p \in 1 .. a
              \/ p = a + 1 /\ ~(p <= a)
              \/ p # a + 1 /\ ~(p <= a) /\ p - a - 1 \in 1 .. b
OBVIOUS

\* A list picked by the places of a list.
LEMMA ListPicked ==
  ASSUME NEW S, NEW n, NEW positions \in Seq(1 .. n), NEW pick,
         pick = [a \in DOMAIN positions |-> pick[a]],
         \A a \in DOMAIN positions : pick[a] \in S
  PROVE  pick \in Seq(S)
OBVIOUS

\* What is selected of a sequence is a list of what is there.
LEMMA SelectedListed ==
  ASSUME ParserOK
  PROVE  /\ \A e \in DOMAIN expressions : Index!Selected(e) \in Seq(DOMAIN expressions)
         /\ \A c \in DOMAIN contexts : contexts[c].tag = "Seq" =>
              Index!ContextChildren(c) \in Seq(DOMAIN expressions \cup {None})
<1> DEFINE E == DOMAIN expressions
<1>1. ASSUME NEW e \in E
      PROVE  Index!Selected(e) \in Seq(E)
  <2> DEFINE node == expressions[e].node
             positions == Index!ExpressionAction(e).positions
  <2>1. node \in ParserProofs!Node(E) /\ ParserProofs!GivenNode(node)
    BY ParserTyped DEF ParserOK, ParserProofs!Given
  <2>2. /\ node.tag \in {"Tok", "Seq", "Alt"}
        /\ node.tag = "Seq" => /\ node.symbol \in ParserProofs!Symbol
                               /\ node.children \in Seq(E)
        /\ node.tag = "Alt" => node.children \in Seq(E)
    BY <2>1 DEF ParserProofs!Node
  <2>3. CASE node.tag = "Tok"
    BY <2>3 DEF Index!Selected
  <2>4. CASE node.tag = "Alt"
    BY <2>2, <2>4 DEF Index!Selected
  <2>5. CASE node.tag = "Seq"
    <3>1. Len(node.children) \in Nat /\ DOMAIN node.children = 1 .. Len(node.children)
      BY <2>2, <2>5, LenProperties
    <3>2. positions \in Seq(1 .. Len(node.children))
      <4>1. \/ ParserProofs!GivenSequence(node.symbol, Len(node.children))
            \/ node.symbol.tag = "Token"
        BY <2>1, <2>5 DEF ParserProofs!GivenNode
      <4> QED  BY <2>2, <2>5, <3>1, <4>1, ActionTyped DEF Index!ExpressionAction
    <3>3. /\ Index!Selected(e) = Index!ExpressionChildren(e)
          /\ Index!ExpressionChildren(e) = [a \in DOMAIN positions |-> node.children[positions[a]]]
      BY <2>5 DEF Index!Selected, Index!ExpressionChildren
    <3>4. \A a \in DOMAIN positions : node.children[positions[a]] \in E
      BY <2>2, <2>5, <3>1, <3>2
    <3> HIDE DEF node, positions
    <3> QED  BY <3>2, <3>3, <3>4, ListPicked
  <2> QED  BY <2>2, <2>3, <2>4, <2>5
<1>2. ASSUME NEW c \in DOMAIN contexts, contexts[c].tag = "Seq"
      PROVE  Index!ContextChildren(c) \in Seq(E \cup {None})
  <2> DEFINE left == contexts[c].left
             right == contexts[c].right
             n == Len(left) + 1 + Len(right)
             positions == Index!ContextAction(c).positions
  <2>1. contexts[c] \in ParserProofs!Context(E, DOMAIN memos)
        /\ ParserProofs!GivenContext(contexts[c])
    BY ParserTyped DEF ParserOK, ParserProofs!Given
  <2>2. /\ contexts[c].symbol \in ParserProofs!Symbol
        /\ left \in Seq(E) /\ right \in Seq(E)
    BY <1>2, <2>1 DEF ParserProofs!Context, ParserProofs!TopContext
  <2>3. /\ Len(left) \in Nat /\ DOMAIN left = 1 .. Len(left)
        /\ Len(right) \in Nat /\ DOMAIN right = 1 .. Len(right)
    BY <2>2, LenProperties
  <2>4. /\ n \in Nat
        /\ \A p \in 1 .. n :
             \/ p <= Len(left) /\ p \in 1 .. Len(left)
             \/ p = Len(left) + 1 /\ ~(p <= Len(left))
             \/ p # Len(left) + 1 /\ ~(p <= Len(left)) /\ p - Len(left) - 1 \in 1 .. Len(right)
    BY <2>3, HolePositions
  <2>5. ParserProofs!GivenSequence(contexts[c].symbol, n)
    BY <1>2, <2>1 DEF ParserProofs!GivenContext
  <2>6. positions \in Seq(1 .. n)
    <3> HIDE DEF n
    <3>1. Index!ContextAction(c) = Index!Action(contexts[c].symbol, n)
      BY DEF Index!ContextAction, n
    <3> QED  BY <2>2, <2>4, <2>5, <3>1, ActionTyped
  <2>7. ASSUME NEW p \in 1 .. n
        PROVE  Index!ContextChild(c, p) \in E \cup {None}
    <3> HIDE DEF n
    <3>1. CASE p <= Len(left) /\ p \in 1 .. Len(left)
      <4>1. Index!ContextChild(c, p) = left[p]
        BY <3>1 DEF Index!ContextChild
      <4> QED  BY <2>2, <2>3, <3>1, <4>1
    <3>2. CASE p = Len(left) + 1 /\ ~(p <= Len(left))
      BY <3>2, IndexNames DEF Index!ContextChild
    <3>3. CASE p # Len(left) + 1 /\ ~(p <= Len(left)) /\ p - Len(left) - 1 \in 1 .. Len(right)
      <4>1. Index!ContextChild(c, p) = right[p - Len(left) - 1]
        BY <3>3 DEF Index!ContextChild
      <4>2. p - Len(left) - 1 \in DOMAIN right
        BY <2>3, <3>3
      <4>3. PICK q : q = p - Len(left) - 1
        OBVIOUS
      <4> QED  BY <2>2, <4>1, <4>2, <4>3
    <3> QED  BY <2>4, <3>1, <3>2, <3>3
  <2>8. Index!ContextChildren(c)
          = [a \in DOMAIN positions |-> Index!ContextChild(c, positions[a])]
    BY DEF Index!ContextChildren
  <2>9. \A a \in DOMAIN positions : Index!ContextChild(c, positions[a]) \in E \cup {None}
    <3>1. \A S : \A s \in Seq(S) : \A a \in DOMAIN s : s[a] \in S
      OBVIOUS
    <3> HIDE DEF positions, n
    <3>2. \A a \in DOMAIN positions : positions[a] \in 1 .. n
      BY <2>6, <3>1
    <3> QED  BY <2>7, <3>2
  <2> HIDE DEF positions, n
  <2> QED  BY <2>6, <2>8, <2>9, ListPicked
<1> QED  BY <1>1, <1>2

LEMMA SelectedTyped ==
  ASSUME ParserOK
  PROVE  /\ \A e \in DOMAIN expressions : Range(Index!Selected(e)) \subseteq DOMAIN expressions
         /\ \A c \in DOMAIN contexts : contexts[c].tag = "Seq" =>
              Range(Index!ContextChildren(c)) \subseteq DOMAIN expressions \cup {None}
<1>1. \A S : \A s \in Seq(S) : Range(s) \subseteq S
  BY DEF Range
<1> QED  BY <1>1, SelectedListed

\* The log of a derivative tells of what the graph holds.
LEMMA ChangesTrue ==
  ASSUME ParserOK, ~ParserProofs!Idle
  PROVE  Range(changes) \subseteq GraphLog
<1>1. ASSUME NEW x \in Range(changes)
      PROVE  x \in GraphLog
  <2>1. \/ x \in ParserProofs!GrownExpressions \/ x \in ParserProofs!GrownContexts
        \/ x \in ParserProofs!GrownParents \/ x \in ParserProofs!GrownChildren
    <3>1. ParserProofs!Range(changes) = Range(changes)
      BY DEF ParserProofs!Range, Range
    <3> QED  BY <1>1, <3>1 DEF ParserOK, ParserProofs!Reported, ParserProofs!ChangesComplete
  <2>2. CASE x \in ParserProofs!GrownExpressions
    BY <2>2, IndexNames
       DEF ParserProofs!GrownExpressions, ParserProofs!NewExpression, NewExpression,
           GraphLog, Index!InitialLog
  <2>3. CASE x \in ParserProofs!GrownContexts
    BY <2>3, IndexNames
       DEF ParserProofs!GrownContexts, ParserProofs!NewContext, NewContext,
           GraphLog, Index!InitialLog
  <2>4. CASE x \in ParserProofs!GrownParents
    <3>1. \E m \in DOMAIN memos : \E c \in Range(memos[m].parents) : x = ParentAppended(m, c)
      BY <2>4 DEF ParserProofs!GrownParents, ParserProofs!ParentAppended, ParentAppended,
                  ParserProofs!Range, Range
    <3> QED  BY <3>1, IndexNames DEF GraphLog, Index!InitialLog
  <2>5. CASE x \in ParserProofs!GrownChildren
    <3>1. PICK e \in DOMAIN expressions :
            /\ e >= published.expression /\ expressions[e].node.tag = "Alt"
            /\ \E c \in Range(Tail(expressions[e].node.children)) : x = ChildAppended(e, c)
      BY <2>5 DEF ParserProofs!GrownChildren, ParserProofs!ChildAppended, ChildAppended,
                  ParserProofs!Range, Range
    <3> DEFINE s == expressions[e].node.children
    <3>2. s # <<>>
      BY <3>1 DEF ParserOK, ParserProofs!Reported, ParserProofs!Reporting
    <3>3. s \in Seq(DOMAIN expressions)
      BY <3>1, ParserTyped DEF ParserProofs!Node
    <3>4. Range(Tail(s)) \subseteq Range(s)
      <4>1. \A i \in DOMAIN Tail(s) : i + 1 \in DOMAIN s /\ Tail(s)[i] = s[i + 1]
        BY <3>2, <3>3
      <4> QED  BY <4>1 DEF Range
    <3>5. \E c \in Range(s) : x = ChildAppended(e, c)
      BY <3>1, <3>4
    <3>6. x \in PackedChildren
      BY <3>1, <3>5 DEF PackedChildren
    <3> QED  BY <3>6 DEF GraphLog
  <2> QED  BY <2>1, <2>2, <2>3, <2>4, <2>5
<1> QED  BY <1>1

----------------------------------------------------------------------------
(* The steps of the parser are those that the proofs about it speak of.    *)

LEMMA ParserData ==
  /\ \A E : Parser!Node(E) = ParserProofs!Node(E)
  /\ \A t : Parser!Tok(t) = ParserProofs!Tok(t)
  /\ Parser!Symbol = ParserProofs!Symbol
  /\ Parser!Bottom = ParserProofs!Bottom
  /\ \A s : Parser!Alt(s) = ParserProofs!Alt(s)
  /\ Parser!None = ParserProofs!None
  /\ \A m, c : Parser!FreshMemo(m, c) = ParserProofs!FreshMemo(m, c)
  /\ Parser!TopContext = ParserProofs!TopContext
  /\ \A m, s, l, r : Parser!SeqContext(m, s, l, r) = ParserProofs!SeqContext(m, s, l, r)
  /\ \A s, t : Parser!Seqn(s, t) = ParserProofs!Seqn(s, t)
  /\ Parser!NoToken = ParserProofs!NoToken
  /\ \A e, m, c : Parser!Allocated(e, m, c) = ParserProofs!Allocated(e, m, c)
  /\ \A n, m : Parser!UpOp(n, m) = ParserProofs!UpOp(n, m)
  /\ \A e, c : Parser!UpContextOp(e, c) = ParserProofs!UpContextOp(e, c)
  /\ \A m, n : Parser!FreshOp(m, n) = ParserProofs!FreshOp(m, n)
  /\ \A c, e : Parser!DownOp(c, e) = ParserProofs!DownOp(c, e)
  /\ \A t : Parser!TokenSymbol(t) = ParserProofs!TokenSymbol(t)
  /\ \A m : Parser!AltContext(m) = ParserProofs!AltContext(m)
  /\ \A e : Parser!NewExpression(e) = ParserProofs!NewExpression(e)
  /\ \A c : Parser!NewContext(c) = ParserProofs!NewContext(c)
  /\ \A m, c : Parser!ParentAppended(m, c) = ParserProofs!ParentAppended(m, c)
  /\ \A a, e : Parser!ChildAppended(a, e) = ParserProofs!ChildAppended(a, e)
  /\ \A f, x, y : Parser!Insert(f, x, y) = ParserProofs!Insert(f, x, y)
BY DEF Parser!Node, ParserProofs!Node, Parser!Tok, ParserProofs!Tok, Parser!Symbol,
       ParserProofs!Symbol, Parser!Bottom, ParserProofs!Bottom, Parser!Alt,
       ParserProofs!Alt, Parser!None, ParserProofs!None, Parser!FreshMemo,
       ParserProofs!FreshMemo, Parser!TopContext, ParserProofs!TopContext,
       Parser!SeqContext, ParserProofs!SeqContext, Parser!Seqn, ParserProofs!Seqn,
       Parser!NoToken, ParserProofs!NoToken, Parser!Allocated,
       ParserProofs!Allocated, Parser!UpOp, ParserProofs!UpOp, Parser!UpContextOp,
       ParserProofs!UpContextOp, Parser!FreshOp, ParserProofs!FreshOp,
       Parser!DownOp, ParserProofs!DownOp, Parser!TokenSymbol,
       ParserProofs!TokenSymbol, Parser!AltContext, ParserProofs!AltContext,
       Parser!NewExpression, ParserProofs!NewExpression, Parser!NewContext,
       ParserProofs!NewContext, Parser!ParentAppended, ParserProofs!ParentAppended,
       Parser!ChildAppended, ParserProofs!ChildAppended, Parser!Insert,
       ParserProofs!Insert

LEMMA ParserOperators ==
  /\ Parser!Idle <=> ParserProofs!Idle
  /\ \A op : Parser!Popped(op) <=> ParserProofs!Popped(op)
  /\ \A n : Parser!InsertExpression(n) <=> ParserProofs!InsertExpression(n)
  /\ \A n : Parser!InsertMemo(n) <=> ParserProofs!InsertMemo(n)
  /\ \A n : Parser!InsertContext(n) <=> ParserProofs!InsertContext(n)
  /\ \A s : Parser!Push(s) <=> ParserProofs!Push(s)
  /\ \A s : Parser!Log(s) <=> ParserProofs!Log(s)
  /\ \A e : Parser!Entered(e) <=> ParserProofs!Entered(e)
  /\ \A e : Parser!Selected(e) <=> ParserProofs!Selected(e)
  /\ \A m : Parser!Completed(m) <=> ParserProofs!Completed(m)
  /\ \A tag : Parser!Rising(tag) <=> ParserProofs!Rising(tag)
  /\ \A m, c : Parser!Delivery(m, c) = ParserProofs!Delivery(m, c)
BY ParserData
   DEF Parser!Idle, ParserProofs!Idle, Parser!Popped, ParserProofs!Popped,
       Parser!InsertExpression, ParserProofs!InsertExpression, Parser!InsertMemo,
       ParserProofs!InsertMemo, Parser!InsertContext, ParserProofs!InsertContext,
       Parser!Push, ParserProofs!Push, Parser!Log, ParserProofs!Log, Parser!Entered,
       ParserProofs!Entered, Parser!Selected, ParserProofs!Selected,
       Parser!Completed, ParserProofs!Completed, Parser!Rising, ParserProofs!Rising,
       Parser!Delivery, ParserProofs!Delivery

LEMMA ParserInit ==
  ASSUME Parser!Init
  PROVE  ParserProofs!Init
BY ParserData, ParserOperators
   DEF Parser!Init, ParserProofs!Init, Parser!WellFormed, ParserProofs!WellFormed,
       Parser!InitialZippers, ParserProofs!InitialZippers

LEMMA ParserNext ==
  ASSUME Parser!Step \/ Parser!EndDerive \/ \E t \in Tokens : Parser!Derive(t)
  PROVE  ParserProofs!Next /\ (Parser!Step => ParserProofs!Step)
<1>1. Parser!DownShared => ParserProofs!DownShared
  BY ParserData, ParserOperators
     DEF Parser!DownShared, ParserProofs!DownShared,
         Parser!frame, ParserProofs!frame, Parser!maps, ParserProofs!maps,
         Parser!counters, ParserProofs!counters
<1>2. Parser!DownEntered => ParserProofs!DownEntered
  BY ParserData, ParserOperators
     DEF Parser!DownEntered, ParserProofs!DownEntered,
         Parser!frame, ParserProofs!frame, Parser!maps, ParserProofs!maps,
         Parser!counters, ParserProofs!counters
<1>3. Parser!FreshTok => ParserProofs!FreshTok
  BY ParserData, ParserOperators
     DEF Parser!FreshTok, ParserProofs!FreshTok,
         Parser!frame, ParserProofs!frame, Parser!maps, ParserProofs!maps,
         Parser!counters, ParserProofs!counters
<1>4. Parser!FreshEmptySeq => ParserProofs!FreshEmptySeq
  BY ParserData, ParserOperators
     DEF Parser!FreshEmptySeq, ParserProofs!FreshEmptySeq,
         Parser!frame, ParserProofs!frame, Parser!maps, ParserProofs!maps,
         Parser!counters, ParserProofs!counters
<1>5. Parser!FreshSeq => ParserProofs!FreshSeq
  BY ParserData, ParserOperators
     DEF Parser!FreshSeq, ParserProofs!FreshSeq,
         Parser!frame, ParserProofs!frame, Parser!maps, ParserProofs!maps,
         Parser!counters, ParserProofs!counters
<1>6. ASSUME Parser!FreshAlt
      PROVE  ParserProofs!FreshAlt
  <2> DEFINE children == Head(operations).node.children
             entered == {i \in DOMAIN children : Parser!Selected(children[i])}
  <2>1. entered = {i \in DOMAIN children : ParserProofs!Selected(children[i])}
    BY ParserOperators
  <2>2. \A S : Parser!Cardinality(S) = ParserProofs!Cardinality(S)
    BY DEF Parser!Cardinality, ParserProofs!Cardinality
  <2> DEFINE n == Parser!Cardinality(entered)
  <2>3. PICK kept \in [1 .. n -> entered] :
          /\ \A i, j \in DOMAIN kept : i < j => kept[i] < kept[j]
          /\ Parser!Push([i \in 1 .. n |-> Parser!DownOp(next_context, children[kept[i]])])
    BY <1>6 DEF Parser!FreshAlt
  <2>4. n = ParserProofs!Cardinality(entered)
    BY <2>2
  <2> HIDE DEF n, entered
  <2>5. ParserProofs!Push([i \in 1 .. n |->
                             ParserProofs!DownOp(next_context, children[kept[i]])])
    BY <2>3, ParserData DEF Parser!Push, ParserProofs!Push
  <2>6. \E k \in [1 .. n -> entered] :
          /\ \A i, j \in DOMAIN k : i < j => k[i] < k[j]
          /\ ParserProofs!Push([i \in 1 .. n |->
                                  ParserProofs!DownOp(next_context, children[k[i]])])
    BY <2>3, <2>5
  <2>7. LET picked == {i \in DOMAIN children : ParserProofs!Selected(children[i])}
        IN \E k \in [1 .. ParserProofs!Cardinality(picked) -> picked] :
             /\ \A i, j \in DOMAIN k : i < j => k[i] < k[j]
             /\ ParserProofs!Push([i \in 1 .. ParserProofs!Cardinality(picked) |->
                                     ParserProofs!DownOp(next_context, children[k[i]])])
    BY <2>1, <2>4, <2>6
  <2>8. /\ ParserProofs!Popped("DownFresh") /\ Head(operations).node.tag = "Alt"
        /\ ParserProofs!InsertContext(ParserProofs!AltContext(Head(operations).memo))
        /\ ParserProofs!Log(<<ParserProofs!NewContext(next_context)>>)
        /\ UNCHANGED <<ParserProofs!frame, expressions, memos, next_expression,
                       next_memo, next>>
    BY <1>6, ParserData, ParserOperators
       DEF Parser!FreshAlt, Parser!frame, ParserProofs!frame
  <2> QED  BY <2>7, <2>8 DEF ParserProofs!FreshAlt
<1>7. Parser!Up => ParserProofs!Up
  BY ParserData, ParserOperators
     DEF Parser!Up, ParserProofs!Up,
         Parser!frame, ParserProofs!frame, Parser!maps, ParserProofs!maps,
         Parser!counters, ParserProofs!counters
<1>8. Parser!UpTop => ParserProofs!UpTop
  BY ParserData, ParserOperators
     DEF Parser!UpTop, ParserProofs!UpTop,
         Parser!frame, ParserProofs!frame, Parser!maps, ParserProofs!maps,
         Parser!counters, ParserProofs!counters
<1>9. Parser!UpLast => ParserProofs!UpLast
  BY ParserData, ParserOperators
     DEF Parser!UpLast, ParserProofs!UpLast,
         Parser!frame, ParserProofs!frame, Parser!maps, ParserProofs!maps,
         Parser!counters, ParserProofs!counters
<1>10. Parser!UpNext => ParserProofs!UpNext
  BY ParserData, ParserOperators
     DEF Parser!UpNext, ParserProofs!UpNext,
         Parser!frame, ParserProofs!frame, Parser!maps, ParserProofs!maps,
         Parser!counters, ParserProofs!counters
<1>11. Parser!UpPacked => ParserProofs!UpPacked
  BY ParserData, ParserOperators
     DEF Parser!UpPacked, ParserProofs!UpPacked,
         Parser!frame, ParserProofs!frame, Parser!maps, ParserProofs!maps,
         Parser!counters, ParserProofs!counters
<1>12. Parser!UpFirst => ParserProofs!UpFirst
  BY ParserData, ParserOperators
     DEF Parser!UpFirst, ParserProofs!UpFirst,
         Parser!frame, ParserProofs!frame, Parser!maps, ParserProofs!maps,
         Parser!counters, ParserProofs!counters
<1>13. Parser!EndDerive => ParserProofs!EndDerive
  BY ParserData, ParserOperators
     DEF Parser!EndDerive, ParserProofs!EndDerive,
         Parser!frame, ParserProofs!frame, Parser!maps, ParserProofs!maps,
         Parser!counters, ParserProofs!counters
<1>14. \A t \in Tokens : Parser!Derive(t) => ParserProofs!Derive(t)
  BY ParserData, ParserOperators
     DEF Parser!Derive, ParserProofs!Derive,
         Parser!frame, ParserProofs!frame, Parser!maps, ParserProofs!maps,
         Parser!counters, ParserProofs!counters
<1>15. Parser!Step => ParserProofs!Step
  BY <1>1, <1>2, <1>3, <1>4, <1>5, <1>6, <1>7, <1>8, <1>9, <1>10, <1>11, <1>12
     DEF Parser!Step, ParserProofs!Step
<1> QED  BY <1>13, <1>14, <1>15 DEF ParserProofs!Next

LEMMA ParserStarts ==
  ASSUME Parser!Init
  PROVE  ParserOK
<1>1. ParserProofs!Init
  BY ParserInit
<1>2. ParserProofs!Reported /\ ParserProofs!Given
  BY <1>1, WiringBounds, TokensAssumption, ParserProofs!ReportedInit, ParserProofs!GivenInit
<1>3. grammar \in Grammars
  BY DEF Parser!Init
<1> QED  BY <1>2, <1>3 DEF ParserOK

LEMMA ParserKeeps ==
  ASSUME ParserOK,
         \/ Parser!Step \/ Parser!EndDerive \/ \E t \in Tokens : Parser!Derive(t)
         \/ UNCHANGED parser
  PROVE  ParserOK' /\ ParserProofs!GraphGrows
<1>1. [ParserProofs!Next]_(ParserProofs!vars)
  <2>1. UNCHANGED parser => UNCHANGED ParserProofs!vars
    BY DEF parser, ParserProofs!vars, ParserProofs!frame, ParserProofs!maps, ParserProofs!counters
  <2> QED  BY <2>1, ParserNext
<1>2. ParserProofs!Reported' /\ ParserProofs!Given' /\ ParserProofs!GraphGrows
  BY <1>1, WiringBounds, TokensAssumption, ParserProofs!ReportedNext,
     ParserProofs!GivenNext, ParserProofs!GraphNext DEF ParserOK
<1>3. grammar' = grammar
  BY <1>2 DEF ParserProofs!GraphGrows
<1> QED  BY <1>2, <1>3 DEF ParserOK

----------------------------------------------------------------------------
(* The steps of the parser and of the e-graph.                             *)

\* A step of either: facts may be inserted that follow once it is taken.
LEMMA MovesKeep ==
  ASSUME Moves, IndexOK, AgendaOK', indexes' = indexes,
         NEW F, closure' = closure \cup F, \A f \in F : IsFact(f),
         \A X : Closed(X)' /\ (\A f \in closure : Index!Canonized(f)' \in X) =>
                  \A f \in F : Index!Canonized(f)' \in X
  PROVE  IndexOK'
<1>1. IndexTrue'
  <2>1. Bounded(indexes)
    BY DEF IndexOK, IndexTrue
  <2>2. PICK known : known = indexes
    OBVIOUS
  <2>3. Bounded(known)'
    BY <2>1, <2>2, BoundedGrows DEF Moves
  <2> QED  BY <2>2, <2>3 DEF IndexTrue, Bounded
<1>2. Shaped'
  BY DEF IndexOK, Shaped, IsFact
<1>3. ASSUME NEW X, Closed(X)', NEW f \in closure'
      PROVE  Index!Canonized(f)' \in X
  <2>1. \A g \in closure : Index!Canonized(g)' \in X
    BY <1>3, SupportedMoves DEF IndexOK
  <2> QED  BY <1>3, <2>1
<1>4. Supported'
  BY <1>3 DEF Supported, Index!Reading
<1> QED  BY <1>1, <1>2, <1>4 DEF IndexOK

\* `derive`, one of its operations, or its end.
LEMMA ParserStepKeeps ==
  ASSUME ParserOK, EGraphOK, IndexOK, UNCHANGED <<egraph, link>>,
         Parser!Step \/ Parser!EndDerive \/ \E t \in Tokens : Parser!Derive(t)
  PROVE  /\ ParserOK' /\ EGraphOK' /\ IndexOK'
         /\ GraphLog \subseteq GraphLog'
         /\ Parser!EndDerive => Range(changes) \subseteq GraphLog'
<1>1. UNCHANGED <<egraph, indexes, closure, agenda>>
  BY DEF link
<1>2. ParserOK' /\ ParserProofs!GraphGrows
  BY <1>1, ParserKeeps
<1>3. EGraphOK'
  <2>1. schema' = schema
    BY <1>2, MovedNodes
  <2> QED  BY <1>1, <2>1 DEF EGraphOK
<1>4. Moves
  <2>1. MapsOK /\ MapsOK'
    <3>1. ParserOK => MapsOK
      BY MapsTyped
    <3>2. ParserOK' => MapsOK'
      BY MapsTyped, PTL
    <3> QED  BY <1>2, <3>1, <3>2
  <2>2. Continues(egraph, egraph)
    BY GrowsNot DEF EGraphOK, EGraphWellTyped, Grows
  <2> QED  BY <1>1, <1>2, <1>3, <2>1, <2>2 DEF Moves
<1>5. /\ GraphLog \subseteq GraphLog'
      /\ Parser!EndDerive => Range(changes) \subseteq GraphLog'
  <2>1. GraphLog \subseteq GraphLog'
    BY <1>2, LogGrows
  <2>2. ASSUME Parser!EndDerive
        PROVE  Range(changes) \subseteq GraphLog
    <3>1. ~ParserProofs!Idle
      BY <2>2, ParserOperators DEF Parser!EndDerive
    <3> QED  BY <3>1, ChangesTrue
  <2> QED  BY <2>1, <2>2
<1>6. AgendaOK'
  BY <1>1 DEF IndexOK, AgendaOK
<1>7. PICK F : F = {}
  OBVIOUS
<1>8. IndexOK'
  <2>1. closure' = closure \cup F /\ (\A f \in F : FALSE)
    BY <1>1, <1>7
  <2>2. \A f \in F : IsFact(f)
    BY <1>7
  <2>3. \A X : Closed(X)' /\ (\A f \in closure : Index!Canonized(f)' \in X) =>
                   \A f \in F : Index!Canonized(f)' \in X
    BY <1>7
  <2> QED  BY <1>1, <1>4, <1>6, <2>1, <2>2, <2>3, MovesKeep
<1> QED  BY <1>2, <1>3, <1>5, <1>8

\* An e-graph that grows by what the schema allows stays well typed.
Allowed(sorts, shapes) ==
  /\ \A s \in sorts : s \notin LexicalSorts(schema)
  /\ \A x \in shapes : x[1] \in DOMAIN schema.constructors =>
                         x[2] = DOMAIN schema.constructors[x[1]].inputs

LEMMA GrownTyped ==
  ASSUME EGraphOK, NEW h, NEW sorts, NEW shapes, Allowed(sorts, shapes),
         Grows(egraph, h, sorts, shapes)
  PROVE  EGraphWellTyped(schema, h)
<1>1. ASSUME NEW v \in DOMAIN h.find
      PROVE  v.sort \notin LexicalSorts(schema)
  <2>1. v.sort \in Sorts(egraph) \cup sorts
    BY DEF Grows, Sorts
  <2>2. \A s \in Sorts(egraph) : s \notin LexicalSorts(schema)
    BY DEF EGraphOK, EGraphWellTyped, Sorts
  <2> QED  BY <2>1, <2>2 DEF Allowed
<1>2. ASSUME NEW r \in h.rows
      PROVE  RowWellTyped(schema, r)
  <2>1. <<r.constructor, DOMAIN r.children>> \in Shapes(egraph) \cup shapes
    BY DEF Grows, Shapes
  <2>2. CASE <<r.constructor, DOMAIN r.children>> \in Shapes(egraph)
    <3>1. PICK q \in egraph.rows :
            q.constructor = r.constructor /\ DOMAIN q.children = DOMAIN r.children
      BY <2>2 DEF Shapes
    <3> QED  BY <3>1 DEF EGraphOK, EGraphWellTyped, RowWellTyped
  <2>3. CASE <<r.constructor, DOMAIN r.children>> \in shapes
    BY <2>3 DEF Allowed, RowWellTyped
  <2> QED  BY <2>1, <2>2, <2>3
<1> QED  BY <1>1, <1>2 DEF Grows, EGraphWellTyped

\* The parser stays, and the e-graph grows.
LEMMA GrowthMoves ==
  ASSUME ParserOK, EGraphOK, UNCHANGED parser, Continues(egraph, egraph'),
         EGraphWellTyped(schema, egraph')
  PROVE  ParserOK' /\ EGraphOK' /\ Moves
<1>1. ParserOK' /\ ParserProofs!GraphGrows
  BY ParserKeeps
<1>2. MapsOK /\ MapsOK'
  <2>1. ParserOK => MapsOK
    BY MapsTyped
  <2>2. ParserOK' => MapsOK'
    BY MapsTyped, PTL
  <2> QED  BY <1>1, <2>1, <2>2
<1>3. schema' = schema
  BY DEF parser, schema
<1>4. EGraphOK'
  BY <1>3 DEF EGraphOK
<1> QED  BY <1>1, <1>2, <1>4 DEF Moves

LEMMA GrowKeeps ==
  ASSUME ParserOK, EGraphOK, IndexOK, UNCHANGED <<parser, link>>,
         NEW sorts, NEW shapes, Allowed(sorts, shapes), Grows(egraph, egraph', sorts, shapes)
  PROVE  ParserOK' /\ EGraphOK' /\ IndexOK' /\ Moves /\ GraphLog \subseteq GraphLog'
<1>1. ParserOK' /\ EGraphOK' /\ Moves
  BY GrownTyped, GrowthMoves DEF Grows
<1>2. GraphLog \subseteq GraphLog'
  BY <1>1, LogGrows DEF Moves
<1>3. PICK F : F = {}
  OBVIOUS
<1>4. closure' = closure \cup F /\ indexes' = indexes
  BY <1>3 DEF link
<1>5. \A f \in F : IsFact(f)
  BY <1>3
<1>6. \A X : Closed(X)' /\ (\A f \in closure : Index!Canonized(f)' \in X) =>
                 \A f \in F : Index!Canonized(f)' \in X
  BY <1>3
<1>7. AgendaOK'
  BY DEF IndexOK, AgendaOK, link
<1>8. IndexOK'
  BY <1>1, <1>4, <1>5, <1>6, <1>7, MovesKeep
<1> QED  BY <1>1, <1>2, <1>8

\* `materialize_expression` asks for finitely many applications, each of as many
\* values as the constructor asks for.
LEMMA CombinationForms ==
  ASSUME MapsOK, EGraphOK, IndexOK, NEW e \in DOMAIN expressions, Index!Constructible(e)
  PROVE  LET children == Index!ExpressionChildren(e) IN
         /\ IsFiniteSet(DOMAIN children) => IsFiniteSet(Index!Combinations(e))
         /\ \A vs \in Index!Combinations(e) :
              /\ DOMAIN vs = DOMAIN children
              /\ \A a \in DOMAIN children : \E u \in Index!Values(children[a]) :
                   vs[a] = Canonical(egraph, u)
<1> DEFINE children == Index!ExpressionChildren(e)
           inputs == schema.constructors[Index!ExpressionAction(e).constructor].inputs
           Choice(a) == {Canonical(egraph, v) :
                           v \in {x \in Index!Values(children[a]) : x.sort = inputs[a]}}
           choices == [a \in DOMAIN children |-> Choice(a)]
<1>1. Index!Combinations(e) = Index!Products(choices)
  BY IndexNames DEF Index!Combinations
<1>2. \A a \in DOMAIN children : Choice(a) \subseteq Index!Value
  <2>1. ASSUME NEW a \in DOMAIN children, NEW v \in Index!Values(children[a])
        PROVE  Canonical(egraph, v) \in Index!Value
    <3>1. PICK f \in closure : f.fact = "Produces" /\ f.value = v
      BY <2>1 DEF Index!Values
    <3> QED  BY <3>1, ClosureTyped DEF IndexOK
  <2> QED  BY <2>1
<1>3. \A a \in DOMAIN children : \A w \in Choice(a) :
        \E u \in Index!Values(children[a]) : w = Canonical(egraph, u)
  OBVIOUS
<1> HIDE DEF Choice, children
<1>4. \A vs \in Index!Combinations(e) :
        /\ vs \in [DOMAIN children -> UNION {choices[a] : a \in DOMAIN choices}]
        /\ \A a \in DOMAIN children : vs[a] \in Choice(a)
  BY <1>1 DEF Index!Products
<1>5. \A vs \in Index!Combinations(e) : vs \in [DOMAIN children -> Index!Value]
  BY <1>2, <1>4
<1>6. IsFiniteSet(DOMAIN children) => IsFiniteSet(Index!Combinations(e))
  <2>1. IsFiniteSet(Index!Value)
    BY FiniteValues
  <2>2. Index!Combinations(e) \subseteq [DOMAIN children -> Index!Value]
    BY <1>5
  <2> QED  BY <2>1, <2>2, FiniteFunctions, FS_Subset
<1> QED  BY <1>3, <1>4, <1>6 DEF children

\* Index has the fold and the lookup of EGraph under names of its own.
LEMMA IndexAdditions ==
  /\ \A g, c, lists, s : Index!AddedAll(g, c, lists, s) = AddedAll(g, c, lists, s)
  /\ \A g, c, vs : \A v \in Index!Outputs(g, c, vs) :
       \E r \in g.rows : r.constructor = c /\ r.children = CanonicalSeq(g, vs) /\ v = r.output
<1>1. \A g, c, vs : Index!Outputs(g, c, vs) = Outputs(g, c, vs)
  BY IndexNames DEF Index!Outputs, Outputs, Index!Applications, Applications
<1>2. ASSUME NEW g, NEW c, NEW vs, NEW s
      PROVE  Index!Added(g, c, vs, s) = Added(g, c, vs, s)
  <2>1. Index!Fresh(g, s) = Fresh(g, s)
    BY DEF Index!Fresh, Fresh, Index!Cardinality, Cardinality
  <2>2. Index!CanonicalSeq(g, vs) = CanonicalSeq(g, vs)
    BY IndexNames
  <2> QED  BY <1>1, <2>1, <2>2 DEF Index!Added, Added
<1>3. ASSUME NEW g, NEW c, NEW lists, NEW s
      PROVE  Index!AddedAll(g, c, lists, s) = AddedAll(g, c, lists, s)
  BY <1>2 DEF Index!AddedAll, AddedAll, Index!FoldSet, FoldSet,
              Index!MapThenFoldSet, MapThenFoldSet
<1>4. \A g, c, vs : \A v \in Outputs(g, c, vs) :
        \E r \in g.rows : r.constructor = c /\ r.children = CanonicalSeq(g, vs) /\ v = r.output
  BY DEF Outputs, Applications
<1> QED  BY <1>1, <1>3, <1>4

\* `materialize_expression`
LEMMA MaterializeKeeps ==
  ASSUME ParserOK, EGraphOK, IndexOK, UNCHANGED parser,
         NEW e \in DOMAIN expressions, Index!MaterializeExpression(e)
  PROVE  /\ ParserOK' /\ EGraphOK' /\ IndexOK' /\ Moves /\ GraphLog \subseteq GraphLog'
         /\ Keeps(egraph, egraph') /\ closure \subseteq closure'
         /\ Index!ExpressionAction(e).constructor \in DOMAIN schema.constructors
<1>0. MapsOK /\ SchemaOK /\ Coherent(egraph)
  BY MapsTyped DEF EGraphOK, EGraphWellTyped
<1> DEFINE k == Index!ExpressionAction(e).constructor
           s == schema.constructors[k].output
           D == DOMAIN schema.constructors[k].inputs
           children == Index!ExpressionChildren(e)
           lists == Index!Combinations(e)
           new == {Index!Produces(e, v) : v \in UNION {Index!Outputs(egraph', k, vs) : vs \in lists}}
<1>2. /\ Index!Constructible(e) /\ egraph' = AddedAll(egraph, k, lists, s)
      /\ Index!InsertAbove(new, agenda) /\ indexes' = indexes
  BY IndexAdditions DEF Index!MaterializeExpression, Index!Insert
<1>3. expressions[e].node.tag = "Seq" /\ k # None
  BY <1>2, IndexNames DEF Index!Constructible
<1>4. /\ k \in DOMAIN schema.constructors /\ DOMAIN children = D
      /\ ~Index!IsLeaf(expressions[e].node)
      /\ IsFiniteSet(D) /\ s \notin LexicalSorts(schema) /\ k # Disjoint
  BY <1>0, <1>3, ConstructingExpression DEF SchemaOK, ConstructorWellTyped
<1>5. /\ IsFiniteSet(lists) /\ \A vs \in lists : DOMAIN vs = D
      /\ \A vs \in lists : \A a \in D : \E u \in Index!Values(children[a]) :
           vs[a] = Canonical(egraph, u)
  BY <1>0, <1>2, <1>4, CombinationForms
<1> HIDE DEF lists, s, D, children
<1>6. /\ Grows(egraph, egraph', {s}, {<<k, D>>})
      /\ Keeps(egraph, egraph')
  BY <1>0, <1>2, <1>4, <1>5, FoldGrows
<1>7. Allowed({s}, {<<k, D>>})
  BY <1>4 DEF Allowed, D
<1>8. ParserOK' /\ EGraphOK' /\ Moves
  BY <1>2, <1>6, <1>7, GrownTyped, GrowthMoves DEF Grows
<1>9. AgendaOK' /\ closure' = closure \cup new
  BY <1>2, InsertedAbove DEF IndexOK, AgendaOK
<1>10. \A f \in new : IsFact(f)
  BY FactsMade
<1>11. ASSUME NEW X, Closed(X)', \A f \in closure : Index!Canonized(f)' \in X,
              NEW vs \in lists, NEW v \in Index!Outputs(egraph', k, vs)
       PROVE  Index!Canonized(Index!Produces(e, v))' \in X
  <2>1. PICK r \in egraph'.rows :
          r.constructor = k /\ r.children = CanonicalSeq(egraph', vs) /\ v = r.output
    BY <1>11, IndexAdditions
  <2>2. ASSUME NEW a \in D
        PROVE  r.children[a] \in Index!ValuesIn(X, children[a])
    <3>1. PICK u \in Index!Values(children[a]) : vs[a] = Canonical(egraph, u)
      BY <1>5, <1>11, <2>2
    <3>2. PICK f \in closure : f.fact = "Produces" /\ f.expression = children[a] /\ f.value = u
      BY <3>1 DEF Index!Values
    <3>3. f = Index!Produces(children[a], u)
      BY <3>2, FactKinds DEF IndexOK, Shaped
    <3>4. Index!Produces(children[a], Canonical(egraph', u)) \in X
      BY <1>11, <3>2, <3>3, FactFormsNext
    <3>5. r.children[a] = Canonical(egraph', vs[a])
      BY <1>5, <1>11, <2>1, <2>2 DEF CanonicalSeq
    <3>6. Canonical(egraph', vs[a]) = Canonical(egraph', u)
      BY <1>8, <3>1 DEF Moves, Continues
    <3> QED  BY <3>4, <3>5, <3>6, ValuesInForm
  <2>3. Index!Fits(X, r, children)
    BY <1>4, <2>2 DEF Index!Fits
  <2>4. /\ e \in DOMAIN expressions' /\ expressions'[e].node = expressions[e].node
        /\ Index!ExpressionAction(e)' = Index!ExpressionAction(e)
        /\ Index!ExpressionChildren(e)' = children
    BY <1>3, <1>8, MovedNodes, MovedReadings DEF Moves, children
  <2>5. r \in Index!ExpressionRows(e)'
    BY <2>1, <2>4, IndexNames DEF Index!ExpressionRows
  <2>6. Index!ImpliedValues(X, e)' =
          {x.output : x \in {y \in Index!ExpressionRows(e)' :
                               Index!Fits(X, y, Index!ExpressionChildren(e)')}}
    BY <1>3, <1>4, <2>4, IndexNames DEF Index!ImpliedValues, Index!IsLeaf
  <2>7. v \in Index!ImpliedValues(X, e)'
    BY <2>1, <2>3, <2>4, <2>5, <2>6
  <2>8. Index!Produces(e, v) \in Index!Implied(X)'
    BY <2>4, <2>7 DEF Index!Implied
  <2>9. Canonical(egraph', v) = v
    <3>1. Coherent(egraph')
      BY <1>8 DEF Moves, EGraphOK, EGraphWellTyped
    <3>2. RowIn(egraph', r) = r
      BY <2>1, <3>1, CoherentRows
    <3> QED  BY <2>1, <3>2 DEF RowIn
  <2>10. Index!Produces(e, v) \in X
    BY <1>11, <2>8 DEF Closed
  <2> QED  BY <2>9, <2>10, FactFormsNext
<1>12. \A X : Closed(X)' /\ (\A f \in closure : Index!Canonized(f)' \in X) =>
                 \A f \in new : Index!Canonized(f)' \in X
  BY <1>11
<1> HIDE DEF new
<1>13. GraphLog \subseteq GraphLog'
  BY <1>8, LogGrows DEF Moves
<1>14. IndexOK'
  BY <1>2, <1>8, <1>9, <1>10, <1>12, MovesKeep
<1> QED  BY <1>4, <1>6, <1>8, <1>9, <1>13, <1>14

----------------------------------------------------------------------------
(* More facts have more consequences.                                      *)

\* Every value known in X is known in Y.
Fewer(X, Y) == \A e : Index!ValuesIn(X, e) \subseteq Index!ValuesIn(Y, e)

LEMMA MoreFit ==
  ASSUME NEW X, NEW Y, Fewer(X, Y), NEW r, NEW children, Index!Fits(X, r, children)
  PROVE  Index!Fits(Y, r, children)
BY DEF Fewer, Index!Fits

LEMMA MoreValues ==
  ASSUME MapsOK, NEW X, NEW Y, Fewer(X, Y), NEW e \in DOMAIN expressions,
         NEW v \in Index!ImpliedValues(X, e)
  PROVE  v \in Index!ImpliedValues(Y, e)
<1> DEFINE node == expressions[e].node
           k == Index!ExpressionAction(e).constructor
<1>0. Index!IsLeaf(node) => node.tag # "Tok"
  BY DEF Index!IsLeaf
<1>1. CASE node.tag = "Tok" \/ Index!IsLeaf(node)
  BY <1>0, <1>1 DEF Index!ImpliedValues
<1>2. CASE ~Index!IsLeaf(node) /\ node.tag = "Seq" /\ k # None
  <2>1. PICK r \in Index!ExpressionRows(e) :
          Index!Fits(X, r, Index!ExpressionChildren(e)) /\ v = r.output
    BY <1>2, IndexNames DEF Index!ImpliedValues
  <2>2. Index!Fits(Y, r, Index!ExpressionChildren(e))
    BY <2>1, MoreFit
  <2> QED  BY <1>2, <2>1, <2>2, IndexNames DEF Index!ImpliedValues
<1>3. CASE ~Index!IsLeaf(node) /\ node.tag # "Tok" /\ (node.tag = "Seq" => k = None)
  <2>1. PICK child \in Range(Index!Selected(e)) : v \in Index!ValuesIn(X, child)
    BY <1>3, IndexNames DEF Index!ImpliedValues
  <2>2. v \in Index!ValuesIn(Y, child)
    BY <2>1 DEF Fewer
  <2> QED  BY <1>3, <2>1, <2>2, IndexNames DEF Index!ImpliedValues
<1> QED  BY <1>1, <1>2, <1>3

LEMMA MoreDemand ==
  ASSUME MapsOK, NEW X, NEW Y, Fewer(X, Y),
         NEW c \in DOMAIN contexts, contexts[c].tag # "Top",
         NEW d, NEW f \in Index!ImpliedDemand(X, c, d)
  PROVE  f \in Index!ImpliedDemand(Y, c, d)
<1> DEFINE k == Index!ContextAction(c).constructor
           children == Index!ContextChildren(c)
<1>0. contexts[c].tag \in {"Seq", "Alt"}
  BY DEF MapsOK
<1>1. CASE contexts[c].tag = "Alt"
  BY <1>1 DEF Index!ImpliedDemand
<1>2. CASE contexts[c].tag = "Seq" /\ k # None
  <2>1. PICK r \in Index!Applications(egraph, k) :
          r.output = d /\ Index!Fits(X, r, children) /\ f = Index!HoleFact(c, r)
    BY <1>2, IndexNames DEF Index!ImpliedDemand
  <2>2. Index!Fits(Y, r, children)
    BY <2>1, MoreFit
  <2> QED  BY <1>2, <2>1, <2>2, IndexNames DEF Index!ImpliedDemand
<1>3. CASE contexts[c].tag = "Seq" /\ k = None
  <2>1. CASE Head(children) = None
    BY <1>3, <2>1, IndexNames DEF Index!ImpliedDemand
  <2>2. CASE Head(children) # None
    <3>1. /\ f = Index!Realizable(Index!ContextSite(c))
          /\ d \in Index!ValuesIn(X, Head(children))
      BY <1>3, <2>2, IndexNames DEF Index!ImpliedDemand
    <3>2. d \in Index!ValuesIn(Y, Head(children))
      BY <3>1 DEF Fewer
    <3> QED  BY <1>3, <2>2, <3>1, <3>2, IndexNames DEF Index!ImpliedDemand
  <2> QED  BY <2>1, <2>2
<1> QED  BY <1>0, <1>1, <1>2, <1>3

LEMMA ImpliedMore ==
  ASSUME MapsOK, NEW X, NEW Y, X \subseteq Y
  PROVE  Index!Implied(X) \subseteq Index!Implied(Y)
<1>1. Fewer(X, Y) /\ \A s : Index!DemandsIn(X, s) \subseteq Index!DemandsIn(Y, s)
  BY DEF Fewer, Index!ValuesIn, Index!DemandsIn
<1>2. \A e \in DOMAIN expressions : Index!ImpliedValues(X, e) \subseteq Index!ImpliedValues(Y, e)
  BY <1>1, MoreValues
<1>3. ASSUME NEW c \in DOMAIN contexts
      PROVE  Index!ImpliedAt(X, c) \subseteq Index!ImpliedAt(Y, c)
  <2>1. CASE contexts[c].tag = "Top"
    BY <2>1 DEF Index!ImpliedAt
  <2>2. CASE contexts[c].tag # "Top"
    <3>1. \A d : Index!ImpliedDemand(X, c, d) \subseteq Index!ImpliedDemand(Y, c, d)
      BY <1>1, <2>2, MoreDemand
    <3> QED  BY <1>1, <2>2, <3>1 DEF Index!ImpliedAt
  <2> QED  BY <2>1, <2>2
<1>4. \A m \in DOMAIN memos : Index!ImpliedBelow(X, m) \subseteq Index!ImpliedBelow(Y, m)
  BY DEF Index!ImpliedBelow
<1> QED  BY <1>2, <1>3, <1>4 DEF Index!Implied

----------------------------------------------------------------------------
(* The least closed set.                                                   *)

\* Entailed is reached, for there are finitely many facts; it is closed, and in
\* every closed set.
LEMMA EntailedClosed ==
  ASSUME MapsOK, EGraphOK
  PROVE  Closed(Index!Entailed) /\ \A Y : Closed(Y) => Index!Entailed \subseteq Y
<1> DEFINE F == Index!Fact
           More(X) == X \cup Index!Implied(X)
           Turn(a, X) == IF Index!Implied(X) \subseteq X THEN X ELSE a[More(X)]
           Solves(a) == a = [X \in SUBSET F |-> Turn(a, X)]
           closed == CHOOSE a : Solves(a)
           Left(X) == Cardinality(F \ X)
           Level(n) == {X \in SUBSET F : Left(X) <= n}
           Upto(a, n) == a = [X \in Level(n) |-> Turn(a, X)]
           T == {n \in Nat : \E a : Upto(a, n)}
           Least(X, Z) == Closed(Z) /\ \A Y : X \subseteq Y /\ Closed(Y) => Z \subseteq Y
           C == {n \in Nat : \A X \in Level(n) : Least(X, closed[X])}
<1>1. Index!Entailed = closed[{}]
  BY DEF Index!Entailed
<1>2. \A X \in SUBSET F : Left(X) \in Nat /\ Left(X) <= Cardinality(F)
  BY FiniteFacts, FS_Subset, FS_CardinalityType
<1>3. \A X \in SUBSET F : More(X) \in SUBSET F
  BY ImpliedTyped
<1>4. ASSUME NEW X \in SUBSET F, ~(Index!Implied(X) \subseteq X)
      PROVE  Left(More(X)) < Left(X)
  <2>1. IsFiniteSet(F \ X) /\ F \ More(X) \subseteq F \ X
    BY FiniteFacts, FS_Subset
  <2>2. F \ More(X) # F \ X
    BY <1>3, <1>4
  <2>3. Left(More(X)) <= Left(X) /\ Left(More(X)) # Left(X)
    BY <2>1, <2>2, FS_Subset
  <2>4. Left(More(X)) \in Nat /\ Left(X) \in Nat
    BY <1>2, <1>3
  <2> HIDE DEF Left, More, F
  <2> QED  BY <2>3, <2>4
<1> HIDE DEF F, More, Left
<1>5. ASSUME NEW n \in Nat, NEW X \in Level(n + 1), ~(Index!Implied(X) \subseteq X)
      PROVE  More(X) \in Level(n)
  BY <1>2, <1>3, <1>4, <1>5
<1>6. \A X \in SUBSET F : Left(X) = 0 => Index!Implied(X) \subseteq X
  BY <1>2, <1>3, <1>4
<1>7. 0 \in T
  <2>1. \A X \in Level(0) : Index!Implied(X) \subseteq X
    BY <1>2, <1>6
  <2>2. Upto([X \in Level(0) |-> X], 0)
    BY <2>1
  <2> QED  BY <2>2
<1>8. ASSUME NEW n \in Nat, n \in T PROVE n + 1 \in T
  <2>1. PICK a : Upto(a, n)
    BY <1>8
  <2> DEFINE h == [X \in Level(n + 1) |-> IF X \in Level(n) THEN a[X] ELSE Turn(a, X)]
  <2>2. \A X \in Level(n) : X \in Level(n + 1) /\ h[X] = a[X]
    BY <1>2
  <2>3. \A X \in Level(n) : a[X] = Turn(a, X)
    BY <2>1
  <2>4. ASSUME NEW X \in Level(n + 1)
        PROVE  h[X] = Turn(h, X)
    <3>1. h[X] = Turn(a, X)
      BY <2>3
    <3>2. CASE Index!Implied(X) \subseteq X
      BY <3>1, <3>2
    <3>3. CASE ~(Index!Implied(X) \subseteq X)
      BY <1>5, <2>2, <3>1, <3>3
    <3> QED  BY <3>2, <3>3
  <2>5. h = [X \in Level(n + 1) |-> h[X]]
    OBVIOUS
  <2> HIDE DEF h, Level, Turn
  <2>6. Upto(h, n + 1)
    BY <2>4, <2>5
  <2> QED  BY <2>6
<1> HIDE DEF T
<1>9. Nat \subseteq T
  BY <1>7, <1>8, NatAll
<1>10. \E a : Solves(a)
  <2>1. Cardinality(F) \in Nat
    BY FiniteFacts, FS_CardinalityType DEF F
  <2>2. PICK a : Upto(a, Cardinality(F))
    BY <1>9, <2>1 DEF T
  <2>3. Level(Cardinality(F)) = SUBSET F
    BY <1>2
  <2> HIDE DEF Level, Turn
  <2>4. Solves(a)
    BY <2>2, <2>3
  <2> QED  BY <2>4
<1> HIDE DEF Turn
<1>11. closed = [X \in SUBSET F |-> Turn(closed, X)]
  BY <1>10
<1> HIDE DEF closed
<1>12. \A X \in SUBSET F : closed[X] = IF Index!Implied(X) \subseteq X THEN X ELSE closed[More(X)]
  BY <1>11 DEF Turn
<1>13. 0 \in C
  <2>1. \A X \in Level(0) : closed[X] = X /\ Index!Implied(X) \subseteq X
    BY <1>2, <1>6, <1>12
  <2> QED  BY <2>1 DEF Closed
<1>14. ASSUME NEW n \in Nat, n \in C PROVE n + 1 \in C
  <2>1. ASSUME NEW X \in Level(n + 1)
        PROVE  Least(X, closed[X])
    <3>1. CASE Index!Implied(X) \subseteq X
      BY <1>12, <2>1, <3>1 DEF Closed
    <3>2. CASE ~(Index!Implied(X) \subseteq X)
      <4>1. More(X) \in Level(n) /\ closed[X] = closed[More(X)]
        BY <1>5, <1>12, <2>1, <3>2
      <4>2. Least(More(X), closed[More(X)])
        BY <1>14, <4>1
      <4>3. ASSUME NEW Y, X \subseteq Y, Closed(Y) PROVE More(X) \subseteq Y
        BY <4>3, ImpliedMore DEF Closed, More
      <4> QED  BY <4>1, <4>2, <4>3
    <3> QED  BY <3>1, <3>2
  <2> QED  BY <2>1
<1>15. Nat \subseteq C
  <2> HIDE DEF C
  <2> QED  BY <1>13, <1>14, NatAll
<1>16. {} \in Level(Left({})) /\ Left({}) \in Nat
  BY <1>2
<1> QED  BY <1>1, <1>15, <1>16

----------------------------------------------------------------------------
(* What the index owes its users.                                          *)

\* What lies in every closed set lies in the least.
LEMMA IndexDerived ==
  ASSUME MapsOK, EGraphOK, IndexOK
  PROVE  Derived
<1>1. Closed(Index!Entailed)
  BY EntailedClosed
<1> QED  BY <1>1 DEF IndexOK, Supported, Derived

\* A witness is lost neither by more facts nor by more equalities.
LEMMA WitnessStays ==
  ASSUME closure \subseteq closure', Continues(egraph, egraph')
  PROVE  KeepsAnswer
<1> SUFFICES ASSUME Index!IsRealizable, zippers' = zippers PROVE Index!IsRealizable'
  BY DEF KeepsAnswer
<1>2. PICK z \in Index!Range(zippers) :
        \/ Index!Realizable(Index!MemoSite(z.memo)) \in closure
        \/ \E v \in Index!FocusClasses(z.focus) :
             Index!HasRealizableFor(Index!MemoSite(z.memo), v)
  BY DEF Index!IsRealizable
<1>3. CASE Index!Realizable(Index!MemoSite(z.memo)) \in closure
  BY <1>2, <1>3 DEF Index!IsRealizable
<1>4. ASSUME NEW v \in Index!FocusClasses(z.focus),
             Index!HasRealizableFor(Index!MemoSite(z.memo), v)
      PROVE  Index!IsRealizable'
  <2>1. PICK w \in Index!Demands(Index!MemoSite(z.memo)) :
          Canonical(egraph, w) = Canonical(egraph, v)
    BY <1>4, IndexNames DEF Index!HasRealizableFor
  <2>2. Canonical(egraph', w) = Canonical(egraph', v)
    BY <2>1 DEF Continues
  <2>3. w \in Index!Demands(Index!MemoSite(z.memo))'
    BY <2>1 DEF Index!Demands
  <2>4. Index!HasRealizableFor(Index!MemoSite(z.memo), v)'
    BY <2>2, <2>3, IndexNames DEF Index!HasRealizableFor
  <2>5. v \in Index!FocusClasses(z.focus)'
    BY <1>4 DEF Index!FocusClasses
  <2> QED  BY <1>2, <2>4, <2>5 DEF Index!IsRealizable
<1> QED  BY <1>2, <1>3, <1>4
=============================================================================
