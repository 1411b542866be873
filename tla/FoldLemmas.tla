----------------------------- MODULE FoldLemmas -----------------------------
(***************************************************************************)
(* What holds of a fold, or of a loop that is iterated, holds of it from   *)
(* the start and is kept by each step: for any step, to be instantiated.   *)
(*                                                                         *)
(* A fold over a set takes its elements in the order that Pick chooses.    *)
(* The lemmas speak of the recursive functions that the folds of the       *)
(* community modules, and the loops of ours, expand to.  That these exist  *)
(* is the larger part of the proofs.                                       *)
(***************************************************************************)
EXTENDS Integers

CONSTANTS
  Step(_, _, _),   \* a parameter, an element, the state so far: the next state
  Pick(_),         \* an element of a set that is not empty
  Good(_, _)       \* a parameter, a state

----------------------------------------------------------------------------
(* Induction.  Where a module with its theorems would come with every      *)
(* instance of this one, the two facts the lemmas need are hypotheses.     *)

\* Induction over the natural numbers, for a property given as a set of them.
NatInducts ==
  \A T : 0 \in T /\ (\A n \in Nat : n \in T => n + 1 \in T) => Nat \subseteq T

\* The subsets of S have sizes, as those of a finite set do.
Sizes(size, S) ==
  /\ size[S] \in Nat
  /\ \A s \in SUBSET S : /\ size[s] \in Nat /\ (s = {} <=> size[s] = 0)
                         /\ size[s] <= size[S]
                         /\ \A x \in s : size[s \ {x}] = size[s] - 1
Sized(S) == \E size : Sizes(size, S)

----------------------------------------------------------------------------
(* Folds.                                                                  *)

Fold(p, base, S) ==
  LET iter[s \in SUBSET S] ==
        IF s = {} THEN base ELSE Step(p, Pick(s), iter[s \ {Pick(s)}])
  IN iter[S]

\* a is the function that the fold over S recurses by.
Folds(a, p, base, S) ==
  \A s \in SUBSET S :
    a[s] = IF s = {} THEN base ELSE Step(p, Pick(s), a[s \ {Pick(s)}])

\* Subsets of at most n elements.
Within(size, S, n) == {s \in SUBSET S : size[s] <= n}

\* The function exists for the subsets of a bounded size, and so for all.
LEMMA FoldExists ==
  ASSUME NEW p, NEW base, NEW S, NatInducts, Sized(S),
         \A s \in SUBSET S : s # {} => Pick(s) \in s
  PROVE  \E a : Fold(p, base, S) = a[S] /\ Folds(a, p, base, S)
<1>0. PICK size : Sizes(size, S)
  BY DEF Sized
<1> DEFINE Turn(a, s) == Step(p, Pick(s), a[s \ {Pick(s)}])
           Solves(a) == a = [s \in SUBSET S |-> IF s = {} THEN base ELSE Turn(a, s)]
           iter == CHOOSE a : Solves(a)
           Upto(a, n) == a = [s \in Within(size, S, n) |-> IF s = {} THEN base ELSE Turn(a, s)]
           T == {n \in Nat : \E a : Upto(a, n)}
<1>1. Fold(p, base, S) = iter[S]
  BY DEF Fold
<1>2. \A s \in SUBSET S : size[s] \in Nat /\ (s = {} <=> size[s] = 0) /\ size[s] <= size[S]
  BY <1>0 DEF Sizes
<1>3. \A s \in SUBSET S : s # {} =>
        s \ {Pick(s)} \in SUBSET S /\ size[s \ {Pick(s)}] = size[s] - 1
  BY <1>0 DEF Sizes
<1>4. 0 \in T
  <2>1. Within(size, S, 0) = {{}}
    BY <1>2 DEF Within
  <2>2. Upto([s \in Within(size, S, 0) |-> base], 0)
    BY <2>1
  <2> QED  BY <2>2
<1>5. ASSUME NEW n \in Nat, n \in T PROVE n + 1 \in T
  <2>1. PICK a : Upto(a, n)
    BY <1>5
  <2> DEFINE h == [s \in Within(size, S, n + 1) |-> IF s \in Within(size, S, n) THEN a[s] ELSE Turn(a, s)]
  <2>2. \A s \in Within(size, S, n + 1) : s # {} => s \ {Pick(s)} \in Within(size, S, n)
    BY <1>2, <1>3 DEF Within
  <2>3. \A s \in Within(size, S, n) : s \in Within(size, S, n + 1) /\ h[s] = a[s]
    BY <1>2 DEF Within
  <2>4. {} \in Within(size, S, n)
    BY <1>2 DEF Within
  <2>5. \A s \in Within(size, S, n) : a[s] = IF s = {} THEN base ELSE Turn(a, s)
    BY <2>1
  <2>6. ASSUME NEW s \in Within(size, S, n + 1)
        PROVE  h[s] = IF s = {} THEN base ELSE Turn(h, s)
    <3>1. CASE s = {}
      BY <3>1, <2>3, <2>4, <2>5
    <3>2. CASE s # {}
      <4>1. h[s \ {Pick(s)}] = a[s \ {Pick(s)}]
        BY <2>2, <2>3, <3>2
      <4>2. h[s] = Turn(a, s)
        BY <2>5, <3>2
      <4> QED  BY <3>2, <4>1, <4>2
    <3> QED  BY <3>1, <3>2
  <2>7. h = [s \in Within(size, S, n + 1) |-> h[s]]
    OBVIOUS
  <2> HIDE DEF h, Turn
  <2>8. Upto(h, n + 1)
    BY <2>6, <2>7
  <2> QED  BY <2>8
<1> HIDE DEF T
<1>6. \A n \in Nat : n \in T
  BY <1>4, <1>5 DEF NatInducts
<1>7. \E a : Solves(a)
  <2>1. size[S] \in T
    BY <1>2, <1>6
  <2>2. Within(size, S, size[S]) = SUBSET S
    BY <1>2 DEF Within
  <2> QED  BY <2>1, <2>2 DEF T
<1>8. Solves(iter)
  <2> HIDE DEF Solves
  <2> QED  BY <1>7
<1> HIDE DEF iter
<1>9. \A s \in SUBSET S : iter[s] = IF s = {} THEN base ELSE Turn(iter, s)
  <2> DEFINE value(s) == IF s = {} THEN base ELSE Turn(iter, s)
  <2>1. iter = [s \in SUBSET S |-> value(s)]
    BY <1>8
  <2> HIDE DEF value
  <2>2. \A s \in SUBSET S : iter[s] = value(s)
    BY <2>1
  <2> QED  BY <2>2 DEF value
<1>10. Folds(iter, p, base, S)
  BY <1>9 DEF Folds
<1> QED  BY <1>1, <1>10

\* What is good at the start and stays so is good at the end.
LEMMA FoldGood ==
  ASSUME NEW p, NEW base, NEW S, NatInducts, Sized(S),
         \A s \in SUBSET S : s # {} => Pick(s) \in s,
         Good(p, base), \A x \in S : \A h : Good(p, h) => Good(p, Step(p, x, h))
  PROVE  Good(p, Fold(p, base, S))
<1>1. PICK a : Fold(p, base, S) = a[S] /\ Folds(a, p, base, S)
  BY FoldExists
<1>0. PICK size : Sizes(size, S)
  BY DEF Sized
<1> DEFINE T == {n \in Nat : \A s \in SUBSET S : size[s] = n => Good(p, a[s])}
<1>2. \A s \in SUBSET S : size[s] \in Nat /\ (s = {} <=> size[s] = 0)
  BY <1>0 DEF Sizes
<1>3. 0 \in T
  BY <1>1, <1>2 DEF Folds
<1>4. ASSUME NEW n \in Nat, n \in T PROVE n + 1 \in T
  <2> SUFFICES ASSUME NEW s \in SUBSET S, size[s] = n + 1 PROVE Good(p, a[s])
    OBVIOUS
  <2>1. s # {} /\ Pick(s) \in S
    BY <1>2
  <2>2. s \ {Pick(s)} \in SUBSET S /\ size[s \ {Pick(s)}] = n
    <3>1. size[s \ {Pick(s)}] = size[s] - 1
      BY <1>0, <2>1 DEF Sizes
    <3> QED  BY <3>1
  <2>3. Good(p, a[s \ {Pick(s)}])
    BY <1>4, <2>2
  <2>4. a[s] = Step(p, Pick(s), a[s \ {Pick(s)}])
    BY <1>1, <2>1 DEF Folds
  <2> QED  BY <2>1, <2>3, <2>4
<1> HIDE DEF T
<1>5. \A n \in Nat : n \in T
  BY <1>3, <1>4 DEF NatInducts
<1>6. size[S] \in T
  BY <1>2, <1>5
<1> QED  BY <1>1, <1>6 DEF T

----------------------------------------------------------------------------
(* Loops.                                                                  *)

Loop(p, base, rounds) ==
  LET after[n \in Nat] == IF n = 0 THEN base ELSE Step(p, n, after[n - 1])
  IN after[rounds]

\* f is the function that the loop recurses by.
Loops(f, p, base) ==
  \A n \in Nat : f[n] = IF n = 0 THEN base ELSE Step(p, n, f[n - 1])

\* The first k rounds are a function, each time the same, and so are all rounds.
LEMMA LoopExists ==
  ASSUME NatInducts, NEW p, NEW base
  PROVE  \E f : (\A n \in Nat : Loop(p, base, n) = f[n]) /\ Loops(f, p, base)
<1> DEFINE Turn(f, n) == IF n = 0 THEN base ELSE Step(p, n, f[n - 1])
           A(f, k) == f = [n \in 0 .. k |-> Turn(f, n)]
           Solves(f) == f = [n \in Nat |-> Turn(f, n)]
           after == CHOOSE f : Solves(f)
           T == {k \in Nat : \E f : A(f, k)}
<1>1. \A n : Loop(p, base, n) = after[n]
  BY DEF Loop
<1>2. 0 \in T
  <2>1. A([n \in 0 .. 0 |-> base], 0)
    OBVIOUS
  <2> QED  BY <2>1
<1>3. ASSUME NEW k \in Nat, k \in T PROVE k + 1 \in T
  <2>1. PICK f : A(f, k)
    BY <1>3
  <2> DEFINE h == [n \in 0 .. (k + 1) |-> IF n = k + 1 THEN Step(p, n, f[k]) ELSE f[n]]
  <2>2. \A n \in 0 .. k : h[n] = f[n]
    OBVIOUS
  <2>3. \A n \in 0 .. k : f[n] = Turn(f, n)
    BY <2>1
  <2>4. h[k + 1] = Step(p, k + 1, f[k])
    OBVIOUS
  <2>5. h = [n \in 0 .. (k + 1) |-> h[n]]
    OBVIOUS
  <2> HIDE DEF h
  <2>6. ASSUME NEW n \in 0 .. (k + 1) PROVE h[n] = Turn(h, n)
    <3>1. CASE n = k + 1
      <4>1. n # 0 /\ n - 1 = k /\ k \in 0 .. k
        BY <3>1
      <4> QED  BY <4>1, <3>1, <2>2, <2>4
    <3>2. CASE n # k + 1
      <4>1. n \in 0 .. k /\ (n # 0 => n - 1 \in 0 .. k)
        BY <3>2
      <4> QED  BY <4>1, <2>2, <2>3
    <3> QED  BY <3>1, <3>2
  <2> HIDE DEF Turn
  <2>7. A(h, k + 1)
    BY <2>5, <2>6
  <2> QED  BY <2>7
<1> HIDE DEF T
<1>4. \A k \in Nat : k \in T
  BY <1>2, <1>3 DEF NatInducts
<1>5. ASSUME NEW j \in Nat, NEW k \in Nat, NEW f, NEW h, A(f, j), A(h, k)
      PROVE  \A n \in Nat : n <= j /\ n <= k => f[n] = h[n]
  <2> DEFINE U == {n \in Nat : n <= j /\ n <= k => f[n] = h[n]}
  <2>1. \A n \in 0 .. j : f[n] = Turn(f, n)
    BY <1>5
  <2>2. \A n \in 0 .. k : h[n] = Turn(h, n)
    BY <1>5
  <2>3. 0 \in U
    BY <2>1, <2>2
  <2>4. ASSUME NEW n \in Nat, n \in U PROVE n + 1 \in U
    <3>1. ASSUME n + 1 <= j, n + 1 <= k PROVE f[n + 1] = h[n + 1]
      <4>1. f[n] = h[n]
        BY <2>4, <3>1
      <4>2. n + 1 \in 0 .. j /\ n + 1 \in 0 .. k /\ n + 1 # 0 /\ (n + 1) - 1 = n
        BY <3>1
      <4> HIDE DEF A
      <4> QED  BY <4>1, <4>2, <2>1, <2>2
    <3> QED  BY <3>1
  <2> HIDE DEF U
  <2>5. \A n \in Nat : n \in U
    BY <2>3, <2>4 DEF NatInducts
  <2> QED  BY <2>5 DEF U
<1> DEFINE C(k) == CHOOSE f : A(f, k)
           e == [n \in Nat |-> C(n)[n]]
<1>6. \A k \in Nat : A(C(k), k)
  <2> HIDE DEF A
  <2> QED  BY <1>4 DEF T
<1> HIDE DEF C
<1>7. ASSUME NEW n \in Nat PROVE e[n] = Turn(e, n)
  <2>1. C(n)[n] = Turn(C(n), n)
    BY <1>6
  <2>2. CASE n = 0
    BY <2>1, <2>2
  <2>3. CASE n # 0
    <3>1. n - 1 \in Nat /\ n - 1 <= n /\ n - 1 <= n - 1
      BY <2>3
    <3>2. C(n)[n - 1] = C(n - 1)[n - 1]
      <4> HIDE DEF A
      <4> QED  BY <1>5, <1>6, <3>1
    <3> QED  BY <2>1, <2>3, <3>1, <3>2
  <2> QED  BY <2>2, <2>3
<1>8. Solves(e)
  <2>1. e = [n \in Nat |-> e[n]]
    OBVIOUS
  <2> HIDE DEF e, Turn
  <2> QED  BY <1>7, <2>1
<1>9. Solves(after)
  <2> HIDE DEF Solves
  <2> QED  BY <1>8
<1> HIDE DEF after
<1>10. Loops(after, p, base)
  <2> DEFINE value(n) == Turn(after, n)
  <2>1. after = [n \in Nat |-> value(n)]
    BY <1>9
  <2> HIDE DEF value
  <2>2. \A n \in Nat : after[n] = value(n)
    BY <2>1
  <2> QED  BY <2>2 DEF value, Loops
<1> QED  BY <1>1, <1>10

\* What is good before and stays so is good after any number of rounds.
LEMMA LoopGood ==
  ASSUME NatInducts, NEW p, NEW base, NEW rounds \in Nat,
         Good(p, base), \A n \in Nat : \A h : Good(p, h) => Good(p, Step(p, n, h))
  PROVE  Good(p, Loop(p, base, rounds))
<1>1. PICK f : (\A n \in Nat : Loop(p, base, n) = f[n]) /\ Loops(f, p, base)
  BY LoopExists
<1> DEFINE T == {n \in Nat : Good(p, f[n])}
<1>2. 0 \in T
  BY <1>1 DEF Loops
<1>3. ASSUME NEW n \in Nat, n \in T PROVE n + 1 \in T
  <2>1. n + 1 \in Nat /\ n + 1 # 0 /\ (n + 1) - 1 = n
    OBVIOUS
  <2>2. f[n + 1] = Step(p, n + 1, f[n])
    BY <1>1, <2>1 DEF Loops
  <2> QED  BY <1>3, <2>1, <2>2
<1> HIDE DEF T
<1>4. \A n \in Nat : n \in T
  BY <1>2, <1>3 DEF NatInducts
<1> QED  BY <1>1, <1>4 DEF T

=============================================================================
