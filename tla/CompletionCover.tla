--------------------------- MODULE CompletionCover ---------------------------
(***************************************************************************)
(* `CompletionCover` of src/realizability.rs: a set of classes that holds  *)
(* the value of every completion of the current prefix, if one is found.   *)
(*                                                                         *)
(* NoCover is Option::None: nothing is known of some completion.  It is    *)
(* the set that holds the unknown value alone, so that an argument without *)
(* a cover is one choice among the choices of a constructor.  A search     *)
(* remembers the expressions it has finished and knows those it is in; what*)
(* it finds for an expression inside a cycle stays remembered, hence it    *)
(* takes the children in the code's order.                                 *)
(***************************************************************************)
EXTENDS Realizability, Guarantees, SequencesExt

CONSTANT MaxCombinations    \* MAX_DISJOINT_COMBINATIONS

VARIABLE guarantees

NoCover == {NoValue}

OrNone(values) == IF values = {} THEN NoCover ELSE values

CanonicalSet(values) == {Canonical(egraph, v) : v \in values}

AllOf(covers) ==
  IF NoCover \in Range(covers) THEN NoCover ELSE UNION Range(covers)

----------------------------------------------------------------------------
(* Constructors.                                                           *)

\* One combination of arguments: what is guaranteed, or else the row there is.
CombinationCover(constructor, children, matching) ==
  IF matching # {} THEN OrNone(GuaranteedOutputs(egraph, guarantees, matching))
  ELSE IF NoValue \in Range(children) THEN NoCover
  ELSE OrNone(Outputs(egraph, constructor, children))

\* mutant: combinations nothing is known of are passed over
KnownCombinations(constructor, choices) ==
  UNION ({CombinationCover(constructor, children,
                           Matching(egraph, guarantees, constructor, children)) :
            children \in Products(choices)} \ {NoCover})

AllCombinations(constructor, choices) ==
  LET covers == {CombinationCover(constructor, children,
                                  Matching(egraph, guarantees, constructor, children)) :
                   children \in Products(choices)}
  IN IF NoCover \in covers THEN NoCover ELSE UNION covers

Chosen(constructor, choices) ==
  IF {} \in Range(choices) \/ Cardinality(Products(choices)) > MaxCombinations
    THEN NoCover ELSE AllCombinations(constructor, choices)

\* `constructor_cover`
ConstructorCover(constructor, covers) ==
  LET inputs == schema.constructors[constructor].inputs IN
  Chosen(constructor,
    [a \in DOMAIN covers |->
       IF covers[a] = NoCover THEN NoCover
       ELSE CanonicalSet({v \in covers[a] : v.sort = inputs[a]})])

----------------------------------------------------------------------------
(* Expressions.                                                            *)

AlternativeCover(covers) == OrNone(AllOf(covers))

SequenceCover(e, covers) ==
  IF ExpressionAction(e).constructor # None
    THEN ConstructorCover(ExpressionAction(e).constructor, covers)
    ELSE AllOf(covers)

\* A search: what is remembered, {} being nothing, and the expressions it is in.
Value == [sort : Int, class : Int]
Searches == [cache : [DOMAIN expressions -> SUBSET Value],
             visiting : SUBSET DOMAIN expressions]
Unsearched == [cache |-> [e \in DOMAIN expressions |-> {}], visiting |-> {}]

\* What is remembered of e when it is left.
Left(e, search, cover) ==
  [search |-> [cache |-> [search.cache EXCEPT ![e] = cover],
               visiting |-> search.visiting \ {e}],
   cover |-> cover]

LeftAfter(e, found) ==
  Left(e, found.search, IF expressions[e].node.tag = "Alt"
                          THEN AlternativeCover(found.covers)
                          ELSE SequenceCover(e, found.covers))

\* The cover of one more child.
Covered(covers, r) == [search |-> r.search, covers |-> Append(covers, r.cover)]

\* `expression_outputs`
Search(root, begun) ==
  LET found[e \in DOMAIN expressions, search \in Searches] ==
        LET node == expressions[e].node
            \* The children in turn; an alternative gives up at the first failure.
            Next(f, child) ==
              IF node.tag = "Alt" /\ NoCover \in Range(f.covers) THEN f
              ELSE Covered(f.covers, found[child, f.search])
            Each(s) == FoldLeft(Next, [search |-> s, covers |-> <<>>], Selected(e))
        IN CASE search.cache[e] # {} -> [search |-> search, cover |-> search.cache[e]]
             [] search.cache[e] = {} /\ e \in search.visiting ->
                  [search |-> search, cover |-> NoCover]
             [] OTHER ->
                  IF expressions[e].fixed
                    THEN Left(e, search, OrNone(CanonicalSet(Values(e))))
                  ELSE IF node.tag = "Tok" THEN Left(e, search, NoCover)
                  ELSE IF node.tag = "Seq" /\ node.symbol.tag = "Token"
                    THEN Left(e, search, OrNone(node.symbol.token.payload))
                  ELSE LeftAfter(e, Each([search EXCEPT !.visiting = @ \cup {e}]))
  IN found[root, begun]

----------------------------------------------------------------------------
(* Contexts, from the zippers outwards.                                    *)

ContextCover(c, found) ==
  [search |-> found.search,
   cover |-> IF ContextAction(c).constructor = None THEN AllOf(found.covers)
             ELSE ConstructorCover(ContextAction(c).constructor, found.covers)]

\* `context_outputs` for one value of the hole
ContextOutputs(c, hole, search) ==
  ContextCover(c,
    FoldLeft(LAMBDA found, child :
               IF child = Hole THEN [found EXCEPT !.covers = Append(@, {hole})]
               ELSE Covered(found.covers, Search(child, found.search)),
             [search |-> search, covers |-> <<>>], ContextChildren(c)))

Sites(memo, holes) ==
  LET order == SetToSeq(holes)
  IN [i \in DOMAIN order |-> [memo |-> memo, hole |-> order[i]]]

Entered(walk, memo, r) ==
  IF r.cover \in {NoCover, {}} THEN [walk EXCEPT !.outputs = NoCover]
  ELSE [walk EXCEPT !.pending = Sites(memo, r.cover) \o @, !.search = r.search]

\* One parent of a memo whose value is `hole`.
Cross(walk, c, hole) ==
  IF walk.outputs = NoCover THEN walk
  ELSE CASE contexts[c].tag = "Top" ->
              [walk EXCEPT !.outputs = IF hole = NoValue THEN NoCover ELSE @ \cup {hole}]
         [] contexts[c].tag = "Alt" ->
              [walk EXCEPT !.pending = Sites(contexts[c].memo, {hole}) \o @]
         [] contexts[c].tag = "Seq" ->
              Entered(walk, contexts[c].memo, ContextOutputs(c, hole, walk.search))

CrossAll(walk, memo, hole) ==
  IF <<memo, hole>> \in walk.seen THEN walk
  ELSE IF memos[memo].parents = <<>> THEN [walk EXCEPT !.outputs = NoCover]
  ELSE FoldLeft(LAMBDA w, c : Cross(w, c, hole),
                [walk EXCEPT !.seen = @ \cup {<<memo, hole>>}], memos[memo].parents)

Walks == [pending : Seq([memo : DOMAIN memos, hole : Value]),
          seen : SUBSET ((DOMAIN memos) \X Value), outputs : SUBSET Value,
          search : Searches]

Walked(start) ==
  LET outputs[walk \in Walks] ==
        IF walk.outputs = NoCover \/ walk.pending = <<>> THEN walk.outputs
        ELSE LET top == Head(walk.pending)
             IN outputs[CrossAll([walk EXCEPT !.pending = Tail(@)], top.memo,
                                 Canonical(egraph, top.hole))]
  IN outputs[start]

\* The hole of a zipper that is not a token is not known.
ZipperSites(z) == Sites(z.memo, OrNone(FocusClasses(z.focus)))

\* `all_outputs`
AllOutputs ==
  OrNone(Walked([pending |-> FoldLeft(LAMBDA sites, z : ZipperSites(z) \o sites,
                                      <<>>, zippers),
                 seen |-> {}, outputs |-> {},
                 search |-> Unsearched]))

OffTarget(outputs) ==
  outputs # NoCover /\ \A v \in outputs : Separated(egraph, v, egraph.target)

\* `is_unrealizable`
IsUnrealizable == HasDisjointFacts(egraph) /\ OffTarget(AllOutputs)
=============================================================================
