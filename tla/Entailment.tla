----------------------------- MODULE Entailment -----------------------------
(***************************************************************************)
(* What the facts of Realizability are to be: the least set closed under   *)
(* the rules by which one fact follows from others, over the parser's maps *)
(* and the e-graph as they are now.  The rules ask for no order, no index  *)
(* and no work list, and speak of canonical values only.                   *)
(***************************************************************************)
EXTENDS Realizability

Site == {MemoSite(m) : m \in DOMAIN memos}
          \cup {ContextSite(c) : c \in DOMAIN contexts}

\* A sequence that stands for a token has the values of its lexeme.
IsLeaf(node) == node.tag = "Seq" /\ node.symbol.tag = "Token"

\* All values there are: classes, children of rows, and lexemes read.
Value ==
  DOMAIN egraph.find
    \cup (UNION {Range(r.children) : r \in egraph.rows})
    \cup (UNION {expressions[e].node.symbol.token.payload :
                 e \in {x \in DOMAIN expressions : IsLeaf(expressions[x].node)}})

\* All facts there could be.
Fact ==
  [fact : {"Produces"}, expression : DOMAIN expressions, value : Value]
    \cup [fact : {"RealizableFor"}, site : Site, value : Value]
    \cup [fact : {"Realizable"}, site : Site]

\* A fact as it is read: its value stands for the class it now belongs to.
Canonized(f) ==
  IF f.fact = "Realizable" THEN f ELSE [f EXCEPT !.value = Canonical(egraph, @)]

Reading == {Canonized(f) : f \in closure}

----------------------------------------------------------------------------
(* The rules.  X is a set of facts known already.                          *)

ValuesIn(X, e) ==
  {f.value : f \in {x \in X : x.fact = "Produces" /\ x.expression = e}}
DemandsIn(X, s) ==
  {f.value : f \in {x \in X : x.fact = "RealizableFor" /\ x.site = s}}

\* All children of the row but the hole's are values of what stands there.
Fits(X, row, children) ==
  \A a \in DOMAIN children :
    children[a] = Hole \/ row.children[a] \in ValuesIn(X, children[a])

\* The values of an expression.
ImpliedValues(X, e) ==
  LET node == expressions[e].node IN
  CASE node.tag = "Tok" -> TerminalValues(node.terminal)
    [] IsLeaf(node) -> {Canonical(egraph, v) : v \in node.symbol.token.payload}
    [] ~IsLeaf(node) /\ node.tag = "Seq" /\ ExpressionAction(e).constructor # None ->
         {r.output : r \in {x \in ExpressionRows(e) : Fits(X, x, ExpressionChildren(e))}}
    [] OTHER -> UNION {ValuesIn(X, child) : child \in Range(Selected(e))}

\* What context c asks for if its memo is to have the value demand.
ImpliedDemand(X, c, demand) ==
  LET children == ContextChildren(c)
      rows == {r \in Applications(egraph, ContextAction(c).constructor) :
                 r.output = demand /\ Fits(X, r, children)}
  IN CASE contexts[c].tag = "Alt" -> {RealizableFor(ContextSite(c), demand)}
       [] contexts[c].tag = "Seq" /\ ContextAction(c).constructor # None ->
            {HoleFact(c, r) : r \in rows}
       [] OTHER ->
            IF Head(children) = Hole THEN {RealizableFor(ContextSite(c), demand)}
            ELSE {Realizable(ContextSite(c)) : v \in {demand} \cap ValuesIn(X, Head(children))}

\* The facts of a context: from the target, or from those of its memo.
ImpliedAt(X, c) ==
  IF contexts[c].tag = "Top" THEN {RealizableFor(ContextSite(c), Canonical(egraph, egraph.target))}
  ELSE LET outer == MemoSite(contexts[c].memo) IN
       {Realizable(ContextSite(c)) : f \in X \cap {Realizable(outer)}}
         \cup (UNION {ImpliedDemand(X, c, demand) : demand \in DemandsIn(X, outer)})

\* The facts of a memo are those of the contexts that wait for it.
ImpliedBelow(X, m) ==
  LET above == {ContextSite(c) : c \in Range(memos[m].parents)} IN
  {[f EXCEPT !.site = MemoSite(m)] :
     f \in {x \in X : x.fact # "Produces" /\ x.site \in above}}

Implied(X) ==
  (UNION {{Produces(e, v) : v \in ImpliedValues(X, e)} : e \in DOMAIN expressions})
    \cup (UNION {ImpliedAt(X, c) : c \in DOMAIN contexts})
    \cup (UNION {ImpliedBelow(X, m) : m \in DOMAIN memos})

\* The least set of facts that the rules add nothing to.
Entailed ==
  LET closed[X \in SUBSET Fact] ==
        LET more == Implied(X) IN
        IF more \subseteq X THEN X ELSE closed[X \cup more]
  IN closed[{}]
=============================================================================
