----------------------------- MODULE Guarantees -----------------------------
(***************************************************************************)
(* What src/egglog_backend.rs reads off the e-graph to decide that no      *)
(* completion can reach the target: the user's `Disjoint` relation, and    *)
(* the rewrites that fix a constructor's value despite missing arguments,  *)
(* such as Add(Error, x) -> Error.                                         *)
(*                                                                         *)
(* A guarantee holds of one constructor, asks of each argument that it be  *)
(* the value of a nullary constructor, or nothing, and names the nullary   *)
(* constructor whose value is the output.                                  *)
(***************************************************************************)
EXTENDS EGraph, Functions

AnyArgument == -1

HasDisjointFacts(g) == Applications(g, Disjoint) # {}

\* `disjoint`, which holds of target-sorted values only.
Separated(g, u, v) ==
  LET x == Canonical(g, u) y == Canonical(g, v) IN
  /\ u.sort = g.target.sort /\ v.sort = g.target.sort
  /\ {DisjointRow(x, y), DisjointRow(y, x)} \cap g.rows # {}

\* `nullary_value`: none or one
NullaryValue(g, constructor) == Outputs(g, constructor, <<>>)

GuaranteeMatches(g, guarantee, children) ==
  /\ DOMAIN guarantee.arguments = DOMAIN children
  /\ \A a \in DOMAIN children :
       \/ guarantee.arguments[a] = AnyArgument
       \/ /\ children[a] # NoValue
          /\ \E required \in NullaryValue(g, guarantee.arguments[a]) :
               Equivalent(g, children[a], required)

\* The places, among the guarantees as declared, of those that hold of an application.
Matching(g, guarantees, constructor, children) ==
  {k \in DOMAIN guarantees : /\ guarantees[k].constructor = constructor
                             /\ GuaranteeMatches(g, guarantees[k], children)}

GuaranteedOutputs(g, guarantees, matching) ==
  UNION {NullaryValue(g, guarantees[k].output) : k \in matching}
=============================================================================
