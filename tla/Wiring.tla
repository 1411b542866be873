------------------------------- MODULE Wiring -------------------------------
(***************************************************************************)
(* What every arrangement of the parts of src/monitor.rs has in common: a  *)
(* parser, the realizability index that reads its graph, and the e-graph   *)
(* that both speak of.  Linking lets them run free, Monitor runs them by   *)
(* the monitor's schedule.                                                 *)
(*                                                                         *)
(* A grammar holds besides its graph (see Pwz) the `schema` that           *)
(* src/grammar.rs compiles, which maps productions to constructors, and    *)
(* the `egraphs` that the user's program may start with.                   *)
(***************************************************************************)
EXTENDS PwzData, EGraph, Functions

CONSTANTS Grammars, MaxTokens, IdLimit      \* see Pwz

ASSUME WiringBounds == MaxTokens \in Nat /\ IdLimit \in Nat

\* A token has finitely many values.
ASSUME PayloadsFinite == \A t \in Tokens : IsFiniteSet(t.payload)

\* What the schema compiler checks: an action either passes one child on or
\* gives every input of a known constructor.
ActionWellTyped(s, action) ==
  IF action.constructor = None THEN DOMAIN action.positions = {1}
  ELSE /\ action.constructor \in DOMAIN s.constructors
       /\ DOMAIN action.positions = DOMAIN s.constructors[action.constructor].inputs

\* A constructor makes values of an equality sort, a lexeme is a primitive.
LexicalSorts(s) == {v.sort : v \in UNION Range(s.lexemes)}

\* `exact_tokens` reads a lexeme as a value of such a sort.
ASSUME PayloadsLexical ==
  \A g \in Grammars : \A t \in Tokens :
    {v.sort : v \in t.payload} \subseteq LexicalSorts(g.schema)

ConstructorWellTyped(s, constructor) ==
  /\ constructor # Disjoint
  /\ IsFiniteSet(DOMAIN s.constructors[constructor].inputs)
  /\ s.constructors[constructor].output \notin LexicalSorts(s)

RowWellTyped(s, row) ==
  row.constructor \in DOMAIN s.constructors =>
    DOMAIN row.children = DOMAIN s.constructors[row.constructor].inputs

EGraphWellTyped(s, g) ==
  /\ Coherent(g)
  /\ \A v \in DOMAIN g.find : v.sort \notin LexicalSorts(s)
  /\ \A row \in g.rows : RowWellTyped(s, row)

ASSUME GrammarsWellTyped ==
  \A g \in Grammars :
    /\ \A e \in DOMAIN g.expressions : LET node == g.expressions[e] IN
         /\ node.tag = "Tok" => node.terminal \in DOMAIN g.schema.lexemes
         /\ node.tag = "Seq" => /\ node.symbol.tag = "Grammar"
                                /\ node.symbol.symbol + 1 \in DOMAIN g.schema.actions
                                /\ g.schema.actions[node.symbol.symbol + 1].positions
                                     \in Seq(1 .. Len(node.children))
    /\ \A k \in DOMAIN g.schema.actions : ActionWellTyped(g.schema, g.schema.actions[k])
    /\ \A c \in DOMAIN g.schema.constructors : ConstructorWellTyped(g.schema, c)
    /\ \A h \in g.egraphs : EGraphWellTyped(g.schema, h) /\ h.find[h.target] = h.target

VARIABLES
  grammar, expressions, memos, contexts, zippers, changes, position,
  next_expression, next_memo, next_context, operations, next, token, input,
  published,                                            \* Pwz
  egraph,
  indexes, closure, agenda                              \* Realizability

schema == grammar.schema

Parser == INSTANCE Pwz
Index == INSTANCE Entailment

parser == <<grammar, expressions, memos, contexts, zippers, changes, position,
            next_expression, next_memo, next_context, operations, next, token,
            input, published>>
link == <<indexes, closure, agenda>>

----------------------------------------------------------------------------
(* What the index owes its users, however the parts are run.               *)

\* No fact is claimed that does not follow from the parser's maps and the e-graph
\* as they are: not while the index is half closed, nor while it is behind the
\* maps by a log, nor when classes of its values have been merged unreported.
Derived == Index!Reading \subseteq Index!Entailed

\* A witness once found stays one while only the e-graph changes, though the
\* facts it rests on are not told of merged classes before the next delta.
KeepsAnswer ==
  Index!IsRealizable /\ zippers' = zippers => (Index!IsRealizable)'
=============================================================================
