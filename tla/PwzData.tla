------------------------------ MODULE PwzData ------------------------------
(***************************************************************************)
(* The data of src/paper_pwz.rs: symbols, expression nodes, contexts,      *)
(* memos, changes and the work items of a derivative.                      *)
(*                                                                         *)
(* An enum is a set of records told apart by a tag.  A type that holds IDs *)
(* takes the sets of expression IDs E, memo IDs M and context IDs C that   *)
(* are allocated, so that membership also says that no ID dangles.         *)
(***************************************************************************)
EXTENDS Integers, Sequences

CONSTANT Tokens     \* the tokens `derive` may be called with

ASSUME TokensAssumption == \A t \in Tokens : t.terminal \in Nat

None == -1                       \* Option::None, where Some holds a natural
Option(S) == S \cup {None}

Bottom == [tag |-> "Bottom"]
GrammarSymbol(s) == [tag |-> "Grammar", symbol |-> s]
TokenSymbol(t) == [tag |-> "Token", token |-> t]

Symbol == {Bottom} \cup [tag : {"Grammar"}, symbol : Nat]
                   \cup [tag : {"Token"}, token : Tokens]

Tok(t) == [tag |-> "Tok", terminal |-> t]
Seqn(s, cs) == [tag |-> "Seq", symbol |-> s, children |-> cs]
Alt(cs) == [tag |-> "Alt", children |-> cs]

Node(E) == [tag : {"Tok"}, terminal : Nat]
             \cup [tag : {"Seq"}, symbol : Symbol, children : Seq(E)]
             \cup [tag : {"Alt"}, children : Seq(E)]

Expression(E, M) == [memo : Option(M), fixed : BOOLEAN, node : Node(E)]

TopContext == [tag |-> "Top"]
SeqContext(m, s, l, r) ==
  [tag |-> "Seq", memo |-> m, symbol |-> s, left |-> l, right |-> r]
AltContext(m) == [tag |-> "Alt", memo |-> m]

Context(E, M) ==
  {TopContext}
    \cup [tag : {"Seq"}, memo : M, symbol : Symbol, left : Seq(E), right : Seq(E)]
    \cup [tag : {"Alt"}, memo : M]

\* A memo at the moment `insert_memo` and the `append_parent` after it made it.
FreshMemo(start, context) ==
  [start |-> start, parents |-> <<context>>, end |-> None, result |-> None]

Memo(E, C) == [start : Option(Nat), parents : Seq(C),
               end : Option(Nat), result : Option(E)]

Zipper(E, M) == [focus : Node(E), memo : M]

Change(E, M, C) ==
  [change : {"NewExpression"}, expression : E]
    \cup [change : {"NewContext"}, context : C]
    \cup [change : {"MemoParentAppended"}, memo : M, context : C]
    \cup [change : {"AlternativeChildAppended"}, alternative : E, child : E]

NewExpression(e) == [change |-> "NewExpression", expression |-> e]
NewContext(c) == [change |-> "NewContext", context |-> c]
ParentAppended(m, c) ==
  [change |-> "MemoParentAppended", memo |-> m, context |-> c]
ChildAppended(a, e) ==
  [change |-> "AlternativeChildAppended", alternative |-> a, child |-> e]

\* The work items of one derivative.
DownOp(c, e) == [op |-> "Down", context |-> c, expression |-> e]
FreshOp(m, n) == [op |-> "DownFresh", memo |-> m, node |-> n]
UpOp(n, m) == [op |-> "Up", node |-> n, memo |-> m]
UpContextOp(e, c) == [op |-> "UpContext", expression |-> e, context |-> c]

Operation(E, M, C) ==
  [op : {"Down"}, context : C, expression : E]
    \cup [op : {"DownFresh"}, memo : M, node : Node(E)]
    \cup [op : {"Up"}, node : Node(E), memo : M]
    \cup [op : {"UpContext"}, expression : E, context : C]
=============================================================================
