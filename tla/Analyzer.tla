------------------------------ MODULE Analyzer ------------------------------
(***************************************************************************)
(* The stateful analyzer of web/src/lib.rs: a monitor is kept between two  *)
(* calls, and reused when the tokens of the new source extend the old.     *)
(*                                                                         *)
(* Operators only; AnalyzerCalls and WebDemo are its callers.  The lexer   *)
(* and the monitor are parameters: what `lex_prefix` finds in a source,    *)
(* and which pushes fail.  A monitor answers from its program and the      *)
(* tokens pushed so far, so that pair stands for the answer.  Of a span    *)
(* only its end is kept; a lexeme stands for the kind and text of a token. *)
(***************************************************************************)
EXTENDS Naturals, Sequences

CONSTANTS
  Programs,   \* egglog programs
  Valid,      \* those `Monitor::new` accepts
  Lexemes,
  Lexed,      \* source -> the result of `lex_prefix`
  Refused     \* pairs <<program, lexemes>>: pushing the last of them fails

Sources == DOMAIN Lexed

ASSUME AnalyzerAssumption ==
  /\ Valid \subseteq Programs
  /\ \A s \in Sources :
       /\ Lexed[s].ok \in BOOLEAN
       /\ Lexed[s].tokens \in Seq([lexeme : Lexemes, end : Nat])

Verdict(program, lexemes) == <<program, lexemes>>

NoSession == [open |-> FALSE]
OpenSession(program, pushed, tokens) ==
  [open |-> TRUE, program |-> program, pushed |-> pushed, tokens |-> tokens]
NewSession(program) == OpenSession(program, <<>>, <<>>)

Session == [open : {TRUE}, program : Valid, pushed : Seq(Lexemes),
            tokens : Seq([lexeme : Lexemes, end : Nat,
                          verdict : Valid \X Seq(Lexemes)])]

Failure == [ok |-> FALSE]
Done == [ok |-> TRUE]
----------------------------------------------------------------------------
ExtendsLength(previous, current) == Len(previous) <= Len(current) \* mutant
\* The new tokens begin with the cached ones, wherever they now stand.
Extends(previous, current) ==
  /\ Len(previous) <= Len(current)
  /\ \A k \in DOMAIN previous : previous[k].lexeme = current[k].lexeme

Reusable(session, tokens) == session.open /\ Extends(session.tokens, tokens)

\* The session to push into: the cached one with its spans moved to where the
\* tokens stand in the new source, or a fresh one.
Starting(program, session, tokens) ==
  IF Reusable(session, tokens)
    THEN OpenSession(session.program, session.pushed,
           [k \in DOMAIN session.tokens |->
              [session.tokens[k] EXCEPT !.end = tokens[k].end]])
    ELSE NewSession(program)

\* What the monitor has been given once tokens 1 .. k are pushed.
PushedUpTo(start, tokens, k) ==
  start.pushed \o [i \in 1 .. (k - Len(start.tokens)) |->
                     tokens[Len(start.tokens) + i].lexeme]

PushFails(start, tokens) ==
  \E k \in (Len(start.tokens) + 1) .. Len(tokens) :
    <<start.program, PushedUpTo(start, tokens, k)>> \in Refused

PushAll(start, tokens) ==
  OpenSession(start.program, PushedUpTo(start, tokens, Len(tokens)),
    [k \in DOMAIN tokens |->
       IF k \in DOMAIN start.tokens THEN start.tokens[k]
       ELSE [lexeme |-> tokens[k].lexeme, end |-> tokens[k].end,
             verdict |-> Verdict(start.program, PushedUpTo(start, tokens, k))]])

\* The verdict on the whole is that of the last token, or of no token.
Report(session) ==
  [ok |-> TRUE, tokens |-> session.tokens,
   realizability |->
     IF session.tokens = <<>> THEN Verdict(session.program, session.pushed)
     ELSE session.tokens[Len(session.tokens)].verdict]

----------------------------------------------------------------------------
AnalyzeKeeping(program, session, source) ==  \* mutant: a half-pushed session
  LET tokens == Lexed[source].tokens         \* survives a failed push
      start == Starting(program, session, tokens)
  IN IF ~Lexed[source].ok THEN [session |-> session, answer |-> Failure]
     ELSE IF PushFails(start, tokens)
       THEN [session |-> [start EXCEPT !.pushed = PushedUpTo(start, tokens, Len(tokens))],
             answer |-> Failure]
     ELSE [session |-> PushAll(start, tokens),
           answer |-> Report(PushAll(start, tokens))]

\* One call of `analyze`: the session it leaves and what it returns.  A source
\* that does not lex fails before the session is taken out; a later failure
\* leaves none.
Analyze(program, session, source) ==
  LET tokens == Lexed[source].tokens
      start == Starting(program, session, tokens)
  IN IF ~Lexed[source].ok THEN [session |-> session, answer |-> Failure]
     ELSE IF \/ ~Reusable(session, tokens) /\ program \notin Valid
             \/ PushFails(start, tokens)
       THEN [session |-> NoSession, answer |-> Failure]
     ELSE [session |-> PushAll(start, tokens),
           answer |-> Report(PushAll(start, tokens))]

----------------------------------------------------------------------------
(* What a caller may expect, without sessions.                             *)

Prefix(tokens, k) == [i \in 1 .. k |-> tokens[i].lexeme]

\* The answer of an analyzer that was made for this call.
Fresh(program, source) ==
  LET tokens == Lexed[source].tokens
  IN IF \/ program \notin Valid
        \/ ~Lexed[source].ok
        \/ \E k \in DOMAIN tokens : <<program, Prefix(tokens, k)>> \in Refused
       THEN Failure
     ELSE [ok |-> TRUE,
           tokens |-> [k \in DOMAIN tokens |->
             [lexeme |-> tokens[k].lexeme, end |-> tokens[k].end,
              verdict |-> Verdict(program, Prefix(tokens, k))]],
           realizability |-> Verdict(program, Prefix(tokens, Len(tokens)))]

\* A cached session is in step with a program: its monitor was built from it and
\* given exactly the tokens of the trace, each of which carries the verdict the
\* monitor had after it, and no push among them would have failed.
InStep(program, session) ==
  session.open =>
    /\ session.program = program
    /\ session.pushed = Prefix(session.tokens, Len(session.tokens))
    /\ \A k \in DOMAIN session.tokens :
         LET lexemes == Prefix(session.tokens, k)
         IN /\ session.tokens[k].verdict = Verdict(program, lexemes)
            /\ <<program, lexemes>> \notin Refused
=============================================================================
