--------------------------- MODULE AnalyzerCalls ---------------------------
(***************************************************************************)
(* The analyzer under any sequence of calls.                               *)
(***************************************************************************)
EXTENDS Analyzer

VARIABLES
  program, session, has_analyzed,   \* the fields of TypeScriptAnalyzer
  answer,                           \* what the last call returned
  incremental                       \* the flag of the last report

vars == <<program, session, has_analyzed, answer, incremental>>

\* `new` succeeds only for a valid program.
Init ==
  /\ program \in Valid
  /\ session = NewSession(program)
  /\ has_analyzed = FALSE
  /\ answer = Done
  /\ incremental = FALSE

AnalyzeCall(source) ==
  LET result == Analyze(program, session, source)
  IN /\ session' = result.session
     /\ answer' = result.answer
     /\ has_analyzed' = (has_analyzed \/ result.answer.ok)
     /\ incremental' = (/\ result.answer.ok
                        /\ has_analyzed
                        /\ Reusable(session, Lexed[source].tokens))
     /\ UNCHANGED program

SetProgramEarly(p) ==   \* mutant: the program is stored before it is checked
  /\ program' = p
  /\ IF p \in Valid
       THEN session' = NewSession(p) /\ has_analyzed' = FALSE /\ answer' = Done
       ELSE answer' = Failure /\ UNCHANGED <<session, has_analyzed>>
  /\ incremental' = FALSE

\* The program passed is checked by building a session before it is stored.
SetProgram(p) ==
  /\ IF p \in Valid
       THEN /\ program' = p
            /\ session' = NewSession(p)
            /\ has_analyzed' = FALSE
            /\ answer' = Done
       ELSE /\ answer' = Failure
            /\ UNCHANGED <<program, session, has_analyzed>>
  /\ incremental' = FALSE

Reset ==
  /\ session' = NewSession(program)
  /\ has_analyzed' = FALSE
  /\ answer' = Done
  /\ incremental' = FALSE
  /\ UNCHANGED program

Next == \/ \E source \in Sources : AnalyzeCall(source)
        \/ \E p \in Programs : SetProgram(p)
        \/ Reset

Spec == Init /\ [][Next]_vars
----------------------------------------------------------------------------
\* The fields hold what their types say, and the program in use is valid.
TypeOK ==
  /\ program \in Valid
  /\ session \in {NoSession} \cup Session
  /\ has_analyzed \in BOOLEAN
  /\ incremental \in BOOLEAN

\* Whatever was called, and whichever call failed half-way, the session kept is
\* in step with the program in use.
SessionInStep == InStep(program, session)

\* No caller can tell that a session is kept: whatever was analyzed, refused or
\* edited before, each answer is the one a new analyzer would give.
Contract == INSTANCE AnalyzerContract
Transparent == Contract!Spec
=============================================================================
