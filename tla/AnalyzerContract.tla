-------------------------- MODULE AnalyzerContract --------------------------
(***************************************************************************)
(* What the analyzer promises: it answers every call as one that keeps     *)
(* nothing but its program would.                                          *)
(***************************************************************************)
EXTENDS Analyzer

VARIABLES program, answer

Init == program \in Valid /\ answer = Done

Analyzing(source) ==
  /\ answer' = Fresh(program, source)
  /\ UNCHANGED program

\* An invalid program is refused and changes nothing.
SettingProgram(p) ==
  \/ p \in Valid /\ program' = p /\ answer' = Done
  \/ p \notin Valid /\ answer' = Failure /\ UNCHANGED program

Resetting == answer' = Done /\ UNCHANGED program

Next == \/ \E source \in Sources : Analyzing(source)
        \/ \E p \in Programs : SettingProgram(p)
        \/ Resetting

Spec == Init /\ [][Next]_<<program, answer>>
=============================================================================
