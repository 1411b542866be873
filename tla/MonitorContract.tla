--------------------------- MODULE MonitorContract ---------------------------
(***************************************************************************)
(* What a user of src/monitor.rs may rely on: how the answers of one       *)
(* session can follow each other, whatever tokens and updates it is given. *)
(* A dead prefix stays dead, and a witness outlives every update.          *)
(***************************************************************************)
VARIABLES
  verdict,      \* "none" before `new` has returned
  broken,       \* a class was found to be disjoint from itself
  pushed        \* the call in progress derives a token

Answer == {"dead", "true", "false", "unknown"}

Init == verdict = "none" /\ ~broken /\ ~pushed

\* A token is derived from a live prefix only, and after an answer.
Push ==
  /\ ~pushed /\ pushed'
  /\ verdict \notin {"none", "dead"}
  /\ UNCHANGED <<verdict, broken>>

MayFollow(answer) ==
  /\ verdict = "dead" => answer = "dead"
  /\ verdict = "true" /\ ~pushed => answer = "true"
  /\ answer = "dead" => pushed \/ verdict \in {"none", "dead"}

\* The end of a call, be it an error.
Answered ==
  /\ verdict' \in Answer /\ MayFollow(verdict')
  /\ broken' \in {broken, TRUE}
  /\ ~pushed'

Next == Push \/ Answered

Spec == Init /\ [][Next]_<<verdict, broken, pushed>>
=============================================================================
