------------------------------- MODULE Monitor -------------------------------
(***************************************************************************)
(* src/monitor.rs: a parser, the index, and the backend with the e-graph,  *)
(* and the calls that drive them.                                          *)
(*                                                                         *)
(* `call` is the call in progress and where it stands.  Nothing runs while *)
(* another call does, but each of its steps leaves parser, index and       *)
(* e-graph out of step with each other, and it may return from many of     *)
(* them.  Calls that are refused, or that find no zipper, change nothing   *)
(* and are left out.                                                       *)
(***************************************************************************)
EXTENDS Wiring, SequencesExt

CONSTANTS
  MatchBatch, MaxMatches, MaxCombinations,   \* see Backend, CompletionCover
  MaxUpdates                     \* bound: calls of `run_egglog`
  \* A grammar also holds the `program` to start with, the `updates` that may be
  \* run, and the `length` that bounds its inputs; its schema all `functions`.

ASSUME MonitorBounds == MatchBatch \in Nat /\ MaxMatches \in Nat /\ MaxUpdates \in Nat

\* What egglog checks of a program: its atoms give every input of a function it
\* has declared, and its constructors are among these functions.
FunctionsWellTyped(s) ==
  /\ \A f \in DOMAIN s.functions :
       /\ f # Disjoint /\ IsFiniteSet(DOMAIN s.functions[f].inputs)
       /\ s.functions[f].output \notin LexicalSorts(s)
  /\ \A c \in DOMAIN s.constructors :
       c \in DOMAIN s.functions /\ s.functions[c] = s.constructors[c]

AtomWellTyped(s, atom) ==
  IF atom.constructor = Disjoint THEN DOMAIN atom.arguments = {1, 2}
  ELSE /\ atom.constructor \in DOMAIN s.functions
       /\ DOMAIN atom.arguments = DOMAIN s.functions[atom.constructor].inputs

AtomsWellTyped(s, atoms) ==
  atoms \in Seq(Range(atoms)) /\ \A atom \in Range(atoms) : AtomWellTyped(s, atom)

CommandWellTyped(s, command) ==
  /\ command.command = "Act" => /\ AtomsWellTyped(s, command.make)
                                /\ IsFiniteSet(command.unions)
  /\ command.command = "Rule" => /\ AtomsWellTyped(s, command.rule.make)
                                 /\ IsFiniteSet(command.rule.unions)
  /\ command.command = "Rewrite" => AtomsWellTyped(s, command.rewrite.rhs)

ASSUME ProgramsWellTyped ==
  \A g \in Grammars :
    /\ FunctionsWellTyped(g.schema)
    /\ \A commands \in {g.program} \cup g.updates :
         /\ commands \in Seq(Range(commands))
         /\ \A command \in Range(commands) : CommandWellTyped(g.schema, command)

VARIABLES
  walk,                                                 \* Materialization
  guarantees, rules, target_focus, focus, selected, taken,
  intersection_stale, pending, turn, update,            \* Backend
  call,
  log,          \* the changes of the last derivative
  verdict,      \* what `realizability` said when the last call returned
  broken,       \* history: a class was found to be disjoint from itself
  updates       \* bounded by MaxUpdates

Walk == INSTANCE Materialization
Cover == INSTANCE CompletionCover
Egglog == INSTANCE Backend

program == <<guarantees, rules>>
schedule == <<target_focus, focus, selected, taken>>
delta == <<intersection_stale, pending>>
history == <<verdict, broken, updates>>
vars == <<parser, link, walk, egraph, program, schedule, delta, turn, update,
          call, log, history>>

----------------------------------------------------------------------------
(* Calls.                                                                  *)

Begun(kind, at) == [kind |-> kind, at |-> at, after |-> "Idle", changes |-> {},
                    moved |-> FALSE, updated |-> FALSE]
NoCall == Begun("None", "Idle")

Idle == call.at = "Idle"
At(place) == call.at = place /\ agenda = <<>>
Goto(place) == call' = [call EXCEPT !.at = place]

\* `realizability`; "dead" is Some(false) for want of a zipper.
Realizability ==
  IF zippers = <<>> THEN "dead"
  ELSE IF Index!IsRealizable THEN "true"
  ELSE IF Cover!IsUnrealizable THEN "false" ELSE "unknown"

Return(answer) ==
  /\ call' = NoCall
  /\ log' = <<>>
  /\ verdict' = answer
  /\ UNCHANGED <<broken, updates>>

\* An error of `validate_disjoint`.
ReturnBroken ==
  /\ call' = NoCall
  /\ log' = <<>>
  /\ verdict' = Realizability
  /\ broken' = TRUE
  /\ UNCHANGED updates

\* `new`, from where the backend is initialized
Init ==
  /\ Parser!Init
  /\ egraph \in grammar.egraphs
  /\ Egglog!Initialized(grammar.program)
  /\ indexes = Index!NoIndexes /\ closure = {} /\ agenda = <<>>
  /\ walk = Walk!NoWalk
  /\ call = Begun("New", "Told")
  /\ log = <<>>
  /\ verdict = "none" /\ broken = FALSE /\ updates = 0

----------------------------------------------------------------------------
(* `push_lexeme` and `new`: the derivative and its changes.                *)

Push(t) ==
  /\ Idle /\ zippers # <<>> /\ Len(input) < grammar.length
  /\ Parser!Derive(t)
  /\ call' = Begun("Push", "Derive")
  /\ UNCHANGED <<link, walk, egraph, program, schedule, delta, turn, update, log, history>>

Parse ==
  /\ Parser!Step
  /\ UNCHANGED <<link, walk, egraph, program, schedule, delta, turn, update,
                 call, log, history>>

Parsed ==
  /\ Parser!EndDerive
  /\ log' = changes
  /\ Goto("Told")
  /\ UNCHANGED <<link, walk, egraph, program, schedule, delta, turn, update, history>>

\* `update_pwz`; `new` hands over the whole graph.
Tell ==
  /\ At("Told")
  /\ Index!UpdatePwz(IF call.kind = "New" THEN Index!InitialLog ELSE Range(log))
  /\ Goto("Linked")
  /\ UNCHANGED <<parser, walk, egraph, program, schedule, delta, turn, update,
                 log, history>>

\* The loop of `close`, in one of its orders.
Close ==
  /\ agenda # <<>>
  /\ Index!CloseEvent(CHOOSE event \in Head(agenda) : TRUE)
  /\ UNCHANGED <<parser, walk, egraph, program, schedule, delta, turn, update,
                 call, log, history>>

\* `synchronize` up to the first materialization
Synchronize(new_expressions) ==
  /\ Egglog!BeginFocus
  /\ Walk!BeginWalk(new_expressions)
  /\ call' = [call EXCEPT !.at = "Walk", !.moved = FALSE, !.updated = TRUE]
  /\ UNCHANGED <<target_focus, selected, taken, log, history>>

NewExpressions ==
  FoldLeft(LAMBDA new, change :
             IF change.change = "NewExpression" THEN Append(new, change.expression)
             ELSE new, <<>>, log)

\* What a derivative alone can tell; `new` also asks for a refusal.
EarlyAnswer(answer) ==
  answer \in {"dead", "true"} \/ (answer = "false" /\ call.kind # "Push")

AnswerEarly ==
  /\ At("Linked") \/ At("Updated")
  /\ \E answer \in {Realizability} :
       IF EarlyAnswer(answer)
         THEN Return(answer) /\ UNCHANGED <<schedule, walk>>
         ELSE Synchronize(NewExpressions)
  /\ UNCHANGED <<parser, link, egraph, program, delta, turn, update>>

----------------------------------------------------------------------------
(* `synchronize`: materialize, report, and run rules until an answer.      *)

Marking(marks) == pending' = pending \cup marks

\* One step of `materialize_fixed` or `materialize_focus`.
WalkOn ==
  /\ At("Walk")
  /\ \/ Walk!EnterSite /\ UNCHANGED <<egraph, link, pending>>
     \/ Walk!TakeExpression /\ Marking(Walk!ExpressionMarks)
     \/ Walk!TakeContext /\ UNCHANGED pending
     \/ /\ Walk!Facing("Cross")
        /\ \E made \in {Walk!Crossing} : Walk!CrossContext(made) /\ Marking(made.marks)
  /\ UNCHANGED <<parser, program, schedule, intersection_stale, turn, update,
                 call, log, history>>

\* The end of `materialize_fixed`.
FixedDone ==
  /\ At("Walk") /\ Walk!FixedDone
  /\ Egglog!SaturateNear(Walk!FixedRelevant)
  /\ Walk!BeginFocusWalk
  /\ call' = [call EXCEPT !.moved = focus' # focus]
  /\ UNCHANGED <<parser, link, egraph, program, target_focus, selected, taken,
                 delta, turn, update, log, history>>

\* The end of `materialize_focus`.
FocusDone ==
  /\ At("Walk") /\ Walk!FocusDone
  /\ Egglog!SaturateNear(walk.relevant)
  /\ walk' = Walk!NoWalk
  /\ call' = [call EXCEPT !.moved = @ \/ focus' # focus, !.at = "Flush", !.after = "Walked"]
  /\ UNCHANGED <<parser, link, egraph, program, target_focus, selected, taken,
                 delta, turn, update, log, history>>

\* `flush_changes`
Flush ==
  /\ At("Flush")
  /\ Egglog!Flush
  /\ IF Egglog!FlushFails THEN ReturnBroken
     ELSE /\ call' = [call EXCEPT !.at = "Apply", !.changes = Egglog!Delta]
          /\ UNCHANGED <<log, history>>
  /\ UNCHANGED <<parser, link, walk, program, schedule, intersection_stale, turn, update>>

\* `apply_delta`
Apply ==
  /\ At("Apply")
  /\ Index!UpdateEGraph(call.changes)
  /\ Goto(call.after)
  /\ UNCHANGED <<parser, walk, egraph, program, schedule, delta, turn, update,
                 log, history>>

\* After a materialization and its delta.
AfterWalk ==
  /\ At("Walked")
  /\ \E answer \in {Realizability} :
       IF answer # "unknown" \/ ~(call.moved \/ call.updated) THEN Return(answer)
       ELSE Goto("Turn") /\ UNCHANGED <<log, history>>
  /\ UNCHANGED <<parser, link, walk, egraph, program, schedule, delta, turn, update>>

\* `saturate_local`
BeginTurn ==
  /\ At("Turn")
  /\ Egglog!BeginTurn
  /\ Goto("Step")
  /\ UNCHANGED <<parser, link, walk, egraph, program, schedule, delta, update,
                 log, history>>

StepRule ==
  /\ At("Step")
  /\ Egglog!StepSomeRule \/ Egglog!SkipRule
  /\ UNCHANGED <<parser, link, walk, program, target_focus, focus, delta, update,
                 call, log, history>>

EndTurn ==
  /\ At("Step") /\ Egglog!EndTurn
  /\ turn' = Egglog!NoTurn
  /\ IF Egglog!Reflexive(egraph) /\ Egglog!TurnDelta # {} THEN ReturnBroken
     ELSE /\ call' = [call EXCEPT !.at = "Apply", !.after = "Turned",
                                  !.changes = Egglog!TurnDelta,
                                  !.updated = turn.updated \/ turn.deferred]
          /\ UNCHANGED <<log, history>>
  /\ UNCHANGED <<parser, link, walk, program, selected, taken, update>>

\* Its rules have made a class disjoint from itself.
TurnFails ==
  /\ At("Step") /\ turn.todo = {} /\ Egglog!TurnFails
  /\ turn' = Egglog!NoTurn
  /\ ReturnBroken
  /\ UNCHANGED <<parser, link, walk, egraph, program, schedule, delta, update>>

\* After a turn and its delta.
AfterTurn ==
  /\ At("Turned")
  /\ \E answer \in {Realizability} :
       IF answer # "unknown" \/ (call.changes = {} /\ ~call.updated)
         THEN Return(answer) /\ UNCHANGED walk
       ELSE IF call.changes # {}
         THEN /\ Walk!BeginWalk(<<>>)
              /\ call' = [call EXCEPT !.at = "Walk", !.moved = FALSE]
              /\ UNCHANGED <<log, history>>
       ELSE Goto("Turn") /\ UNCHANGED <<walk, log, history>>
  /\ UNCHANGED <<parser, link, egraph, program, schedule, delta, turn, update>>

----------------------------------------------------------------------------
(* `run_egglog`.                                                           *)

Update(commands) ==
  /\ Idle
  /\ updates < MaxUpdates /\ updates' = updates + 1
  /\ Egglog!BeginUpdate(commands)
  /\ call' = Begun("Update", "Commands")
  /\ UNCHANGED <<parser, link, walk, egraph, program, schedule, delta, turn, log,
                 verdict, broken>>

RunCommand ==
  /\ At("Commands")
  /\ Egglog!RunCommand
  /\ UNCHANGED <<parser, link, walk, program, schedule, delta, turn, call, log, history>>

EndUpdate ==
  /\ At("Commands") /\ Egglog!EndUpdate
  /\ IF Egglog!Reflexive(egraph) THEN ReturnBroken
     ELSE /\ call' = [call EXCEPT !.at = "Flush", !.after = "Updated"]
          /\ UNCHANGED <<log, history>>
  /\ UNCHANGED <<parser, link, walk, egraph, selected, taken, intersection_stale, turn>>

----------------------------------------------------------------------------
Progress ==
  \/ Parse \/ Parsed \/ Tell \/ Close \/ AnswerEarly
  \/ WalkOn \/ FixedDone \/ FocusDone \/ Flush \/ Apply \/ AfterWalk
  \/ BeginTurn \/ StepRule \/ EndTurn \/ TurnFails \/ AfterTurn
  \/ RunCommand \/ EndUpdate

\* Nothing is asked of the monitor.
Rest == Idle /\ UNCHANGED vars

Next == \/ \E t \in Tokens : Push(t)
        \/ \E commands \in grammar.updates : Update(commands)
        \/ Progress
        \/ Rest

Spec == Init /\ [][Next]_vars

\* Calls are synchronous: one that has begun is run on.  This is WF_vars(Progress)
\* wherever Progress is enabled exactly during a call, that is where no state is
\* a deadlock.
FairSpec == Spec /\ ([]<>Idle \/ []<><<TRUE>>_vars)
----------------------------------------------------------------------------
(* Properties.                                                             *)

Places == {"Idle", "Derive", "Told", "Linked", "Walk", "Walked", "Flush", "Apply", "Turn",
           "Step", "Turned", "Commands", "Updated"}

\* Work in progress belongs to the call in progress, facts and matches are about
\* what exists, and no rule gets more matches of a class than the cap allows.
TypeOK ==
  /\ call.at \in Places
  /\ walk # Walk!NoWalk => call.at = "Walk"
  /\ turn # Egglog!NoTurn => call.at = "Step"
  /\ update # Egglog!NoUpdate => call.at = "Commands"
  /\ \A f \in closure : f.fact = "Produces" => f.expression \in DOMAIN expressions
  /\ \A m \in taken : m[1] \in DOMAIN rules
  /\ \A key \in DOMAIN selected : selected[key] \in 1 .. MaxMatches

\* No answer rests on a fact that does not follow from the parser's maps and the
\* e-graph: not one of the deltas told, of the walks or of the half-told turns a
\* call goes through leaves a claim behind that was only true of an earlier graph.
AnswerDerived == Idle => Derived

Promise == INSTANCE MonitorContract WITH
  verdict <- verdict, broken <- broken, pushed <- call.kind = "Push"

\* The answers of a session follow each other as MonitorContract promises: a dead
\* prefix stays dead, and a witness outlives whatever rules and updates merge.
Contract == Promise!Spec

\* "Every returned `Some(false)` is sound" (docs/algorithm.md): once a prefix was
\* refused, no later call of the session answers that it is possible, whatever
\* tokens, updates and other answers come between, unless the program turns out
\* to be inconsistent.
RefusalFinal == [](verdict = "false" => [](verdict = "true" => broken))

\* The part of RefusalFinal that speaks of two answers in a row.
RefusalKept == [][verdict = "false" /\ ~broken' => verdict' # "true"]_vars
=============================================================================
