------------------------------- MODULE Backend -------------------------------
(***************************************************************************)
(* src/egglog_backend.rs: the user's program as rules, the focus that      *)
(* decides which matches are applied, and the delta the index is told.     *)
(*                                                                         *)
(* egglog computes matches, applies them and merges classes; which of two  *)
(* classes represents a merger is its own affair.  The scheduler is only   *)
(* asked about matches egglog has not applied before.                      *)
(*                                                                         *)
(* An atom f(x, y) = z is a record; a rule's body is a set of atoms, what  *)
(* it makes is a sequence of them in the order they are made.  A rewrite   *)
(* has its left and right side as atoms with the outermost first, the      *)
(* literals it mentions bound in `literals`, and the variable `result` for *)
(* what its left side is rewritten to.  Commands that are refused before   *)
(* they do anything are left out.                                          *)
(***************************************************************************)
EXTENDS Guarantees, SequencesExt

CONSTANTS
  MatchBatch,         \* MATCH_BATCH
  MaxMatches          \* MAX_MATCHES_PER_RULE_AND_CLASS

VARIABLES
  schema,
  egraph,             \* its `target` is the target when it was last looked up
  guarantees,
  rules,
  target_focus,       \* where each focus begins
  focus, selected,    \* ScheduleState
  taken,              \* external: the matches egglog has applied
  intersection_stale, \* growth the index may not know of
  pending,            \* changes for the next delta
  turn,               \* local state of one call of `saturate_local`
  update              \* local state of one `apply_monotone_update`

----------------------------------------------------------------------------
(* Rules.                                                                  *)

Atom(f, arguments, output) ==
  [constructor |-> f, arguments |-> arguments, output |-> output]

\* The constructor of the outermost atom, if there is one.
Anchor(atoms) == IF atoms = <<>> THEN {} ELSE {Head(atoms).constructor}

\* `compile_rewrite`: apply it where the left side is in focus, and complete it
\* where both sides exist and the right side is.
ForwardRule(w) ==
  [selector |-> "Lhs", root |-> Head(w.lhs).output, anchor |-> Anchor(w.lhs),
   literals |-> w.literals, body |-> Range(w.lhs) \cup w.conditions,
   make |-> Reverse(w.rhs), unions |-> {<<Head(w.lhs).output, w.result>>}]

BackwardRule(w) ==
  [selector |-> "Rhs", root |-> w.result, anchor |-> Anchor(w.rhs),
   literals |-> w.literals, body |-> Range(w.lhs) \cup w.conditions \cup Range(w.rhs),
   make |-> <<>>, unions |-> {<<Head(w.lhs).output, w.result>>}]

\* What stands below a variable of a left side; one that is bound there alone.
Under(w, v) == {x \in Range(Tail(w.lhs)) : x.output = v}
Plain(w, v) == Under(w, v) = {} /\ v \notin DOMAIN w.literals
Nullary(w, v) == \E x \in Under(w, v) : x.arguments = <<>>

\* Its left side fixes the output by constants alone.
Guarantees(w) ==
  LET arguments == Head(w.lhs).arguments IN
  /\ w.conditions = {}
  /\ w.rhs # <<>> /\ Head(w.rhs).arguments = <<>>
  /\ \A a \in DOMAIN arguments : Plain(w, arguments[a]) \/ Nullary(w, arguments[a])
  /\ \A a, b \in DOMAIN arguments :
       Plain(w, arguments[a]) /\ arguments[a] = arguments[b] => a = b

\* `rewrite_guarantee`: a list of one or none
Guarantee(w) ==
  IF Guarantees(w)
    THEN <<[constructor |-> Head(w.lhs).constructor, output |-> Head(w.rhs).constructor,
            arguments |-> [a \in DOMAIN Head(w.lhs).arguments |->
              LET v == Head(w.lhs).arguments[a] IN
              IF Plain(w, v) THEN AnyArgument
              ELSE (CHOOSE x \in Under(w, v) : TRUE).constructor]]>>
    ELSE <<>>

----------------------------------------------------------------------------
(* Matches: the bindings of a rule's variables to rows.                    *)

Agrees(binding, names, values) ==
  /\ \A i, j \in DOMAIN names : names[i] = names[j] => values[i] = values[j]
  /\ \A i \in DOMAIN names :
       names[i] \in DOMAIN binding => binding[names[i]] = values[i]

Bound(binding, names, values) ==
  binding @@ [n \in Range(names) |-> values[CHOOSE i \in DOMAIN names : names[i] = n]]

Joined(g, bindings, atom) ==
  LET names == Append(atom.arguments, atom.output) IN
  UNION {{Bound(binding, names, Append(r.children, r.output)) :
            r \in {x \in Applications(g, atom.constructor) :
                     Agrees(binding, names, Append(x.children, x.output))}} :
         binding \in bindings}

Matches(g, rule) ==
  FoldSet(LAMBDA atom, bindings : Joined(g, bindings, atom), {rule.literals}, rule.body)

Waiting(i) == {m \in Matches(egraph, rules[i]) : <<i, m>> \notin taken}

----------------------------------------------------------------------------
(* The effect of a match, or of an action of an update.                    *)

Values(binding, names) == [a \in DOMAIN names |-> binding[names[a]]]

Disjoined(g, u, v) ==
  [g EXCEPT !.rows = @ \cup {DisjointRow(Canonical(g, u), Canonical(g, v))}]

Making(state, atom) ==
  LET children == Values(state.binding, atom.arguments)
      g == IF atom.constructor = Disjoint
             THEN Disjoined(state.g, children[1], children[2])
             ELSE Added(state.g, atom.constructor, children,
                        schema.functions[atom.constructor].output)
      outputs == Outputs(g, atom.constructor, children)
  IN [g |-> g, binding |-> (atom.output :> CHOOSE v \in outputs : TRUE) @@ state.binding]

\* The rows an action makes, and what its variables stand for.
MadeRows(g, binding, make) ==
  FoldLeft(Making, [g |-> g, binding |-> binding], make)

\* The equalities to make after the rows; either side may survive.
Joins(binding, unions) == {{binding[pair[1]], binding[pair[2]]} : pair \in unions}

\* egglog equates classes only: a program that asks for more is ill-typed.
Merge(g, pair, kept) ==
  IF ~(pair \subseteq DOMAIN g.find) \/ \A u, v \in pair : Equivalent(g, u, v) THEN g
  ELSE Rebuilt(Equated(g, Canonical(g, kept),
                       CHOOSE v \in {Canonical(g, x) : x \in pair} :
                         v # Canonical(g, kept)))

\* Whether the older or the newer class survives, one choice for all at once.
Ages == {"Oldest", "Newest"}
Survivor(pair, age) ==
  CHOOSE v \in pair :
    \A u \in pair : IF age = "Oldest" THEN v.class <= u.class ELSE v.class >= u.class

Merged(g, joins, age) ==
  FoldSet(LAMBDA pair, h : Merge(h, pair, Survivor(pair, age)), g, joins)

\* One match of a rule: its rows at once, its equalities for later.
Fired(rule, m, state) ==
  LET next == MadeRows(state.g, m, rule.make)
  IN [g |-> next.g, joins |-> state.joins \cup Joins(next.binding, rule.unions)]

\* Several matches of one rule at once.
Applied(g, rule, matches, age) ==
  LET made == FoldSet(LAMBDA m, state : Fired(rule, m, state),
                      [g |-> g, joins |-> {}], matches)
  IN Merged(made.g, made.joins, age)

----------------------------------------------------------------------------
(* The focus.                                                              *)

ChildrenOf(g, values) ==
  UNION {Range(r.children) : r \in {x \in g.rows : x.output \in values}}

\* `close_focus_downward`
ClosedDownward(g, values) ==
  LET closed[n \in Nat] == IF n = 0 THEN values
                           ELSE closed[n - 1] \cup ChildrenOf(g, closed[n - 1])
  IN closed[Cardinality(g.rows)]

CanonicalSet(g, values) == {Canonical(g, v) : v \in values}

\* `begin_focus`
BeginFocus == focus' = target_focus

\* `saturate_near`; true if it adds anything.
Near(values) == CanonicalSet(egraph, values) \subseteq focus
SaturateNear(values) ==
  focus' = IF Near(values) THEN focus
           ELSE ClosedDownward(egraph, focus \cup CanonicalSet(egraph, values))

----------------------------------------------------------------------------
(* The delta.                                                              *)

AllMarks ==
  {[change |-> "Target"]}
    \cup {[change |-> "Constructor", constructor |-> c] : c \in DOMAIN schema.constructors}
    \cup {[change |-> "Terminal", terminal |-> t] : t \in DOMAIN schema.lexemes}

\* `validate_disjoint` finds a class that is disjoint from itself.
Reflexive(g) == \E r \in Applications(g, Disjoint) : r.children[1] = r.children[2]

\* `flush_changes`, up to its check: the target is found again by its name.
Flushed(g, marks) ==
  IF Canonical(g, g.target) = g.target THEN marks ELSE marks \cup {[change |-> "Target"]}
Renewed(g) == [g EXCEPT !.target = Canonical(g, @)]

FlushFails == Flushed(egraph, pending) # {} /\ Reflexive(egraph)

Flush ==
  /\ egraph' = Renewed(egraph)
  /\ pending' = IF FlushFails THEN Flushed(egraph, pending) ELSE {}
Delta == IF FlushFails THEN {} ELSE Flushed(egraph, pending)

----------------------------------------------------------------------------
(* `saturate_local`.                                                       *)

NoTurn == [todo |-> {}, focus |-> {}, updated |-> FALSE, deferred |-> FALSE]

BeginTurn ==
  turn' = [NoTurn EXCEPT !.todo = DOMAIN rules, !.focus = focus]

\* `function_output_touches_focus`, of the focus at the start of the turn
Touches(rule) ==
  rule.anchor = {} \/ \E r \in egraph.rows : /\ r.constructor \in rule.anchor
                                             /\ r.output \in turn.focus

\* `filter_matches`: relevant matches, at most a batch of them, and of those of
\* one class no more than the cap.
ClassOf(i, m) ==
  IF rules[i].selector = "Global" THEN NoValue ELSE m[rules[i].root]
Chosen(i, class) == IF <<i, class>> \in DOMAIN selected THEN selected[<<i, class>>] ELSE 0
InFocus(i, m) == rules[i].selector = "Global" \/ ClassOf(i, m) \in focus

Of(i, class, matches) == {m \in matches : ClassOf(i, m) = class}
WithinBatch(i, matches) == Cardinality(matches) <= MatchBatch   \* mutant: no cap
Within(i, matches) ==
  /\ IsFiniteSet(matches) /\ Cardinality(matches) <= MatchBatch
  /\ \A m \in matches :
       LET class == ClassOf(i, m)
       IN Chosen(i, class) + Cardinality(Of(i, class, matches)) <= MaxMatches

Relevant(i) == {m \in Waiting(i) : InFocus(i, m) /\ Within(i, {m})}

\* A full choice leaves out only what the batch or the cap has no room for.
Batches(i) ==
  {matches \in SUBSET Relevant(i) :
     /\ Within(i, matches)
     /\ \A m \in Relevant(i) \ matches : ~Within(i, matches \cup {m})}

\* mutant: matches of a class at its cap are waited for
DeferredCapped(i, matches) == {m \in Waiting(i) : InFocus(i, m)} \ matches # {}

\* Some match was left for want of room in the batch, not for its class.
Deferred(i, matches) ==
  \E m \in Relevant(i) \ matches :
    Chosen(i, ClassOf(i, m)) + Cardinality(Of(i, ClassOf(i, m), matches)) < MaxMatches

Counted(i, matches) ==
  LET classes == {<<i, ClassOf(i, m)>> : m \in matches}
  IN [key \in classes \cup DOMAIN selected |->
        IF key \in classes THEN Chosen(i, key[2]) + Cardinality(Of(i, key[2], matches))
        ELSE selected[key]]

AnyDeferredLast(i, matches) == Deferred(i, matches)   \* mutant: only the last rule's
AnyDeferred(i, matches) == turn.deferred \/ Deferred(i, matches)

\* One rule of the turn, with one batch.
StepRule(i, matches, g) ==
  /\ Touches(rules[i])
  /\ egraph' = g
  /\ taken' = taken \cup {<<i, m>> : m \in matches}
  /\ selected' = Counted(i, matches)
  /\ turn' = [turn EXCEPT !.todo = @ \ {i},
                          !.updated = @ \/ g # egraph,
                          !.deferred = AnyDeferred(i, matches)]

\* `step_focused_rules`: the rules come in the order of a hash map.
StepSomeRule ==
  \E i \in turn.todo : \E matches \in Batches(i) :
    \E age \in Ages : StepRule(i, matches, Applied(egraph, rules[i], matches, age))

SkipRule ==
  /\ \E i \in turn.todo : ~Touches(rules[i]) /\ turn' = [turn EXCEPT !.todo = @ \ {i}]
  /\ UNCHANGED <<egraph, taken, selected>>

\* `recanonicalize_focus` changes something.
Moved == CanonicalSet(egraph, focus) # focus

TurnFails == turn.updated /\ Reflexive(egraph)

\* mutant: growth outside the focus is forgotten
TurnMarksMoved == pending \cup IF turn.updated /\ Moved THEN AllMarks ELSE {}

\* What the delta of this turn must name before it is flushed.
TurnMarks ==
  pending \cup IF (turn.updated /\ Moved)
                  \/ (~turn.updated /\ ~turn.deferred /\ intersection_stale)
                 THEN AllMarks ELSE {}

\* The end of `saturate_local`, unless it fails.
EndTurn ==
  /\ turn.todo = {} /\ ~TurnFails
  /\ intersection_stale' = IF turn.updated THEN ~Moved
                           ELSE turn.deferred /\ intersection_stale
  /\ IF turn.updated
       THEN /\ focus' = ClosedDownward(egraph, CanonicalSet(egraph, focus))
            /\ target_focus' = CanonicalSet(egraph, target_focus)
       ELSE UNCHANGED <<focus, target_focus>>
  /\ egraph' = Renewed(egraph)
  /\ pending' = IF Reflexive(egraph) THEN Flushed(egraph, TurnMarks) ELSE {}
TurnDelta == Flushed(egraph, TurnMarks)

----------------------------------------------------------------------------
(* `apply_monotone_update`.                                                *)

NoUpdate == [commands |-> <<>>, rules |-> <<>>, guarantees |-> <<>>,
             relevant_union |-> FALSE, focus |-> {}]

Act(make, unions, literals) ==
  [command |-> "Act", make |-> make, unions |-> unions, literals |-> literals]
Rewrite(w) == [command |-> "Rewrite", rewrite |-> w]
Rule(rule) == [command |-> "Rule", rule |-> rule]
Failing == [command |-> "Failing"]      \* accepted, but fails when it is run

RulesOf(command) ==
  CASE command.command = "Rewrite" ->
         <<ForwardRule(command.rewrite), BackwardRule(command.rewrite)>>
    [] command.command = "Rule" -> <<command.rule>>
    [] OTHER -> <<>>

GuaranteesOf(command) ==
  IF command.command = "Rewrite" THEN Guarantee(command.rewrite) ELSE <<>>

AllRules(commands) ==
  FoldLeft(LAMBDA found, command : found \o RulesOf(command), <<>>, commands)
AllGuarantees(commands) ==
  FoldLeft(LAMBDA found, command : found \o GuaranteesOf(command), <<>>, commands)

\* Guarantees of constructors that no production makes are of no use.
Usable(plans) ==
  FoldLeft(LAMBDA usable, plan :
             IF plan.constructor \in DOMAIN schema.constructors THEN Append(usable, plan)
             ELSE usable, <<>>, plans)

\* The part of `initialize` that reads the program, all of whose facts are in
\* the e-graph already.
Initialized(commands) ==
  /\ rules = AllRules(commands)
  /\ guarantees = Usable(AllGuarantees(commands))
  /\ target_focus = ClosedDownward(egraph, {egraph.target})
  /\ focus = target_focus
  /\ selected = <<>> /\ taken = {} /\ pending = {}
  /\ intersection_stale = FALSE
  /\ turn = NoTurn /\ update = NoUpdate

BeginUpdate(commands) ==
  update' = [NoUpdate EXCEPT !.commands = commands, !.focus = focus]

\* `union_touches_focus`, of the focus before the first command
TouchesFocus(made, unions) ==
  \E pair \in Joins(made.binding, unions) :
    LET classes == CanonicalSet(made.g, pair)
    IN Cardinality(classes) = 2 /\ classes \cap update.focus # {}

RunAction(made, unions, age) ==
  /\ egraph' = Merged(made.g, Joins(made.binding, unions), age)
  /\ update' = [update EXCEPT !.commands = Tail(@),
                              !.relevant_union = @ \/ TouchesFocus(made, unions)]

\* One command of `run_commands`; the first that fails is the last.
RunCommand ==
  LET command == Head(update.commands) IN
  /\ update.commands # <<>>
  /\ \/ /\ command.command = "Act"
        /\ \E made \in {MadeRows(egraph, command.literals, command.make)}, age \in Ages :
             RunAction(made, command.unions, age)
     \/ /\ command.command \in {"Rewrite", "Rule"}
        /\ update' = [update EXCEPT !.commands = Tail(@),
                                    !.rules = @ \o RulesOf(command),
                                    !.guarantees = @ \o GuaranteesOf(command)]
        /\ UNCHANGED egraph
     \/ /\ command.command = "Failing"
        /\ update' = [update EXCEPT !.commands = <<>>]
        /\ UNCHANGED egraph

\* The rest of `apply_monotone_update`, whether all commands were run or not.
EndUpdate ==
  LET rebuilt == ClosedDownward(egraph, {Canonical(egraph, egraph.target)})
      relevant == Moved \/ update.relevant_union
  IN /\ update.commands = <<>>
     /\ rules' = rules \o update.rules
     /\ guarantees' = guarantees \o Usable(update.guarantees)
     /\ focus' = IF relevant THEN rebuilt ELSE CanonicalSet(egraph, focus)
     /\ target_focus' = IF relevant THEN rebuilt ELSE CanonicalSet(egraph, target_focus)
     /\ pending' = pending \cup (IF relevant THEN AllMarks ELSE {})
     /\ update' = NoUpdate
=============================================================================
