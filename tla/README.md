# Verification of snipsnip

snipsnip answers one question while text is typed: can this prefix of a program
still be completed to one whose meaning is a given value of an egglog program?
This directory holds TLA+ models of its parts, the TLC runs that check them on
small instances, and TLAPS proofs that hold for every instance. Source paths
below are relative to the repository.

## 1. The system

| part | source | state it keeps | operations |
|---|---|---|---|
| PwZ engine | `src/paper_pwz.rs` | maps of expressions, memos and contexts; zippers; change log; position; three ID counters | `new`, `derive`, `zippers` |
| graph compiler | `src/pwz_grammar.rs` | none | `compile`, SELECT sets, `semantics` |
| realizability index | `src/realizability.rs` | indexes of the memo graph by expression, memo, context and e-class; the facts `produces`, `realizable_for`, `realizable`; an agenda | `update_pwz`, `update_egraph`, `is_realizable`, `is_unrealizable`, `materialize_fixed`, `materialize_focus`; the completion cover behind `is_unrealizable` |
| egglog backend | `src/egglog_backend.rs` | the e-graph (external crate), rules and guarantees of the user's program, target focus, focus of the current call, matches chosen per rule and class, changes still to be reported, whether growth outside the focus is unreported | `exact_tokens`, `begin_focus`, `saturate_local`, `saturate_near`, `flush_changes`, `add_application`, `apply_monotone_update`, `guaranteed_outputs` |
| monitor | `src/monitor.rs` | one of each of the above | `push_lexeme`, `push_complete_text`, `run_egglog`, `realizability` |
| grammar, lexer | `src/grammar.rs` | immutable | `build`, `lex_prefix`, `lexeme_matches`, `complete_lexeme_terminals` |
| analyzer | `web/src/lib.rs` | program, cached session (monitor and token trace), `has_analyzed` | `new`, `analyze`, `reset`, `set_program` |
| worker | `web/site/analyzer-worker.js` | promise queue, analyzer, configured program | `initialize`, `handleMessage` |
| page | `web/site/app.js` | two editors, edit version, debounce timer, open requests, token strip, status | `queueAnalysis`, `submitAnalysis`, `handleWorkerMessage`, token click |

How they interact. The page posts requests to the worker; the worker owns one
analyzer; the analyzer owns a session with one monitor. The monitor calls
`Pwz::derive` for each token, hands the returned *changes* to the realizability
index (which reads the parser's maps but never copies them), lets the index
materialize terms in the backend, and passes the backend's *delta* back to the
index. Everything from the analyzer down is single-threaded. Asynchrony exists
only between page and worker.

What is hard here, and untested or nearly so:

* A derivative updates a cyclic graph in place, driven by a stack of work items.
  Whether a memo is entered, has completed, or belongs to an earlier position is
  read from fields that other items of the same stack are about to write.
* The three consumers of the graph are told of its growth by deltas only. A
  missing or doubled delta goes unnoticed until a wrong answer much later.
* The closure, the scheduler and the cover search all stop early on purpose.
  An early stop must be told apart from saturation.
* Errors half-way: an egglog update that fails at its third command, an
  analysis that fails at its fifth token.
* The page can be edited at any moment between a request and its response.

What makes each part correct:

* engine: the zippers hold exactly the readings of the prefix; one result per
  span; published structure is frozen; the change log is exact; a derivative
  terminates; no lookup can fail.
* compiler: SELECT sets are exact; precisely the productions with a sentence
  are kept.
* index: facts are the least fixpoint of the linking rules, whatever the
  agenda's order; `Some(false)` only when every completion is ruled out.
* backend: every rule match in focus is applied before saturation is reported,
  or is beyond the cap of its class; the delta covers every change of the
  e-graph that an answer rests on.
* monitor: after an error, index and e-graph agree; a refusal is final and a
  witness outlives every update; every call returns.
* lexer: maximal munch, the first rule winning; a token is confirmed only if no
  continuation can change it, and held back only if one can.
* analyzer, worker, page: each answer is the one a fresh analyzer would give for
  that request; what is shown belongs to the text in the editors.

## 2. The modules

| module | what it is |
|---|---|
| `PwzData` | the data types of the engine: symbols, nodes, contexts, memos, changes, work items |
| `Pwz` | the engine as a state machine, with its properties and inductive invariant |
| `PwzGrammar` | the graph compiler and SELECT sets as operators |
| `PwzReference` | a reference semantics of prefixes by splitting the input; shares nothing with the engine but the data types |
| `MCPwz`, `MCPwzFamily` | instances for TLC |
| `PwzProofs`, `PwzSharingProofs` | the TLAPS proofs about `Pwz` |
| `Lexer`, `MCLexer` | maximal munch over any automata, confirmed and pending text, integers, productive terminals; instances for TLC with a reference that matches each rule on its own |
| `EGraph` | the e-graph as the backend reads and grows it: rows, classes, equalities, congruence |
| `Guarantees` | what the backend reads off the e-graph to refuse a prefix: `Disjoint` and rewrites that fix a value despite missing arguments |
| `Realizability` | the indexes, facts and agenda of the realizability engine |
| `CompletionCover` | the values of all completions of a prefix, or none known |
| `Materialization` | the walk that puts the fixed part of a prefix into the e-graph and finds what is relevant |
| `Backend` | rules, focus, scheduler, delta and updates |
| `Entailment` | what the index is to know: the least set of facts closed under the linking rules, which ask for no index, agenda or order |
| `Wiring` | what every arrangement of parser, index and e-graph has in common: their variables, what the grammar and schema compilers check, what the index owes |
| `Linking` | parser, index and an e-graph that grows at will, composed |
| `RealizabilityReference` | when a prefix has a witness, by intersecting the grammar with an automaton; shares the e-graph's rows with the engine and nothing else |
| `MCLinking` | instances for TLC |
| `Monitor` | parser, index, walk, cover and backend, composed under the monitor's own schedule |
| `MonitorContract` | the abstract specification: how the answers of a session may follow each other |
| `MCMonitor` | sessions for TLC, with the properties that speak of what a session of TLC holds |
| `FoldLemmas` | induction over folds and over loops, for any step: what the proofs know of a fold of the community modules |
| `WiringProofs`, `LinkingProofs`, `MonitorProofs` | the TLAPS proofs about the e-graph and the index under any steps, and about `Linking` and `Monitor` |
| `Analyzer` | the session cache of the analyzer as operators: one call of `analyze`, and what a fresh analyzer would answer |
| `AnalyzerContract` | the abstract specification: an analyzer that keeps nothing but its program |
| `AnalyzerCalls` | the analyzer under any sequence of calls; implements `AnalyzerContract` |
| `WebDemo` | page, two channels, and worker with its analyzer, composed |
| `MCAnalyzer`, `MCWebDemo` | instances for TLC |
| `AnalyzerProofs`, `WebProofs` | the TLAPS proofs about the analyzer, and about page and worker |

### Pwz and the code

Each arm of each function of the engine is one action, because between two work
items the graph is half updated, and the properties must hold there too.

| action | code |
|---|---|
| `Init` | `new`: the asserts on the grammar (`WellFormed`), the two memos and two contexts of the initial zipper, no zipper when the root has no completion |
| `Derive(t)`, `EndDerive` | the two ends of `derive`: one `Up` per zipper; publish zippers, position and log |
| `DownShared`, `DownEntered` | `down`: an expression entered at this position is shared (and, if completed here, delivers at once); otherwise it gets a fresh memo |
| `FreshTok`, `FreshEmptySeq`, `FreshSeq`, `FreshAlt` | `down_fresh`, by node |
| `Up` | `up` |
| `UpTop`, `UpLast`, `UpNext`, `UpPacked`, `UpFirst` | `up_context`, by context; `UpPacked` is `append_alternative_child` |

The variables have the names of the fields of `Pwz`, plus `operations`, `next`
and `token`, the locals of `derive`. `input` (tokens so far) and `published`
(the counters when the last call returned) are history. A `Vec` used as a stack
is a sequence with its top at the head; pushing children in reverse order in the
code is pushing them in order here. A token's payload is opaque, as in the code.
HashMaps are functions on natural numbers. `IdLimit` stands for `u32::MAX`; the
actions that allocate are disabled there, where the code panics, and no run
comes near it.

`PwzGrammar` replaces each "sweep until nothing changes" loop by the iterates of
its sweep, a recursive function on the number of rounds (bounded by the number
of facts). Bit sets are sets, except the SELECT rows, which are packed into
words of `WordBits` bits (64 in the code) and read back from them: which word a
terminal is in is where an error could hide. `g.lexemes` is the result of
`complete_lexeme_terminals`, which is in `Lexer` and a parameter here.

### The lexer

`Lexer` is a module of operators with one action. The automata are an external
crate's; the model takes any, given by three tables (`next`, `late`, `end`) that
say where a byte leads and whether a match is seen to have ended *before* that
byte, which is how the crate reports matches and where look-around comes in.

| operator or action | code |
|---|---|
| `RuleResult` | `rule_result`: follow one rule until a remembered state, the end of the text, or death; long paths are remembered by position and state (`Retained`, `Recorded`) |
| `CanMatchLonger`, `MatchIsStable` | `dfa_can_match_longer`, `dfa_match_is_stable` |
| `BetterMatch`, `Unresolved` | `better_match`, the two tests of `lex_prefix_with_machine` |
| `Lex`, `LexPrefix`, `LexemeMatches` | `scan_with_machine`, `lex_prefix_with_machine`, `lexeme_matches` |
| `IntegerLexemeMatches`, `IntegerSpellingMatches` | `i64_lexeme_matches` and the cycle search over leading zeroes |
| `CompleteLexemeTerminals` | `compute_complete_lexeme_terminals` |
| `Type(b)` | one more byte of a text being typed, and `lex_prefix` of it |

`LongPath` is the length from which paths are remembered (256 in the code, 2 in
the runs). Positions are in bytes. Quit states and the fallback for
Unicode word boundaries are left out, as `lex_prefix` refuses such rules.

### The realizability index

`Realizability` owns `indexes`, `closure` and `agenda`; the parser's maps and
the e-graph are variables it reads, as the code does. The three relations of
`Closure` are one set of facts. An adjacency list or a `Vec` of consumers is a
set of pairs. The agenda is a stack as in the code, but what one operation
inserts is one layer of it, whose members may be taken in any order: the order
within a layer is that of hash maps and of edge lists. What one event inserts is
computed from the facts before it, where the code sees its own earlier
insertions of the same turn; those are events themselves and make up for it.

| operator or action | code |
|---|---|
| `UpdatePwz(log)` | `update_pwz` up to its `close`, with `index_expression`, `index_alternative_child`, `index_sequence`, `index_context`, `index_context_action`, `index_parent` (`Indexed`, `FirstFacts`); also `new`, given the whole graph as a log |
| `UpdateEGraph(delta)` | `update_egraph` up to its `close`, with `add_target`, `recheck_consumer` |
| `Close` | one turn of `close` |
| `RecheckExpression`, `RecheckContext` | the functions of that name |
| `PropagateValue` | `propagate_sequence_value`, and the `Alternative` arm of `close` |
| `PropagateDemand`, `HoleFact` | `propagate_context_demand`, `propagate_project_context_demand`, `propagate_construct_context` |
| `PropagateContextValue` | `propagate_context_value` |
| `MaterializeExpression(e)` | `materialize_expression` |
| `IsRealizable` | `is_realizable` |

Positions count from 1, sorts and constructors are numbers. A value is a sort
and a class; a primitive value equals only itself. `schema` holds the actions of
the productions, the signatures of the constructors, and for each terminal the
primitive values it can spell.

`Wiring` holds the parts that the monitor wires together, and `Linking` runs them
without its schedule: `Derive`,
`Parse`, `Parsed` (the derivative), `Tell` (`update_pwz`), `Close`,
`Materialize`, `Grow` and `Report` (`apply_delta`). `Grow` stands for the whole
egglog side: any application of known values, or any equality of two classes of
one sort with its congruence, may be added whenever no call is in progress, and
so may anything the code adds for contexts and for guaranteed outputs. The index
hears of it in `Report`, now or much later. `Marked` is the least delta that
tells of a step: the constructors whose rows changed, the target if it did. The
backend marks at least that much when it marks at all; when it does not is a
matter of the monitor's schedule, below.

### Cover, walk and backend

`CompletionCover` answers `is_unrealizable` for the state it is asked in. A cover
is a set of values, or `NoCover` for `None`. The search threads the cache of
finished expressions and the set of those being visited, because what is cached
inside a cycle depends on the order in which it was entered. Search and postorder
are recursive functions, from an expression or a stack and what has been seen to
what is found, rather than recursive operators, so that modules with proofs can
use them.

| operator | code |
|---|---|
| `Search`, `SequenceCover`, `AlternativeCover` | `expression_outputs` |
| `ConstructorCover` | `constructor_cover`, with `MAX_DISJOINT_COMBINATIONS` |
| `ContextOutputs`, `Cross`, `Walked`, `AllOutputs` | `context_outputs`, `all_outputs` |
| `IsUnrealizable` | `is_unrealizable` |
| `Matching`, `GuaranteedOutputs`, `Separated` | `guaranteed_outputs`, `guarantee_matches`, `disjoint` |

`Materialization` owns `walk`, the local state of `materialize_fixed` and
`materialize_focus`: its agenda of sites, what it has seen, materialized and
found relevant, and the `steps` that are left of the loops over expressions and
contexts. It is a state machine because the index is closed after every
expression, and the e-graph the next step reads has grown by then.

| action | code |
|---|---|
| `BeginWalk`, `BeginFocusWalk` | the starts of the two functions, with `fixed_postorder` |
| `EnterSite` | take a site of the agenda, unless seen |
| `TakeExpression` | `materialize_expression` |
| `TakeContext` | one parent: top, alternative, or sequence, whose fixed children come first |
| `CrossContext` | `materialize_context`, with `materialize_guaranteed_output` |

In `Backend`, egglog itself is external: a match is a binding of a rule's
variables to rows, applying one adds the rows it makes and merges the classes it
equates (never two values that are no classes), and which class survives a
merger is open (`Ages`). egglog offers the scheduler each match once (`taken`).
Rules come in the order of a hash map, so any order is taken; out of the matches
in focus any batch is that has no room for another.

| operator or action | code |
|---|---|
| `ForwardRule`, `BackwardRule`, `Guarantee` | `compile_rewrite`, `rewrite_guarantee` |
| `Initialized` | the end of the backend's construction |
| `BeginFocus`, `SaturateNear`, `ClosedDownward` | `begin_focus`, `saturate_near`, `close_focus_downward` |
| `BeginTurn`, `StepSomeRule`, `SkipRule`, `EndTurn`, `TurnFails` | `saturate_local` with `step_focused_rules`, one rule at a time, and `recanonicalize_focus` |
| `Relevant`, `Batches`, `Deferred`, `Counted` | `filter_matches`, with `MATCH_BATCH` and `MAX_MATCHES_PER_RULE_AND_CLASS` |
| `Flush`, `TurnMarks`, `Delta` | `flush_changes`, `mark_all`, `validate_disjoint` |
| `BeginUpdate`, `RunCommand`, `EndUpdate` | `apply_monotone_update`: commands run one by one, the first that fails is the last, and the end is the same either way |

### Monitor and the code

`Monitor` composes the engine, the index with its walk, the cover and the backend
as `monitor.rs` does. `call` says which call is in progress (`New`, `Push`,
`Update`) and where it stands; every place at which control passes from one part
to another is a value of `call.at`, and the error returns leave from there.

| action | code |
|---|---|
| `Init` | `new`, from where the backend is initialized |
| `Push(t)`, `Parse`, `Parsed` | `push_lexeme` up to the end of `derive` |
| `Tell` | `update_pwz`; `new` hands over the whole graph |
| `Close` | one turn of the loop of `close`, in one fixed order: `linking` takes them all |
| `AnswerEarly` | the answers of `push_lexeme`, `new` and `run_egglog` before `synchronize`, or its start |
| `WalkOn`, `FixedDone`, `FocusDone` | `materialize`: the two walks, each followed by `saturate_near` |
| `Flush`, `Apply` | `flush_changes`, `apply_delta` |
| `AfterWalk`, `AfterTurn` | the two tests in the loop of `synchronize` |
| `BeginTurn`, `StepRule`, `EndTurn`, `TurnFails` | `saturate_local` |
| `Update(commands)`, `RunCommand`, `EndUpdate` | `run_egglog`, with `finish_egraph_update` |
| `ReturnBroken` | the error of `validate_disjoint`, wherever it is found |
| `Rest` | nothing is asked |

`Realizability` is `realizability`: `"dead"` is `Some(false)` for want of a
zipper, `"true"`, `"false"` and `"unknown"` are `Some(true)`, `Some(false)` and
`None`. `verdict` (the last answer), `broken` (some call has failed because a
class is disjoint from itself) and `updates` (a bound) are history. That what
`Disjoint` and the rules say is true is the business of the program's author, as
the docs have it; `broken` is where it is known to be false.

A session of `MCMonitor` is a grammar with actions, an e-graph and a program to
start with, and the updates that may be run. `ProgramsWellTyped` says what
egglog checks of program and updates before it accepts them. `push_token` and
`push_complete_text` only call `push_lexeme`; calls refused at once change
nothing and are left out.

### The analyzer

`Analyzer` has no variables, because two modules use it: `AnalyzerCalls`, where
anybody calls, and `WebDemo`, where the worker does. `Analyze` is the whole of
`analyze`: lexing (fails before the session is taken), reuse or a new monitor,
the spans moved, the pushes (a failing one drops the session), the report.
Lexer and monitor are parameters: `Lexed` gives what `lex_prefix` finds in a
source, `Refused` which pushes fail, and a verdict is the pair of program and
lexemes a monitor was given, since a monitor is deterministic in them. So two
verdicts are equal in the model only if they are computed from the same inputs.
Left out: pending text, the start of spans and the conversion to UTF-16, timing,
and JSON.

| action of `AnalyzerCalls` | code |
|---|---|
| `Init` | `new` |
| `AnalyzeCall(source)` | `analyze` |
| `SetProgram(p)` | `set_program` |
| `Reset` | `reset` |

### Page and worker

A handler of either side is an action, because JavaScript runs it to its end;
the worker chains its requests on one promise, so that the next starts only when
the one before has been answered. The state of the
page is that of `app.js`, and `requests` is its map of open requests.

| action of `WebDemo` | code |
|---|---|
| `EditProgram`, `EditText` | typing, samples, reset button, and `queueAnalysis` |
| `ClickToken(k)` | the click on a token |
| `Submit`, `SubmitTooEarly`, `SubmitAfterFailure` | the timer of `queueAnalysis`, `submitAnalysis`, `pruneOldRequests` |
| `HandleReady`, `HandleEngineError`, `HandleResponse` | `handleWorkerMessage` |
| `InitializeReady`, `InitializeFails` | `initialize` |
| `HandleMessage` | `handleMessage` with `configureAnalyzer` and `analyze` |
| `Escape` | the `catch` of the queue: it is reached after none, one or both of the steps of `handleMessage`, so each worker state they go through may be left |

`posted` (what every request asked, and for which edit version) is history. A timer may fire at any time
after it was set, which covers every delay.

## 3. The runs

| run | instance | shows |
|---|---|---|
| `pwz` | eleven grammars (plain, shared memo, left and right recursion, ambiguity, nullable children, cycles, cycles that vanish, dead branches, no sentence, an unspellable terminal), each with and without SELECT sets; all inputs of up to 4 tokens over 2 terminals | all properties of `Pwz`, at every work item |
| `pwz_family` | all sets of up to 3 productions, one at least of the start symbol, over 2 nonterminals and 2 terminals, right-hand sides up to 2 symbols, with and without an unspellable terminal; SELECT words of one bit; inputs up to 2 tokens | a zipper is left exactly when some sentence begins with the prefix; SELECT sets equal what symbol-by-symbol derivation predicts; the graph keeps exactly the useful productions |
| `lexer` | pairs of rules whose automata have two places, with and without look-ahead; triples of longer words and repetitions; pairs of rules for integers | lexing, confirmation, productive terminals and integers against definitions that match each rule on its own |
| `linking` | five grammars with actions (left recursion under a constructor, ambiguity, children that are ignored, a cycle in grammar and e-graph, nullable children); inputs up to 3 tokens out of two lexemes and a keyword; one row or equality more at any moment; any number of materializations up to 3 classes | the index finds a witness exactly when there is one, in every order of its agenda |
| `monitor` | eight sessions (below), inputs up to 2 or 3 tokens, two updates, batches of one match, two matches per rule and class | the answers between calls are right, follow each other as promised, and every call returns |
| `analyzer` | two valid programs and an invalid one; all texts of up to three of five pieces (two lexemes, a blank, a piece that does not lex, a lexeme that may still grow); one program that refuses a repeated lexeme | types, the session in step with its trace, and the implementation of the contract |
| `web` | four edits and clicks; the engine may fail to load, exceptions may escape | what is shown is true, each message answers its own request, every edit is answered in the end |
| `web_click`, `web_escape`, `lexer_inside`, `monitor_unnoticed`, `monitor_cyclic` | small instances of the same modules | five disagreements, see below |

Properties of `pwz` and `pwz_family`:

* `LivePrefixForest` is the specification of the engine: climbing from the
  zippers through memos and contexts gives exactly the open productions, with
  the packed trees of their finished children, that `PwzReference` finds.
* `ChangesComplete`, `ChangesOnce`: the log is exactly the growth.
* `OneResultPerSpan`, `PublishedFrozen`: action properties on results and on
  structure the caller has seen.
* `PackedResults`: the three `expect`/`panic!` of the result protocol are dead.
* `FrontierBounded`: the frontier does not grow with ambiguity.
* `DeriveReturns`: each call terminates.
* `ViablePrefix`, `SelectExact`, `GraphFaithful`: compiler and engine together
  lose no prefix and keep no dead one. With words of one bit every terminal but
  the first lies beyond the first word of its row.

Properties of the lexer:

* `LexExact`: the remembered paths change nothing.
* `ConfirmedFinal`, `ConfirmedStays`: what `lex_prefix` confirms is what the
  whole text will have there, whatever follows, and it is never taken back. The
  automata of this run do not look at what follows and then fail inside a word;
  those that do are the subject of `lexer_inside`.
* `PendingHasCause`: a token is held back only if some continuation changes it.
* `ProductiveExact`: a terminal is productive exactly if it has a lexeme of its
  own, which an earlier rule may deny it.
* `IntegersExact`: the search over leading zeroes, which stops at a repeated
  vector of automaton states, misses no spelling.

Properties of the index:

* `WitnessReal` and `WitnessFound` are its specification. The consumed tokens
  and everything that may follow them form an automaton; intersecting it with
  the grammar, and giving each parse the values the e-graph's rows have for it,
  tells whether some completion has the target as its value. `IsRealizable` must
  never say so falsely, in no state whatever (not while half closed, nor before
  a merge has been reported), and must say so once everything is reported and
  closed.
* `FactsDerived` and `FactsFound` say the same of every single fact, against
  `Entailment`: what follows from the parser's maps and the e-graph as they are,
  by rules that are applied to all facts at once until nothing is added. Nothing
  else is ever claimed, and nothing is missing once all is told and closed, but
  the demand for a value at a site that any value suits. Values are read as the
  classes they belong to by now; the facts themselves keep the IDs they were
  found with.
* `AnswerKept`: a witness stays one while only the e-graph changes, which is why
  the monitor may stop at the first.

Properties of the monitor:

* `WitnessNoticed`: between calls the answer is `Some(true)` exactly if the
  e-graph, as the rules and updates have left it, holds a witness. `linking`
  assumes that all growth is reported; here the backend decides what to mark,
  and growth outside the focus is marked only once the rules have run out. The
  condition `TargetFocusClosed` is what the code does not ensure, see
  `monitor_unnoticed`.
* `FocusSaturated`: `None` is answered only when no match in focus is left but
  those beyond the cap: a batch that was full is never forgotten.
* `AnswerDerived`: between calls every fact of the index follows from the
  parser's maps and the e-graph, though walks, rules, half-applied updates and
  deltas told late have worked on both.
* `Contract`: the monitor implements `MonitorContract`. A dead prefix stays
  dead; a witness outlives updates, also those that fail; only a token can make
  a prefix dead.
* `RefusalFinal`: after `Some(false)` no later call of the session answers
  `Some(true)`, whatever tokens, updates and other answers come between, unless
  the program turned out to be inconsistent. It is apart
  from the contract because it does not hold of every grammar, see
  `monitor_cyclic`.
* `CallReturns`: `synchronize` ends, although each turn may make new matches and
  each delta sends it back to the walk. That every state has a step is checked
  with it.

The sessions: `wrap` (a rewrite makes the target; updates that merge, fail half
way, or add a rewrite), `late` (syntax before the semantic child; a rule that
extends the target), `branches` and `ambiguous` (a refusal that must wait for a
branch nothing is known of, which one update makes known and another possible), `error` (guarantees, a literal in a rule, a
`Disjoint` made by a rule), `commute` (more matches than batch and cap have room
for), `clash` (rules and updates that make a class disjoint from itself), `loop`
(a cyclic grammar and a cyclic e-graph).

Properties of the web part:

* `Transparent` is the specification of the analyzer: it implements the one
  without a cache. `SessionInStep` is why.
* `StatusHonest` relates what the page shows to its requests and to what is in
  its editors *now*, across debouncing, queueing, overtaking edits, a changed
  program and failures; `AnswersOwn` is the part of it that the worker owes. What
  is shown is always the whole answer to the latest request, also when it arrives
  after news of a failed engine and replaces it. That request asked for what the
  editors hold, with one exception, which the property names: the engine has
  failed and an edit was made after the request. The exception is real, TLC finds
  it in eleven states when the property is stated without. Of two queued requests
  the first escapes and the second is answered. The page notes the failure, then
  shows the answer over it, as its test of a response does not ask whether the
  engine has failed; the next edit leaves `queueAnalysis` before it touches the
  badge, and the answer to the older text stays there.
* `Settles`: no edit is forgotten, neither one made before the worker is ready
  nor one whose request is pruned while it is being answered.

Disagreements with what the repository says of itself, each shown by a run that
must end in a counterexample:

* `web_click` (`TokenClickExact`): the hints of the page promise that a click on
  a token returns to "that exact prefix". The click cuts the text now in the
  editor at an offset of the text that was analyzed; after an edit whose answer
  has not arrived the two differ.
* `web_escape` (`UsableAfterEscape`): the worker means to keep its queue usable
  after an escaped exception, but reports it as an engine failure, after which
  the page posts no request again.
* `lexer_inside` (`ConfirmedStays`): `src/grammar.rs` says of its test for
  pending text that it "cannot send an unfinished token to the parser". It asks
  whether a longer match is possible and whether the winner is stable, but not
  whether another rule can come to match the *same* text. With `a(?-u:\B)` before
  `a`, the text `a` is confirmed as the second rule's, and followed by another
  `a` it is the first rule's.
* `monitor_unnoticed` (`WitnessAlwaysNoticed`): `docs/algorithm.md` calls
  `Some(true)` equivalent to a member of the prefix space in the target class. The
  target's focus is closed downward when it is built, and not when a rule later
  gives the target a new constructor: the next derivative starts from the old
  one. After `Good -> Wrap(Other)`, an update that makes `Bad` equal to `Other`
  touches no class in focus, nothing is marked, and the answer stays `None`
  although the e-graph holds a witness.
* `monitor_cyclic` (`RefusalKept`, the part of `RefusalFinal` about two answers
  in a row): `docs/algorithm.md` calls every `Some(false)` sound, and the cover
  of a recursive expression that cannot be closed `None`. A *fixed* expression
  is covered by the values found so far, though it may be cyclic and have deeper
  trees. `Some(false)` is answered, a consistent update makes one of these equal
  to the target, and `Some(true)` follows.

Bounds. Four tokens let every grammar of the catalogue go through its cycle
twice (a second position is needed for stale memos, a third for a memo that is
shared after having completed earlier). `IdLimit` 200 is not reached even with
five tokens. The forest comparison cuts trees at nesting 3 and open productions
at nesting 4: cyclic grammars have infinitely many trees, and the cut is the
same on both sides. `FormLength` 4 bounds sentential forms of the reference in
`pwz_family`; with right-hand sides of at most 2 symbols, longer forms show no
new pair of neighbours.

For the lexer, texts of 3 bytes for pairs and 5 for triples: automata of two
places repeat after two bytes, and 5 bytes let a path of `LongPath` 2 (256 in
the code) be remembered, joined by a later offset, and left again. Continuations
go half as far again. `MaxZeroes` 9 is beyond where the states of two rules with
cycles of 2 and 3 places, reached over a tail of 2, have all been seen.

In `linking`, three tokens make `pair` ambiguous and let `ignored` enter a
context below a site that has become realizable earlier. One step of growth is
one merge or row too many or too late; the e-graphs start with the rows for one
witness, so that it can be completed, destroyed by nothing, or made anew. A
longer chain of such steps reaches the index as one delta, or as several with
closed facts in between, each of which the one step already is. `MaxClasses` 3
leaves room for one class more than the e-graphs start with in most grammars.

In `monitor`, a batch of 1 and a cap of 2 stand for 64 and 4,096, so that a match
is deferred for want of room and others fall beyond the cap. Two updates are
needed for one that leaves a half-applied state and one that builds on it.
`MaxCombinations` 8 (4,096 in the code) is not reached. All rules of the
sessions have finitely many classes to make; `docs/algorithm.md` says that the
caps do not stop a rule that keeps creating fresh focused classes, and of such
programs `CallReturns` claims nothing. The agenda of the index is taken in one
order here, because `linking` takes all.

Texts of three pieces give the analyzer a session with a token to reuse, one to
reuse with a moved span, and one to push; the calls themselves are not bounded.
On the page, `MaxEdits` bounds the user: a first edit is analyzed, a second
races with its answer, a third with both, and the fourth lets the program change
in between. `Window` is 1 in place of 8, so that pruning happens within these
bounds.

Fairness. `FairSpec` of `Pwz` adds weak fairness of `Step \/ EndDerive`: the
loop of `derive` is ordinary sequential code that runs until its stack is empty.
Nothing is assumed of the caller. `FairSpec` of `Monitor` says that a call in
progress is run on, for the same reason; it is weak fairness of `Progress`
written without `ENABLED`, with which TLC would recompute every step, and it
equals that because some step of `Progress` is possible at every place of a call
(no state deadlocks, which the run checks). `FairSpec` of `WebDemo` adds weak
fairness of the page's handlers and of the worker's: a timer that is set fires,
a posted message arrives, a handler returns. The worker's is stated of taking a
request off its queue, which every way of handling it does. Nothing is assumed
of the user, nor of loading the WebAssembly module. `Linking`, `Lexer` and
`AnalyzerCalls` need none.

Deadlock is checked in `analyzer` and `monitor`. In the others checking is off
because the model stops after the last allowed token, byte or edit.

## 4. The proofs

### The engine

`PwzProofs` proves, for every set of grammars, tokens and both bounds:

* `TypeCorrect`: `Spec => []TypeOK`. No ID in a map, in the work list, in the
  log or in a zipper dangles.
* `ResultsPacked`: `Spec => []PackedResults`.
* `ResultsStable`: `Spec => OneResultPerSpan`.
* `PublishedStable`: `Spec => PublishedFrozen`.

Assumed: `TokensAssumption` (a terminal is a natural number) and
`BoundsAssumption` (the two bounds are naturals). `WellFormed` is not assumed of
`Grammars`: `Init` filters by it, as `new` asserts it.

`TypeOK /\ PackedResults` is not inductive. That a completed packer is never
completed twice depends on *when* a work item can exist. `Inductive` adds:

* `Stamped`: stamps lie in the past; what carries the current position was made
  by the derivative in progress, hence is not published;
* `Roles`: a memo packs alternatives or gathers children, never both, and a
  zipper's memo does neither;
* `WorkOrdered`: a memo just entered is the top of the work list and nothing
  else refers to it, and only the top can complete a packer, which has not
  completed yet. This is where the stack discipline is used: with a queue the
  claim is false (one of the mutants).

`PwzProofs` has one lemma per action for type correctness and one for the rest
of `Inductive`; the four theorems follow from `Invariance` and propositional
temporal logic. On them build, the first in the same module and the others in
`PwzSharingProofs`:

* `ChangesAreComplete`: `Spec => []ChangesComplete`. The
  strengthening `Reporting` says that between two calls nothing is unreported,
  and that what is about to become an expression packs one alternative at most.
  Without the second, a node with two alternatives could enter the graph under
  one log entry.
* `FrontierIsBounded`: `Spec => []FrontierBounded`. Token
  leaves are the grammar's own (`LeavesGiven`); a memo belongs to one expression,
  and each zipper of the output waits in the memo of a leaf that names the token,
  no two in the same (`MemosOwned`). So zippers inject into leaves.
* `ChangesAreReportedOnce`: `Spec => []ChangesOnce`, assuming
  `DistinctAlternatives`: no grammar names a child of an alternative twice. `new`
  does not assert it, and without it the claim is false, since such a child is
  entered twice from one context. The compiler grants it, as it makes one child
  for each production, and `MCPwz` has TLC check it of the compiled grammars. The
  argument is that each thing happens once, by what the work list cannot hold: a
  context that waits to enter an expression has not joined its memo (`Joining`);
  no such item is there twice (`WorkDistinct`); a result is on its way only to
  contexts that have joined its memo, and not to a packer that has it (`Passing`).
  It rests on `ChangesAreComplete`: what the graph has not gained is not in the
  log.

### The index

`LinkingProofs` proves, for every set of grammars, tokens and all bounds:

* `LinkingTyped`: `Spec => []TypeOK`.
* `FactsAreDerived`: `Spec => []FactsDerived`, soundness. `AlwaysDerived`,
  `Spec => []Derived`, says the same amid a derivative and amid the turns of
  `close`.
* `FactsAreFound`: `Spec => []FactsFound`, completeness. With the other, the
  facts between two calls are exactly the least set closed under the rules, once
  everything is reported.
* `AnswersAreKept`: `Spec => AnswerKept`.

Assumed, besides what the engine assumes: `WiringBounds` and `LinkingBounds`
(the bounds are naturals), `PayloadsFinite` (a token has finitely many values),
`PayloadsLexical` (they are of the primitive sorts that `exact_tokens` reads
lexemes as) and `GrammarsWellTyped`, which is what the grammar and schema
compilers check and what egglog keeps: a compiled sequence names its production,
whose action selects children it has and gives every input of its constructor,
terminals and productions have their lexemes and actions, constructors make
values of equality sorts and lexemes are primitives, and the e-graphs a user
starts with are rebuilt.

That types and soundness are kept is shown in `WiringProofs`, of each operation of
the parser and the index and of any growth of the e-graph that tears no classes
apart (`Grows`), whoever takes the steps. `LinkingProofs` and `MonitorProofs` cite
it for the steps of their own `Next`; completeness is in `LinkingProofs`.

*Soundness.* That every fact lies in `Entailed` is hard to keep by itself: when
the graph or the e-graph grows, `Entailed` is another set, and it would have to
be shown how the two compare. The invariant says instead, of every set of facts
`X` closed under the rules, that what the index has, read in the e-graph of now,
lies in `X` (`Supported`). An insertion keeps this, since what follows from
members of a closed set is a member (`InsertsFollow`). So does growth: what is
closed for larger maps is closed for smaller ones, and what is closed for an
e-graph that has grown, pulled back along the merger of its classes (`Earlier`),
is closed for the one before. `Entailed` is one such set, and in every other
(`EntailedClosed`), by induction on how many facts are missing. Beside it
`LinkingInv` holds:

* every entry of an index stands for an edge of the graph, and so does every
  entry of the log that is not read yet (`IndexTrue`, `LogTrue`);
* events are facts, pending once, in layers without overlap (`AgendaOK`);
* actions select children that exist (`MapsOK`, `SchemaOK`), by an invariant of
  the engine, `Given`, that its symbols are the grammar's or a token's;
* the e-graph is `Coherent`. `WiringProofs` has this of `Added`, `AddedAll`,
  `Equated` and `Rebuilt`, and that none of them tears classes apart: the new
  `find` is a function of the old one, and each row is still there as its
  canonical form. For `Rebuilt` this is an induction on its rounds.

*Completeness.* `FactsFound` speaks of the moments when nothing is pending, and
is not inductive. The invariant, `CompleteInv`, says at every moment what is
missing and why. A fact is settled when its event has been closed. What the
rules say of the settled facts at an expression, a context or an edge between
memo and context is known (`FactsComplete`), unless

* the expression, context or edge is `Unread`: it stands in the log, or among
  the changes of the derivative in progress; or
* the delta names a change that bears on it (`ChangedExpression`,
  `ChangedContext`): rows of its constructor, or a terminal, or the target.

And what is not `Unread` stands in every index it belongs to (`IndexFull`).
Where the log has been read the parser makes no further change (`LogRead`). Each
operation then keeps this for a reason of its own: an insertion makes facts known
but not settled; closing an event settles it, and the consequences it has
together with the settled facts are those `close` draws from the index
(`ClosesExpression`, `ClosesContext`, `ClosesParent`), since a row all of whose
children but one are settled fits exactly when the last one is; a log or a delta
is told to everyone it bears on, who is rechecked whole (`TellCompletes`,
`ReportCompletes`); the parser changes nothing that it does not log, for the
engine has this as a step property (`StepLogged` in `PwzProofs`), so that
the new parts are `Unread` and the old ones read as before (`ParseCompletes`);
and the e-graph changes no row and no target that is not marked
(`GrowthCompletes`). A merger may leave a known value stale; the rows that hold
the new one are marked, and the values they are rechecked for are canonical.
When all is told and closed, the known facts of canonical values are therefore a
closed set (`FoundClosed`), and `Entailed` is the least one. The demand for one
value at a site that any value suits is left out all along (`HeldIn`), as
`recheck_context` leaves it out.

### The monitor

`MonitorProofs` proves, for every set of grammars with their programs and
updates, and for every batch size, cap and bound:

* `MonitorTyped`: `Spec => []TypeOK`.
* `MonitorDerived`: `Spec => []Derived`, within calls and between them, hence
  `AnswersAreDerived`: `Spec => []AnswerDerived`.
* `MonitorKeepsContract`: `Spec => Contract`, the implementation of
  `MonitorContract`.

Assumed, besides what the index assumes: `MonitorBounds` (the bounds are
naturals) and `ProgramsWellTyped`, what egglog checks of a program: its atoms
give every input of a function it has declared, functions make values of
equality sorts, and the constructors of the schema are among the functions.

The invariant, `MonitorInv`, has a part for each thing that outlives a step:
parser, index and e-graph (`PartsOK`, from `WiringProofs`), the changes still to
be told (`LogOK`), rules and guarantees (`ProgramOK`), what the scheduler has
counted (`ScheduleOK`), unreported marks (`MarksOK`), a turn of the rules, an
update, a walk and a call under way (`TurnOK`, `UpdateOK`, `WalkOK`, `CallOK`),
and the last answer (`VerdictOK`). All but the last say that what a call passes
on is well formed: a walk has only expressions and memos to visit that exist, a
rule makes only applications that give every input, a delta only names what a
delta can name. Then every step does one of three things, and nothing to the
other two parts: it is a step of the parser (`ParseStep`), of the index
(`IndexStep`, or `ExpressionStep`, which inserts the values of a row it has
made), or the e-graph evolves (`EvolvingStep`). `Evolves` says that no class is
torn apart, rows keep the sorts and arities of the declared functions, and the
target is still the target. It is transitive, so it is enough to show it of one
row added and of one pair of classes merged: each operation that makes more is a
fold or a loop of these, and `FoldLemmas` carries it over: the matches of a
rule, with the atoms it makes, its mergers and the rebuild (`AppliedEvolves`),
an action of an update (`ActionEvolves`), the combinations of a context in a
walk (`ContextEvolves`). It is here that cutting a call off does no harm: a rule
that fails, a command that egglog refuses and an update that stops in the middle
have each left an e-graph that has evolved, and the index supports any of them.

`VerdictOK` relates the last answer to the state: it is `"dead"` exactly if there
is no zipper, and if it is `"true"` the index has a witness, until the next token.
The second rests on `KeepsAnswer`, which `WiringProofs` has of every step but the
parser's: a value once produced stays one, as the class it then belongs to, and
what was the target's class still is. So an update, whatever it merges and wherever
it fails, ends where the answer is `"true"` again (`PromisedSteps`). Every step but
one of a call's end leaves `verdict` alone (`CallSteps`).

What is proved says of an answer that it is right to be given, not that it is
given: that the monitor notices every witness, and answers `None` only when the
rules have run out, depends on every growth being marked and every match
being offered again, and the first is false of the code (`monitor_unnoticed`).

### The analyzer

`AnalyzerProofs` proves, for every lexer, every set of
programs and every behaviour of the monitor (`AnalyzerAssumption`: tokens are
made of lexemes and positions, valid programs are programs):

* `TypeCorrect`: `Spec => []TypeOK`.
* `SessionsInStep`: `Spec => []SessionInStep`.
* `AnalyzerTransparent`: `Spec => Transparent`, the implementation of the
  contract.

Here `TypeOK /\ SessionInStep` is inductive. The argument: the session to push
into, cached or fresh, holds exactly the first tokens of the new source where
they now stand (`StartingInStep`); so pushing the rest gives what a fresh
monitor would hold after all of them (`PushedInStep`), and a push of the rest
fails exactly if a push of some token would fail for a fresh one, as no cached
push did (`FailureFresh`). The last is why the invariant must speak of `Refused`.

### Page and worker

`WebProofs` proves, for every lexer, every set of programs, any number of edits
and any window, with failing initialization and escaping exceptions:

* `TypeCorrect`: `Spec => []TypeOK`.
* `AnswersAreOwn`: `Spec => []AnswersOwn`.
* `StatusIsHonest`: `Spec => []StatusHonest`, with its exception: what is shown may
  be older than the editors only if the engine has failed and an edit followed.

Assumed, besides `AnalyzerAssumption`: `WebAssumption`, that a source can be cut
anywhere and the initial contents are sources and programs. The invariant has
the parts `Texts`, `Tracking`, `Channels`, `Announced`, `Engine` and `Shown`. The
two that carry the argument: a request with the current edit version asked for
what is in the editors, and no timer runs then, so that it is the latest
(`Tracking`); this holds because every change of an editor raises the version.
And the worker's session is in step for the program it has noted (`Engine`), from
which `AnalyzerProofs` gives that the answer is a fresh analyzer's. Each of the
two steps of `handleMessage` leaves the worker so (`HandledInGear`), hence an
escaped exception, wherever it comes from, loses a request but leaves both true.

### Only model-checked

* `LivePrefixForest`, `ViablePrefix`, `SelectExact`, `GraphFaithful`: their
  references are recursive operators, out of the prover's reach.
* `WitnessReal`, `WitnessFound`: their reference, `RealizabilityReference`, is
  recursive. What is proved of the index is that it holds what `Entailment` says,
  no less and no more; that `Entailment` in turn says which prefixes have a
  witness is what these two add, and TLC checks.
* `Lexer`: what it computes rests on induction over data (paths, cycles of
  automata).
* `WitnessNoticed`, `FocusSaturated`: the first compares with
  `RealizabilityReference`, as `WitnessFound` does, and asks of the e-graph that
  the target's focus is closed. The second has to account for each match a rule
  has: taken, deferred, out of focus or beyond its cap.
* `RefusalFinal`: false of some grammars (`monitor_cyclic`), so it is no theorem.
  TLC shows it of the sessions whose fixed expressions have no cycle.
* `DeriveReturns`, `Settles`, `CallReturns`: liveness.

## 5. What is done, and what is left

All parts with behaviour of their own are modelled. What is left out of them:

* `src/egglog_backend.rs`: `build_schema` and `exact_tokens`, which check sorts
  and translate lexemes into values once, without state (the spelling test of
  integers behind them is in `Lexer`); `reject_nonmonotone_commands`, which
  refuses before anything is done; the prediction of variable names in
  `resolve_selector`, a matter of egglog's desugaring; declarations inside an
  update; subsumed rows. egglog itself (matching, rebuilding, extraction) is
  external and modelled from how it is used.
* `src/grammar.rs`: reading yacc and lex files, which external crates do, and
  rules with Unicode word boundaries, which `lex_prefix` refuses.
* `web/src/lib.rs`: UTF-16 offsets, the text of pending input, timing, JSON. A
  stop of the WebAssembly instance itself is left out of the worker.
* `src/error.rs` and `src/lib.rs` declare types and re-export;
  `web/src/typescript_egglog.rs` and the TypeScript grammar are data.
* DOM rendering, benchmarks and scripts.

Worth doing next: `FocusSaturated` as a theorem, with an invariant that accounts
for each match of a rule as taken, deferred, out of focus or beyond its cap;
`RefusalFinal` for grammars whose fixed expressions have no cycle; a session with
a rule that keeps creating classes, to say what the caps do guarantee of it.
