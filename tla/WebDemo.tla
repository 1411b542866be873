------------------------------ MODULE WebDemo ------------------------------
(***************************************************************************)
(* The browser demo: the page of web/site/app.js and the worker of         *)
(* web/site/analyzer-worker.js with the analyzer it owns.                  *)
(*                                                                         *)
(* A handler runs to its end before the next event, so a handler is an     *)
(* action.  Between page and worker are two channels that keep order.      *)
(* The page may be edited between any two events.  A timer may fire at any *)
(* time after it is set, so that a debounced and an immediate call of      *)
(* `queueAnalysis` are the same.  A text is a sequence of pieces.          *)
(***************************************************************************)
EXTENDS Analyzer, FiniteSets

CONSTANTS
  EmptyProgram, DefaultProgram,   \* members of Programs
  InitialText,
  Edits,       \* the texts the user may type; loading a sample is one of them
  Escapes,     \* whether an exception may escape handleMessage
  Window,      \* 8 in pruneOldRequests
  MaxEdits     \* bound: the user edits only while editVersion is below it

\* Whatever can be in the editor can be cut.
ASSUME WebAssumption ==
  /\ \A t \in Sources : /\ Len(t) \in Nat
                        /\ \A n \in 0 .. Len(t) : SubSeq(t, 1, n) \in Sources
  /\ EmptyProgram \in Programs /\ DefaultProgram \in Programs
  /\ InitialText \in Sources /\ Edits \subseteq Sources
  /\ Escapes \in BOOLEAN /\ Window \in Nat /\ MaxEdits \in Nat

----------------------------------------------------------------------------
VARIABLES
  program, text,                    \* the contents of the two editors
  defaultProgram,
  workerReady, engineFailed,
  editVersion, debounceTimer,       \* the version whose timer runs, or 0
  requests,                         \* id -> version and source
  nextRequestId, latestRequestId,
  status,                           \* the kind of text on the badge
  strip,                            \* the tokens shown, and their source
  toWorker, toPage,                 \* messages on their way
  phase,                            \* of the promise `ready`
  analyzer, configuredProgram,
  posted                            \* history: request id -> what it asked, and
                                    \* the version it asked for

editors == <<program, text>>
engine == <<defaultProgram, workerReady, engineFailed>>
queue == <<editVersion, debounceTimer>>
tracking == <<requests, nextRequestId, latestRequestId, posted>>
shown == <<status, strip>>
worker == <<phase, analyzer, configuredProgram>>
vars == <<editors, engine, queue, tracking, shown, toWorker, toPage, worker>>

NoTokens == [of |-> <<>>, tokens |-> <<>>]
NoAnalyzer == [made |-> FALSE]
MadeAnalyzer(p, s) == [made |-> TRUE, program |-> p, session |-> s]

Init ==
  /\ program = EmptyProgram /\ text = InitialText
  /\ defaultProgram = EmptyProgram
  /\ workerReady = FALSE /\ engineFailed = FALSE
  /\ editVersion = 0 /\ debounceTimer = 0
  /\ requests = <<>> /\ nextRequestId = 1 /\ latestRequestId = 0
  /\ posted = <<>>
  /\ status = "loading" /\ strip = NoTokens
  /\ toWorker = <<>> /\ toPage = <<>>
  /\ phase = "starting"
  /\ analyzer = NoAnalyzer /\ configuredProgram = EmptyProgram

----------------------------------------------------------------------------
(* The page.                                                               *)

QueueUncleared(ready, failed) ==   \* mutant: a failed engine leaves the timer
  /\ editVersion' = editVersion + 1
  /\ debounceTimer' = IF failed THEN debounceTimer ELSE editVersion'
  /\ status' = IF failed THEN status
               ELSE IF ready THEN "running" ELSE "loading"

\* `queueAnalysis`: the version grows and a running timer is cleared even if
\* the engine has failed; the rest happens only if it has not.
QueueAnalysis(ready, failed) ==
  /\ editVersion' = editVersion + 1
  /\ debounceTimer' = IF failed THEN 0 ELSE editVersion'
  /\ status' = IF failed THEN status
               ELSE IF ready THEN "running" ELSE "loading"

\* Typing in an editor, the key that asks for an immediate analysis, the two
\* samples and the reset button.
Edit(p, t) ==
  /\ editVersion < MaxEdits
  /\ program' = p /\ text' = t
  /\ QueueAnalysis(workerReady, engineFailed)
  /\ UNCHANGED <<engine, tracking, strip, toWorker, toPage, worker>>

EditProgram == \E p \in Programs \cup {defaultProgram} : Edit(p, text)
EditText == \E t \in Edits : Edit(program, t)

\* `slice(0, end)` of a text that may be shorter.
Slice(t, end) == SubSeq(t, 1, IF end < Len(t) THEN end ELSE Len(t))

\* A click on token k cuts the text that is in the editor now.
ClickToken(k) ==
  /\ k \in DOMAIN strip.tokens
  /\ Edit(program, Slice(text, strip.tokens[k].end))

\* The timer fires: `submitAnalysis`.
SubmitTooEarly ==
  /\ debounceTimer # 0
  /\ ~engineFailed /\ ~workerReady
  /\ status' = "loading"
  /\ debounceTimer' = 0
  /\ UNCHANGED <<editors, engine, editVersion, tracking, strip, toWorker,
                 toPage, worker>>

SubmitAfterFailure ==
  /\ debounceTimer # 0
  /\ engineFailed
  /\ debounceTimer' = 0
  /\ UNCHANGED <<editors, engine, editVersion, tracking, shown, toWorker,
                 toPage, worker>>

PrunedLatest(latest) ==        \* mutant: the newest request is forgotten too
  {id \in DOMAIN requests : id > latest - Window}
\* The open requests that `pruneOldRequests` leaves, the new one included.
Pruned(latest) == {id \in DOMAIN requests \cup {latest} : id >= latest - Window}

Submit ==
  /\ debounceTimer # 0
  /\ ~engineFailed /\ workerReady
  /\ LET id == nextRequestId
         version == debounceTimer
         request == [version |-> version, source |-> text]
     IN /\ requests' = [x \in Pruned(id) |->
                          IF x = id THEN request ELSE requests[x]]
        /\ nextRequestId' = id + 1
        /\ latestRequestId' = id
        /\ toWorker' = Append(toWorker,
                              [id |-> id, program |-> program, source |-> text])
        /\ posted' = Append(posted, [version |-> version, program |-> program,
                                     source |-> text])
  /\ debounceTimer' = 0
  /\ UNCHANGED <<editors, engine, editVersion, shown, toPage, worker>>

Arrived(type) == toPage # <<>> /\ Head(toPage).type = type

\* The default program fills an editor that is still empty.
HandleReady ==
  /\ Arrived("ready")
  /\ defaultProgram' = DefaultProgram
  /\ program' = IF program = EmptyProgram THEN DefaultProgram ELSE program
  /\ workerReady' = TRUE
  /\ engineFailed' = FALSE
  /\ QueueAnalysis(TRUE, FALSE)
  /\ toPage' = Tail(toPage)
  /\ UNCHANGED <<text, tracking, strip, toWorker, worker>>

HandleEngineError ==
  /\ Arrived("engine-error")
  /\ engineFailed' = TRUE
  /\ status' = "failed"
  /\ toPage' = Tail(toPage)
  /\ UNCHANGED <<editors, defaultProgram, workerReady, queue, tracking, strip,
                 toWorker, worker>>

CurrentAny(id) == id \in DOMAIN requests      \* mutant: an old answer is shown
\* An answer counts if neither editor was touched since it was asked for.
Current(id) ==
  /\ id \in DOMAIN requests
  /\ requests[id].version = editVersion
  /\ id = latestRequestId

HandleResponse ==
  /\ Arrived("result") \/ Arrived("error")
  /\ LET message == Head(toPage)
     IN /\ requests' = [x \in DOMAIN requests \ {message.id} |-> requests[x]]
        /\ IF ~Current(message.id) THEN UNCHANGED shown
           ELSE IF message.type = "error" THEN status' = "error" /\ UNCHANGED strip
           ELSE /\ status' = "shown"
                /\ strip' = [of |-> requests[message.id].source,
                             tokens |-> message.result.tokens,
                             realizability |-> message.result.realizability]
  /\ toPage' = Tail(toPage)
  /\ UNCHANGED <<editors, engine, queue, nextRequestId, latestRequestId, posted,
                 toWorker, worker>>

----------------------------------------------------------------------------
(* The worker.                                                             *)

InitializeReady ==
  /\ phase = "starting"
  /\ phase' = "ready"
  /\ toPage' = Append(toPage, [type |-> "ready"])
  /\ UNCHANGED <<editors, engine, queue, tracking, shown, toWorker, analyzer,
                 configuredProgram>>

InitializeFails ==
  /\ phase = "starting"
  /\ phase' = "failed"
  /\ toPage' = Append(toPage, [type |-> "engine-error"])
  /\ UNCHANGED <<editors, engine, queue, tracking, shown, toWorker, analyzer,
                 configuredProgram>>

ConfiguredEarly(p) ==    \* mutant: the program is noted before it is accepted
  [accepted |-> p \in Valid \/ (analyzer.made /\ p = configuredProgram),
   analyzer |-> IF p \in Valid /\ ~(analyzer.made /\ p = configuredProgram)
                  THEN MadeAnalyzer(p, NewSession(p)) ELSE analyzer,
   program |-> p]

\* `configureAnalyzer`: the analyzer is made by the first request and told of
\* a program that differs from the last one it accepted.
Configured(p) ==
  IF analyzer.made /\ p = configuredProgram
    THEN [accepted |-> TRUE, analyzer |-> analyzer, program |-> p]
  ELSE IF p \in Valid
    THEN [accepted |-> TRUE, analyzer |-> MadeAnalyzer(p, NewSession(p)),
          program |-> p]
  ELSE [accepted |-> FALSE, analyzer |-> analyzer, program |-> configuredProgram]

\* The `try` of `handleMessage`: the worker's state after it, and its answer.
Handled(message) ==
  LET configured == Configured(message.program)
      result == Analyze(configured.analyzer.program,
                        configured.analyzer.session, message.source)
  IN IF configured.accepted
       THEN [analyzer |-> [configured.analyzer EXCEPT !.session = result.session],
             program |-> configured.program, answer |-> result.answer]
       ELSE [analyzer |-> analyzer, program |-> configuredProgram, answer |-> Failure]

Taking == phase = "ready" /\ toWorker # <<>> /\ toWorker' = Tail(toWorker)
Leaving(state) == analyzer' = state.analyzer /\ configuredProgram' = state.program

\* `handleMessage`, from the queue's head to the answer.
HandleMessage ==
  /\ Taking
  /\ LET id == Head(toWorker).id
         handled == Handled(Head(toWorker))
     IN /\ Leaving(handled)
        /\ toPage' = Append(toPage,
             IF handled.answer.ok
               THEN [type |-> "result", id |-> id, result |-> handled.answer]
               ELSE [type |-> "error", id |-> id])
  /\ UNCHANGED <<editors, engine, queue, tracking, shown, phase>>

\* The queue's own catch: the request is lost, the queue goes on.  What escapes
\* was thrown before, between or after the two steps of the `try`, or by what
\* reports the failure of one of them.
Escape ==
  /\ Escapes
  /\ Taking
  /\ \/ UNCHANGED <<analyzer, configuredProgram>>
     \/ Leaving(Configured(Head(toWorker).program))
     \/ Leaving(Handled(Head(toWorker)))
  /\ toPage' = Append(toPage, [type |-> "engine-error"])
  /\ UNCHANGED <<editors, engine, queue, tracking, shown, phase>>

----------------------------------------------------------------------------
Page == \/ SubmitTooEarly \/ SubmitAfterFailure \/ Submit
        \/ HandleReady \/ HandleEngineError \/ HandleResponse

Click == \E k \in DOMAIN strip.tokens : ClickToken(k)
User == EditProgram \/ EditText \/ Click
Worker == InitializeReady \/ InitializeFails \/ HandleMessage \/ Escape

Next == User \/ Page \/ Worker

Spec == Init /\ [][Next]_vars

\* Timers fire, messages arrive and a handler that is called returns, whether it
\* answers or lets an exception escape; nothing is assumed of the user or of
\* loading the engine.
FairSpec == Spec /\ WF_vars(Page) /\ WF_toWorker(Taking)
----------------------------------------------------------------------------
(* Properties.                                                             *)

Version == 0 .. (MaxEdits + 1)   \* the worker's readiness counts as one

TypeOK ==
  /\ program \in Programs /\ text \in Sources
  /\ defaultProgram \in {EmptyProgram, DefaultProgram}
  /\ workerReady \in BOOLEAN /\ engineFailed \in BOOLEAN
  /\ editVersion \in Version
  /\ debounceTimer \in {0, editVersion}
  /\ Len(posted) = latestRequestId /\ nextRequestId = latestRequestId + 1
  /\ DOMAIN requests \subseteq DOMAIN posted
  /\ \A id \in DOMAIN requests :
       requests[id].version \in Version /\ requests[id].source = posted[id].source
  /\ status \in {"loading", "running", "shown", "error", "failed"}
  /\ strip.of \in Sources
  /\ phase \in {"starting", "ready", "failed"}
  /\ analyzer.made => analyzer.program = configuredProgram
  /\ \A i \in DOMAIN toWorker : toWorker[i].id \in DOMAIN posted

\* A verdict or an error on the page is the whole answer to the latest request.
\* That request asked for what is in the editors now: never for an older text or
\* an older program, unless the engine has failed and an edit was made after it.
\* Such an edit is not acted on, while an answer that was queued when the engine
\* failed is still shown, and stays.
StatusHonest ==
  status \in {"shown", "error"} =>
    LET asked == posted[latestRequestId]
    IN /\ latestRequestId # 0
       /\ Fresh(asked.program, asked.source) =
            IF status = "error" THEN Failure
            ELSE [ok |-> TRUE, tokens |-> strip.tokens,
                  realizability |-> strip.realizability]
       /\ asked.version = editVersion => asked.program = program /\ asked.source = text
       /\ asked.version # editVersion => engineFailed

\* Each message to the page answers its own request as a fresh analyzer would,
\* however the cached one was used before.
AnswersOwn ==
  \A i \in DOMAIN toPage :
    /\ toPage[i].type = "result" =>
         toPage[i].result = Fresh(posted[toPage[i].id].program,
                                  posted[toPage[i].id].source)
    /\ toPage[i].type = "error" =>
         Fresh(posted[toPage[i].id].program, posted[toPage[i].id].source) = Failure

\* Once the worker is ready every edit is answered, unless another one follows
\* or the page has been told that the engine failed.
Settles ==
  \/ []<><<editVersion' # editVersion>>_vars
  \/ []<>(~workerReady \/ status \in {"shown", "error"} \/ engineFailed)

\* The worker keeps its queue usable if an exception escapes a request: an edit
\* made afterwards is still analyzed.
UsableAfterEscape ==
  [][workerReady /\ editVersion' # editVersion => debounceTimer' # 0]_vars

\* A click on a token leaves exactly the text up to that token which was
\* analyzed when the token was made.
TokenClickExact ==
  [][\A k \in DOMAIN strip.tokens :
       ClickToken(k) => text' = SubSeq(strip.of, 1, strip.tokens[k].end)]_vars
=============================================================================
