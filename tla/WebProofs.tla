------------------------------ MODULE WebProofs ------------------------------
(***************************************************************************)
(* What the page shows is the answer to its latest request, and for what   *)
(* is in its editors until the engine has failed; for every lexer, every   *)
(* set of programs and any number of edits.                                *)
(***************************************************************************)
EXTENDS WebDemo, SequenceTheorems, TLAPS

\* What is proved of the analyzer's operators.  They do not depend on the fields
\* that AnalyzerCalls has and WebDemo has not.
Calls == INSTANCE AnalyzerProofs WITH
  session <- NoSession, has_analyzed <- FALSE, answer <- Done, incremental <- FALSE

Token == [lexeme : Lexemes, end : Nat]
Kept == {NoSession} \cup Session

\* The operators of Calls are those of Analyzer.
LEMMA CallNames ==
  /\ Calls!Sources = Sources /\ Calls!Session = Session /\ Calls!Kept = Kept
  /\ \A p : Calls!NewSession(p) = NewSession(p)
  /\ \A p, s : Calls!InStep(p, s) <=> InStep(p, s)
  /\ \A p, s, source : Calls!Analyze(p, s, source) = Analyze(p, s, source)
  /\ \A p, source : Calls!Fresh(p, source) = Fresh(p, source)
<1>1. /\ Calls!Sources = Sources /\ Calls!NoSession = NoSession
      /\ Calls!Session = Session /\ Calls!Failure = Failure
      /\ \A p, pushed, tokens : Calls!OpenSession(p, pushed, tokens) = OpenSession(p, pushed, tokens)
      /\ \A p, lexemes : Calls!Verdict(p, lexemes) = Verdict(p, lexemes)
      /\ \A tokens, k : Calls!Prefix(tokens, k) = Prefix(tokens, k)
  BY DEF Calls!Sources, Sources, Calls!NoSession, NoSession, Calls!Session, Session,
         Calls!Failure, Failure, Calls!OpenSession, OpenSession, Calls!Verdict, Verdict,
         Calls!Prefix, Prefix
<1>2. /\ Calls!Kept = Kept
      /\ \A p : Calls!NewSession(p) = NewSession(p)
      /\ \A s, tokens : Calls!Reusable(s, tokens) <=> Reusable(s, tokens)
      /\ \A s, tokens, k : Calls!PushedUpTo(s, tokens, k) = PushedUpTo(s, tokens, k)
      /\ \A s : Calls!Report(s) = Report(s)
  BY <1>1 DEF Calls!Kept, Kept, Calls!NewSession, NewSession, Calls!Reusable, Reusable,
              Calls!Extends, Extends, Calls!PushedUpTo, PushedUpTo, Calls!Report, Report
<1>3. /\ \A p, s, tokens : Calls!Starting(p, s, tokens) = Starting(p, s, tokens)
      /\ \A s, tokens : Calls!PushFails(s, tokens) <=> PushFails(s, tokens)
      /\ \A s, tokens : Calls!PushAll(s, tokens) = PushAll(s, tokens)
  BY <1>1, <1>2 DEF Calls!Starting, Starting, Calls!PushFails, PushFails,
                    Calls!PushAll, PushAll
<1>4. \A p, s, source : Calls!Analyze(p, s, source) = Analyze(p, s, source)
  BY <1>1, <1>2, <1>3 DEF Calls!Analyze, Analyze
<1>5. \A p, source : Calls!Fresh(p, source) = Fresh(p, source)
  BY <1>1 DEF Calls!Fresh, Fresh
<1>6. \A p, s : Calls!InStep(p, s) <=> InStep(p, s)
  BY <1>1 DEF Calls!InStep, InStep
<1> QED  BY <1>1, <1>2, <1>4, <1>5, <1>6

\* A source that lexes has well-formed tokens.
LEMMA LexedType ==
  ASSUME NEW source \in Sources
  PROVE  /\ Lexed[source].tokens \in Seq(Token)
         /\ Lexed[source].ok \in BOOLEAN
BY AnalyzerAssumption DEF Token

\* A new session is in step.
LEMMA NewInStep ==
  ASSUME NEW p \in Valid
  PROVE  NewSession(p) \in Session /\ InStep(p, NewSession(p))
BY AnalyzerAssumption, CallNames, Calls!NewInStep

\* A call gives a new analyzer's answer and leaves a session in step.
LEMMA AnalyzeInStep ==
  ASSUME NEW p \in Valid, NEW s \in Kept, InStep(p, s), NEW source \in Sources
  PROVE  LET result == Analyze(p, s, source)
         IN /\ result.answer = Fresh(p, source)
            /\ result.session \in Kept
            /\ InStep(p, result.session)
BY AnalyzerAssumption, CallNames, Calls!AnalyzeInStep

----------------------------------------------------------------------------
(* The inductive invariant.                                                *)

Asked == [version : Nat, program : Programs, source : Sources]
Question == [id : Nat, program : Programs, source : Sources]
Answers == {Fresh(p, s) : p \in Programs, s \in Sources}
News == [type : {"ready", "engine-error"}]
Refusal == [type : {"error"}, id : Nat]
Result == [type : {"result"}, id : Nat, result : Answers]
Message == News \cup Refusal \cup Result

\* What a fresh analyzer says to request `id`.
Owed(asked, id) == Fresh(asked[id].program, asked[id].source)

\* A message to the page answers a request that was made as it is owed, or
\* brings news of the engine.
OwnMessage(asked, m) ==
  /\ m.type \in {"ready", "engine-error", "result", "error"}
  /\ m.type \in {"result", "error"} => m.id \in 1 .. Len(asked)
  /\ m.type = "result" => m.result = Owed(asked, m.id) /\ m.result # Failure
  /\ m.type = "error" => Owed(asked, m.id) = Failure

\* A request arrives as it was posted.
OwnQuestion(asked, q) ==
  /\ q.id \in 1 .. Len(asked)
  /\ q.program = asked[q.id].program
  /\ q.source = asked[q.id].source

Texts ==
  /\ program \in Programs /\ text \in Sources
  /\ defaultProgram \in {EmptyProgram, DefaultProgram}
  /\ workerReady \in BOOLEAN /\ engineFailed \in BOOLEAN
  /\ editVersion \in Nat /\ editVersion <= MaxEdits + 1
  /\ debounceTimer \in {0, editVersion}

\* A request with the current version asked for what is in the editors, and no
\* timer runs then: it was the last one.
Tracking ==
  /\ posted \in Seq(Asked)
  /\ Len(posted) = latestRequestId /\ nextRequestId = latestRequestId + 1
  /\ \A id \in 1 .. Len(posted) :
       /\ posted[id].version <= editVersion
       /\ posted[id].version = editVersion =>
            debounceTimer = 0 /\ posted[id].program = program /\ posted[id].source = text
  /\ \A id \in DOMAIN requests :
       /\ id \in 1 .. Len(posted)
       /\ requests[id].version = posted[id].version
       /\ requests[id].source = posted[id].source

Channels ==
  /\ toWorker \in Seq(Question)
  /\ \A i \in DOMAIN toWorker : OwnQuestion(posted, toWorker[i])
  /\ toPage \in Seq(Message)
  /\ \A i \in DOMAIN toPage : OwnMessage(posted, toPage[i])

\* The worker is announced once; its announcement raises the version once.
Announced ==
  /\ \A i, j \in DOMAIN toPage :
       toPage[i].type = "ready" /\ toPage[j].type = "ready" => i = j
  /\ phase = "starting" \/ workerReady => \A i \in DOMAIN toPage : toPage[i].type # "ready"
  /\ phase = "starting" => ~workerReady
  /\ ~workerReady => editVersion <= MaxEdits

\* An analyzer, if there is one, is of the program noted, and in step with it.
InGear(a, p) ==
  a.made =>
    /\ a = MadeAnalyzer(a.program, a.session)
    /\ a.program = p
    /\ p \in Valid
    /\ a.session \in Kept
    /\ InStep(p, a.session)

Engine ==
  /\ phase \in {"starting", "ready", "failed"}
  /\ InGear(analyzer, configuredProgram)

Shown ==
  /\ status \in {"loading", "running", "shown", "error", "failed"}
  /\ strip.of \in Sources
  /\ \A k \in DOMAIN strip.tokens : strip.tokens[k].end \in Nat
  /\ status \in {"shown", "error"} => debounceTimer = 0
  /\ StatusHonest

Inductive == Texts /\ Tracking /\ Channels /\ Announced /\ Engine /\ Shown

----------------------------------------------------------------------------
(* Channels.                                                               *)

\* A message is posted at the end of a channel,
LEMMA Appended ==
  ASSUME NEW S, NEW s \in Seq(S), NEW x \in S
  PROVE  /\ Append(s, x) \in Seq(S)
         /\ Len(Append(s, x)) = Len(s) + 1
         /\ DOMAIN Append(s, x) = 1 .. Len(s) + 1
         /\ DOMAIN s = 1 .. Len(s) /\ Len(s) \in Nat
         /\ \A i \in 1 .. Len(s) : Append(s, x)[i] = s[i]
         /\ Append(s, x)[Len(s) + 1] = x
OBVIOUS

\* and delivered from its front.
LEMMA Taken ==
  ASSUME NEW S, NEW s \in Seq(S), s # <<>>
  PROVE  /\ Head(s) \in S /\ 1 \in DOMAIN s /\ Head(s) = s[1]
         /\ Tail(s) \in Seq(S)
         /\ \A i \in DOMAIN Tail(s) : /\ i \in Nat
                                      /\ i + 1 \in DOMAIN s
                                      /\ Tail(s)[i] = s[i + 1]
OBVIOUS

\* What was owed before a request is owed after it.
LEMMA StillOwn ==
  ASSUME NEW asked \in Seq(Asked), NEW x \in Asked
  PROVE  /\ \A m : OwnMessage(asked, m) => OwnMessage(Append(asked, x), m)
         /\ \A q : OwnQuestion(asked, q) => OwnQuestion(Append(asked, x), q)
<1>1. /\ Len(asked) \in Nat /\ Len(Append(asked, x)) = Len(asked) + 1
      /\ \A i \in 1 .. Len(asked) : i \in 1 .. Len(asked) + 1
      /\ \A i \in 1 .. Len(asked) : Append(asked, x)[i] = asked[i]
  BY Appended
<1>2. \A i \in 1 .. Len(asked) : Owed(Append(asked, x), i) = Owed(asked, i)
  BY <1>1 DEF Owed
<1> QED  BY <1>1, <1>2 DEF OwnMessage, OwnQuestion

\* An answer that is not a failure is a report.
LEMMA FreshForm ==
  ASSUME NEW p, NEW s \in Sources, Fresh(p, s) # Failure
  PROVE  /\ Fresh(p, s) = [ok |-> TRUE, tokens |-> Fresh(p, s).tokens,
                           realizability |-> Fresh(p, s).realizability]
         /\ \A k \in DOMAIN Fresh(p, s).tokens : Fresh(p, s).tokens[k].end \in Nat
<1> DEFINE tokens == Lexed[s].tokens
           trace == [k \in DOMAIN tokens |->
             [lexeme |-> tokens[k].lexeme, end |-> tokens[k].end,
              verdict |-> Verdict(p, Prefix(tokens, k))]]
           last == Verdict(p, Prefix(tokens, Len(tokens)))
<1>1. Fresh(p, s) = [ok |-> TRUE, tokens |-> trace, realizability |-> last]
  BY DEF Fresh
<1>2. \A k \in DOMAIN tokens : tokens[k].end \in Nat
  <2>1. \A k \in DOMAIN tokens : tokens[k] \in Token
    BY LexedType
  <2> QED  BY <2>1 DEF Token
<1>3. \A k \in DOMAIN trace : trace[k].end \in Nat
  BY <1>2
<1> HIDE DEF trace, last
<1> QED  BY <1>1, <1>3

----------------------------------------------------------------------------
(* The invariant holds at the start, and the user keeps it.                *)

\* The page opens with nothing asked, nothing sent and nothing shown.
LEMMA InductiveInit == Init => Inductive
<1> SUFFICES ASSUME Init PROVE Inductive
  OBVIOUS
<1>1. <<>> \in Sources
  <2>1. InitialText \in Sources
    BY WebAssumption
  <2>2. Len(InitialText) \in Nat /\ SubSeq(InitialText, 1, 0) \in Sources
    BY <2>1, WebAssumption
  <2>3. SubSeq(InitialText, 1, 0) = <<>>
    BY SubSeqEmpty
  <2> QED  BY <2>2, <2>3
<1>2. Texts /\ Tracking
  <2>1. Texts
    <3>1. workerReady \in BOOLEAN /\ engineFailed \in BOOLEAN
      BY DEF Init
    <3>2. /\ program \in Programs /\ text \in Sources
          /\ defaultProgram \in {EmptyProgram, DefaultProgram}
      BY WebAssumption DEF Init
    <3>3. /\ editVersion \in Nat /\ editVersion <= MaxEdits + 1
          /\ debounceTimer \in {0, editVersion}
      BY WebAssumption DEF Init
    <3> QED  BY <3>1, <3>2, <3>3 DEF Texts
  <2>2. /\ posted \in Seq(Asked) /\ Len(posted) = 0 /\ DOMAIN requests = {}
        /\ nextRequestId = 1 /\ latestRequestId = 0
    BY DEF Init
  <2> QED  BY <2>1, <2>2 DEF Tracking
<1>3. Channels /\ Announced
  BY WebAssumption DEF Init, Channels, Announced
<1>4. Engine
  BY DEF Init, Engine, InGear, NoAnalyzer
<1>5. Shown
  BY <1>1 DEF Init, Shown, StatusHonest, NoTokens
<1> QED  BY <1>2, <1>3, <1>4, <1>5 DEF Inductive

\* A new version makes every request an old one.
LEMMA VersionGrows ==
  ASSUME Inductive, editVersion' = editVersion + 1, UNCHANGED tracking
  PROVE  Tracking'
<1>1. editVersion \in Nat /\ posted \in Seq(Asked) /\ Len(posted) \in Nat
  BY DEF Inductive, Texts, Tracking
<1>2. /\ posted' = posted /\ requests' = requests
      /\ nextRequestId' = nextRequestId /\ latestRequestId' = latestRequestId
  BY DEF tracking
<1>3. \A id \in 1 .. Len(posted) :
        posted[id].version <= editVersion' /\ posted[id].version # editVersion'
  <2> SUFFICES ASSUME NEW id \in 1 .. Len(posted)
               PROVE  posted[id].version <= editVersion' /\ posted[id].version # editVersion'
    OBVIOUS
  <2>1. posted[id] \in Asked
    BY <1>1
  <2>2. posted[id].version \in Nat /\ posted[id].version <= editVersion
    BY <2>1 DEF Asked, Inductive, Tracking
  <2> QED  BY <1>1, <2>2
<1> QED  BY <1>2, <1>3 DEF Inductive, Tracking

\* An edit keeps the invariant, also one that is not acted on.
LEMMA EditStep ==
  ASSUME Inductive, NEW p \in Programs, NEW t \in Sources, Edit(p, t)
  PROVE  Inductive'
<1>1. /\ editVersion < MaxEdits /\ program' = p /\ text' = t
      /\ editVersion' = editVersion + 1
      /\ debounceTimer' \in {0, editVersion'}
      /\ \/ engineFailed /\ status' = status /\ debounceTimer' = 0
         \/ ~engineFailed /\ status' \in {"running", "loading"}
      /\ UNCHANGED <<engine, tracking, strip, toWorker, toPage, worker>>
  BY DEF Edit, QueueAnalysis
<1>2. Texts'
  BY <1>1, WebAssumption DEF Inductive, Texts, engine
<1>3. Tracking'
  BY <1>1, VersionGrows
<1>4. Channels'
  BY <1>1 DEF Inductive, Channels, tracking
<1>5. Announced'
  BY <1>1, WebAssumption DEF Inductive, Texts, Announced, engine, worker
<1>6. Engine'
  BY <1>1 DEF Inductive, Engine, worker
<1>7. Shown'
  <2>1. CASE status' \in {"shown", "error"}
    <3>1. engineFailed' /\ status' = status /\ debounceTimer' = 0
      BY <1>1, <2>1 DEF engine
    <3>2. latestRequestId # 0 /\ latestRequestId \in 1 .. Len(posted)
      BY <2>1, <3>1 DEF Inductive, Shown, StatusHonest, Tracking
    <3>3. posted[latestRequestId].version # editVersion'
      BY <1>1, <3>2 DEF Inductive, Texts, Tracking
    <3>4. posted' = posted /\ latestRequestId' = latestRequestId /\ strip' = strip
      BY <1>1 DEF tracking
    <3> QED  BY <2>1, <3>1, <3>2, <3>3, <3>4 DEF Inductive, Shown, StatusHonest
  <2>2. CASE status' \notin {"shown", "error"}
    BY <1>1, <2>2 DEF Inductive, Shown, StatusHonest
  <2> QED  BY <2>1, <2>2
<1> QED  BY <1>2, <1>3, <1>4, <1>5, <1>6, <1>7 DEF Inductive

\* Whatever the user does is an edit to some program and some text.
LEMMA UserStep ==
  ASSUME Inductive, User
  PROVE  Inductive'
<1>1. program \in Programs /\ text \in Sources /\ defaultProgram \in Programs
  BY WebAssumption DEF Inductive, Texts
<1>2. CASE EditProgram
  BY <1>1, <1>2, EditStep DEF EditProgram
<1>3. CASE EditText
  BY <1>1, <1>3, EditStep, WebAssumption DEF EditText
<1>4. CASE Click
  <2>1. PICK k \in DOMAIN strip.tokens : ClickToken(k)
    BY <1>4 DEF Click
  <2>2. strip.tokens[k].end \in Nat
    BY DEF Inductive, Shown
  <2> DEFINE cut == IF strip.tokens[k].end < Len(text) THEN strip.tokens[k].end
                    ELSE Len(text)
  <2>3. cut \in 0 .. Len(text) /\ SubSeq(text, 1, cut) \in Sources
    BY <1>1, <2>2, WebAssumption
  <2>4. Edit(program, SubSeq(text, 1, cut))
    BY <2>1 DEF ClickToken, Slice
  <2> QED  BY <1>1, <2>3, <2>4, EditStep
<1> QED  BY <1>2, <1>3, <1>4 DEF User

----------------------------------------------------------------------------
(* The page.                                                               *)

\* `submitAnalysis` before the worker is ready, or after its engine failed, asks
\* nothing.
LEMMA SubmitIdleStep ==
  ASSUME Inductive, SubmitTooEarly \/ SubmitAfterFailure
  PROVE  Inductive'
<1>1. /\ debounceTimer' = 0
      /\ status' = status \/ status' = "loading"
      /\ UNCHANGED <<editors, engine, editVersion, tracking, strip, toWorker,
                     toPage, worker>>
  BY DEF SubmitTooEarly, SubmitAfterFailure, shown
<1>2. Texts' /\ Tracking'
  BY <1>1 DEF Inductive, Texts, Tracking, editors, engine, tracking
<1>3. Channels' /\ Announced' /\ Engine'
  BY <1>1 DEF Inductive, Channels, Announced, Engine, engine, tracking, worker
<1>4. Shown'
  BY <1>1 DEF Inductive, Shown, StatusHonest, editors, engine, tracking
<1> QED  BY <1>2, <1>3, <1>4 DEF Inductive

\* What is posted is what stands in the editors, under the current version.
LEMMA SubmitStep ==
  ASSUME Inductive, Submit
  PROVE  Inductive'
<1> DEFINE id == nextRequestId
           asked == [version |-> debounceTimer, program |-> program, source |-> text]
           question == [id |-> id, program |-> program, source |-> text]
<1>1. /\ posted' = Append(posted, asked) /\ toWorker' = Append(toWorker, question)
      /\ nextRequestId' = id + 1 /\ latestRequestId' = id
      /\ requests' = [x \in Pruned(id) |->
                        IF x = id THEN [version |-> debounceTimer, source |-> text]
                        ELSE requests[x]]
      /\ debounceTimer # 0 /\ debounceTimer' = 0
      /\ UNCHANGED <<editors, engine, editVersion, shown, toPage, worker>>
  BY DEF Submit
<1>2. /\ posted \in Seq(Asked) /\ toWorker \in Seq(Question)
      /\ program \in Programs /\ text \in Sources
      /\ editVersion \in Nat /\ debounceTimer = editVersion
      /\ id = Len(posted) + 1 /\ Len(posted) \in Nat
  BY <1>1 DEF Inductive, Texts, Tracking, Channels
<1>3. asked \in Asked /\ question \in Question
  BY <1>2 DEF Asked, Question
<1>4. /\ posted' \in Seq(Asked) /\ Len(posted') = id
      /\ \A i \in 1 .. Len(posted) : posted'[i] = posted[i]
      /\ posted'[id] = asked
  BY <1>1, <1>2, <1>3, Appended
<1>5. Texts'
  BY <1>1 DEF Inductive, Texts, editors, engine
<1>6. Tracking'
  <2>1. \A x \in DOMAIN requests' :
          /\ x \in 1 .. Len(posted')
          /\ requests'[x].version = posted'[x].version
          /\ requests'[x].source = posted'[x].source
    <3> SUFFICES ASSUME NEW x \in DOMAIN requests'
        PROVE  /\ x \in 1 .. Len(posted')
               /\ requests'[x].version = posted'[x].version
               /\ requests'[x].source = posted'[x].source
      OBVIOUS
    <3>1. CASE x = id
      <4>1. requests'[x] = [version |-> debounceTimer, source |-> text]
        BY <1>1, <3>1
      <4> QED  BY <1>2, <1>4, <3>1, <4>1
    <3>2. CASE x # id
      <4>1. x \in DOMAIN requests /\ requests'[x] = requests[x]
        BY <1>1, <3>2 DEF Pruned
      <4>2. x \in 1 .. Len(posted)
        BY <4>1 DEF Inductive, Tracking
      <4>3. posted'[x] = posted[x] /\ x \in 1 .. Len(posted')
        BY <1>2, <1>4, <4>2
      <4> QED  BY <4>1, <4>3 DEF Inductive, Tracking
    <3> QED  BY <3>1, <3>2
  <2>2. \A i \in 1 .. Len(posted') :
          /\ posted'[i].version <= editVersion
          /\ posted'[i].version = editVersion =>
               posted'[i].program = program /\ posted'[i].source = text
    <3> SUFFICES ASSUME NEW i \in 1 .. Len(posted')
        PROVE  /\ posted'[i].version <= editVersion
               /\ posted'[i].version = editVersion =>
                    posted'[i].program = program /\ posted'[i].source = text
      OBVIOUS
    <3>1. CASE i = id
      BY <1>2, <1>4, <3>1
    <3>2. CASE i # id
      <4>1. i \in 1 .. Len(posted) /\ posted'[i] = posted[i]
        BY <1>2, <1>4, <3>2
      <4> QED  BY <4>1 DEF Inductive, Tracking
    <3> QED  BY <3>1, <3>2
  <2> QED  BY <1>1, <1>2, <1>4, <2>1, <2>2 DEF Tracking, editors
<1>7. Channels'
  <2>1. \A m : OwnMessage(posted, m) => OwnMessage(posted', m)
    BY <1>1, <1>2, <1>3, StillOwn
  <2>2. \A q : OwnQuestion(posted, q) => OwnQuestion(posted', q)
    BY <1>1, <1>2, <1>3, StillOwn
  <2>3. OwnQuestion(posted', question)
    BY <1>2, <1>4 DEF OwnQuestion
  <2>4. /\ toWorker' \in Seq(Question)
        /\ DOMAIN toWorker' = 1 .. Len(toWorker) + 1 /\ Len(toWorker) \in Nat
        /\ DOMAIN toWorker = 1 .. Len(toWorker)
        /\ \A i \in 1 .. Len(toWorker) : toWorker'[i] = toWorker[i]
        /\ toWorker'[Len(toWorker) + 1] = question
    BY <1>1, <1>2, <1>3, Appended
  <2>5. \A i \in DOMAIN toWorker' : OwnQuestion(posted', toWorker'[i])
    <3> SUFFICES ASSUME NEW i \in DOMAIN toWorker'
                 PROVE  OwnQuestion(posted', toWorker'[i])
      OBVIOUS
    <3>1. CASE i = Len(toWorker) + 1
      BY <2>3, <2>4, <3>1
    <3>2. CASE i # Len(toWorker) + 1
      <4>1. i \in DOMAIN toWorker /\ toWorker'[i] = toWorker[i]
        BY <2>4, <3>2
      <4> QED  BY <2>2, <4>1 DEF Inductive, Channels
    <3> QED  BY <3>1, <3>2
  <2> QED  BY <1>1, <2>1, <2>4, <2>5 DEF Inductive, Channels
<1>8. Announced' /\ Engine'
  BY <1>1 DEF Inductive, Announced, Engine, engine, worker
<1>9. Shown'
  <2>1. status \notin {"shown", "error"}
    BY <1>1 DEF Inductive, Shown
  <2> QED  BY <1>1, <2>1 DEF Inductive, Shown, StatusHonest, shown
<1> QED  BY <1>5, <1>6, <1>7, <1>8, <1>9 DEF Inductive

\* The page reads a message: it was true, and what is left is.
LEMMA Received ==
  ASSUME Inductive, toPage # <<>>, toPage' = Tail(toPage),
         UNCHANGED <<posted, toWorker, phase>>
  PROVE  /\ OwnMessage(posted, Head(toPage))
         /\ Head(toPage) \in Message
         /\ Channels'
         /\ \A i \in DOMAIN toPage' : toPage'[i].type = "ready" =>
              \E j \in DOMAIN toPage : toPage[j].type = "ready"
         /\ \A i, j \in DOMAIN toPage' :
              toPage'[i].type = "ready" /\ toPage'[j].type = "ready" => i = j
         /\ Head(toPage).type = "ready" =>
              /\ \A i \in DOMAIN toPage' : toPage'[i].type # "ready"
              /\ phase # "starting" /\ ~workerReady
<1>1. toPage \in Seq(Message)
  BY DEF Inductive, Channels
<1>2. /\ Head(toPage) \in Message /\ 1 \in DOMAIN toPage /\ Head(toPage) = toPage[1]
      /\ toPage' \in Seq(Message)
      /\ \A i \in DOMAIN toPage' : /\ i \in Nat
                                   /\ i + 1 \in DOMAIN toPage
                                   /\ toPage'[i] = toPage[i + 1]
      /\ DOMAIN toPage' = 1 .. Len(toPage')
  BY <1>1, Taken, LenProperties
<1>3. OwnMessage(posted, Head(toPage)) /\ Channels'
  BY <1>2 DEF Inductive, Channels
<1>4. \A i, j \in DOMAIN toPage' :
        toPage'[i].type = "ready" /\ toPage'[j].type = "ready" => i = j
  <2> SUFFICES ASSUME NEW i \in DOMAIN toPage', NEW j \in DOMAIN toPage',
                      toPage'[i].type = "ready", toPage'[j].type = "ready"
               PROVE  i = j
    OBVIOUS
  <2>1. i + 1 = j + 1
    BY <1>2 DEF Inductive, Announced
  <2> QED  BY <1>2, <2>1
<1>5. ASSUME Head(toPage).type = "ready"
      PROVE  /\ \A i \in DOMAIN toPage' : toPage'[i].type # "ready"
             /\ phase # "starting" /\ ~workerReady
  <2>1. \A i \in DOMAIN toPage' : toPage'[i].type # "ready"
    <3> SUFFICES ASSUME NEW i \in DOMAIN toPage', toPage'[i].type = "ready"
                 PROVE  FALSE
      OBVIOUS
    <3>1. i + 1 = 1
      BY <1>2, <1>5 DEF Inductive, Announced
    <3>2. i >= 1
      BY <1>2
    <3> QED  BY <1>2, <3>1, <3>2
  <2> QED  BY <1>2, <1>5, <2>1 DEF Inductive, Announced
<1> QED  BY <1>2, <1>3, <1>4, <1>5

\* The worker's announcement puts the default program into an empty editor and
\* queues an analysis.
LEMMA HandleReadyStep ==
  ASSUME Inductive, HandleReady
  PROVE  Inductive'
<1>1. /\ toPage # <<>> /\ Head(toPage).type = "ready" /\ toPage' = Tail(toPage)
      /\ defaultProgram' = DefaultProgram
      /\ program' = program \/ program' = DefaultProgram
      /\ workerReady' = TRUE /\ engineFailed' = FALSE
      /\ editVersion' = editVersion + 1 /\ debounceTimer' = editVersion'
      /\ status' = "running"
      /\ UNCHANGED <<text, tracking, strip, toWorker, worker>>
  BY DEF HandleReady, Arrived, QueueAnalysis
<1>2. /\ Channels'
      /\ \A i, j \in DOMAIN toPage' :
           toPage'[i].type = "ready" /\ toPage'[j].type = "ready" => i = j
      /\ \A i \in DOMAIN toPage' : toPage'[i].type # "ready"
      /\ phase # "starting" /\ ~workerReady
  BY <1>1, Received DEF tracking, worker
<1>3. Texts'
  <2>1. editVersion \in Nat /\ editVersion <= MaxEdits /\ MaxEdits \in Nat
    BY <1>2, WebAssumption DEF Inductive, Texts, Announced
  <2>2. program' \in Programs /\ text' \in Sources
    BY <1>1, WebAssumption DEF Inductive, Texts
  <2>3. workerReady' \in BOOLEAN /\ engineFailed' \in BOOLEAN
    BY <1>1
  <2>4. /\ editVersion' \in Nat /\ editVersion' <= MaxEdits + 1
        /\ debounceTimer' \in {0, editVersion'}
        /\ defaultProgram' \in {EmptyProgram, DefaultProgram}
    BY <1>1, <2>1
  <2> QED  BY <2>2, <2>3, <2>4 DEF Texts
<1>4. Tracking'
  BY <1>1, VersionGrows
<1>5. Announced' /\ Engine'
  BY <1>1, <1>2 DEF Inductive, Announced, Engine, worker
<1>6. Shown'
  BY <1>1 DEF Inductive, Shown, StatusHonest
<1> QED  BY <1>2, <1>3, <1>4, <1>5, <1>6 DEF Inductive

\* News of a failed engine changes the status and no text.
LEMMA HandleEngineErrorStep ==
  ASSUME Inductive, HandleEngineError
  PROVE  Inductive'
<1>1. /\ toPage # <<>> /\ toPage' = Tail(toPage)
      /\ engineFailed' = TRUE /\ status' = "failed"
      /\ UNCHANGED <<editors, defaultProgram, workerReady, queue, tracking, strip,
                     toWorker, worker>>
  BY DEF HandleEngineError, Arrived
<1>2. /\ Channels'
      /\ \A i, j \in DOMAIN toPage' :
           toPage'[i].type = "ready" /\ toPage'[j].type = "ready" => i = j
      /\ \A i \in DOMAIN toPage' : toPage'[i].type = "ready" =>
           \E j \in DOMAIN toPage : toPage[j].type = "ready"
  BY <1>1, Received DEF tracking, worker
<1>3. Texts' /\ Tracking'
  BY <1>1 DEF Inductive, Texts, Tracking, tracking, editors, queue
<1>4. Announced' /\ Engine'
  BY <1>1, <1>2 DEF Inductive, Announced, Engine, worker, queue
<1>5. Shown'
  BY <1>1 DEF Inductive, Shown, StatusHonest
<1> QED  BY <1>2, <1>3, <1>4, <1>5 DEF Inductive

\* An answer that is current answers for the editors as they are.
LEMMA HandleResponseStep ==
  ASSUME Inductive, HandleResponse
  PROVE  Inductive'
<1> DEFINE message == Head(toPage)
<1>1. /\ toPage # <<>> /\ message.type \in {"result", "error"}
      /\ toPage' = Tail(toPage)
      /\ requests' = [x \in DOMAIN requests \ {message.id} |-> requests[x]]
      /\ UNCHANGED <<editors, engine, queue, nextRequestId, latestRequestId,
                     posted, toWorker, worker>>
      /\ \/ UNCHANGED shown
         \/ Current(message.id) /\ message.type = "error"
              /\ status' = "error" /\ UNCHANGED strip
         \/ /\ Current(message.id) /\ message.type = "result"
            /\ status' = "shown"
            /\ strip' = [of |-> requests[message.id].source,
                         tokens |-> message.result.tokens,
                         realizability |-> message.result.realizability]
  BY DEF HandleResponse, Arrived
<1>2. /\ OwnMessage(posted, message) /\ Channels'
      /\ \A i, j \in DOMAIN toPage' :
           toPage'[i].type = "ready" /\ toPage'[j].type = "ready" => i = j
      /\ \A i \in DOMAIN toPage' : toPage'[i].type = "ready" =>
           \E j \in DOMAIN toPage : toPage[j].type = "ready"
  BY <1>1, Received DEF worker
<1> HIDE DEF message
<1>3. Texts' /\ Tracking'
  BY <1>1 DEF Inductive, Texts, Tracking, editors, engine, queue
<1>4. Announced' /\ Engine'
  BY <1>1, <1>2 DEF Inductive, Announced, Engine, engine, worker, queue
<1>5. ASSUME Current(message.id)
      PROVE  /\ Owed(posted, message.id) = Fresh(program, text)
             /\ requests[message.id].source = text
             /\ text \in Sources
             /\ message.id = latestRequestId /\ latestRequestId # 0
             /\ posted[latestRequestId].version = editVersion
             /\ posted[latestRequestId].program = program
             /\ posted[latestRequestId].source = text
             /\ debounceTimer = 0
  BY <1>5 DEF Current, Owed, Inductive, Texts, Tracking
<1>6. UNCHANGED <<program, text, engineFailed, editVersion, debounceTimer, posted,
                  latestRequestId>>
  BY <1>1 DEF editors, engine, queue
<1>7. Shown'
  <2>1. CASE UNCHANGED shown
    BY <1>6, <2>1 DEF Inductive, Shown, StatusHonest, shown
  <2>2. CASE /\ Current(message.id) /\ message.type = "error"
             /\ status' = "error" /\ UNCHANGED strip
    <3>1. Fresh(program, text) = Failure
      BY <1>2, <1>5, <2>2 DEF OwnMessage
    <3> QED  BY <1>5, <1>6, <2>2, <3>1 DEF Inductive, Shown, StatusHonest
  <2>3. CASE /\ Current(message.id) /\ message.type = "result"
             /\ status' = "shown"
             /\ strip' = [of |-> requests[message.id].source,
                          tokens |-> message.result.tokens,
                          realizability |-> message.result.realizability]
    <3> DEFINE answer == Fresh(program, text)
    <3>1. message.result = answer /\ answer # Failure
      BY <1>2, <1>5, <2>3 DEF OwnMessage
    <3>2. /\ answer = [ok |-> TRUE, tokens |-> answer.tokens,
                       realizability |-> answer.realizability]
          /\ \A k \in DOMAIN answer.tokens : answer.tokens[k].end \in Nat
      BY <1>5, <2>3, <3>1, FreshForm
    <3>3. /\ posted'[latestRequestId'].version = editVersion'
          /\ posted'[latestRequestId'].program = program'
          /\ posted'[latestRequestId'].source = text'
          /\ Fresh(program, text)' = answer
          /\ latestRequestId' # 0 /\ debounceTimer' = 0
      BY <1>5, <1>6, <2>3
    <3> HIDE DEF answer
    <3>4. /\ strip'.of = text /\ strip'.tokens = answer.tokens
          /\ strip'.realizability = answer.realizability
      BY <1>5, <2>3, <3>1
    <3>5. StatusHonest'
      BY <2>3, <3>2, <3>3, <3>4 DEF StatusHonest
    <3> QED  BY <1>5, <2>3, <3>2, <3>3, <3>4, <3>5 DEF Shown
  <2> QED  BY <1>1, <2>1, <2>2, <2>3
<1> QED  BY <1>2, <1>3, <1>4, <1>7 DEF Inductive

----------------------------------------------------------------------------
(* The worker.                                                             *)

\* The worker posts a message that is its own and announces nothing.
LEMMA Posted ==
  ASSUME Inductive, NEW m \in Message, OwnMessage(posted, m), m.type # "ready",
         toPage' = Append(toPage, m), phase # "starting",
         UNCHANGED <<engine, queue, posted, phase>>
  PROVE  /\ toPage' \in Seq(Message)
         /\ \A i \in DOMAIN toPage' : OwnMessage(posted, toPage'[i])
         /\ Announced'
<1>1. /\ toPage' \in Seq(Message)
      /\ DOMAIN toPage' = 1 .. Len(toPage) + 1 /\ Len(toPage) \in Nat
      /\ DOMAIN toPage = 1 .. Len(toPage)
      /\ \A i \in 1 .. Len(toPage) : toPage'[i] = toPage[i]
      /\ toPage'[Len(toPage) + 1] = m
  BY Appended DEF Inductive, Channels
<1>2. \A i \in DOMAIN toPage' :
        \/ i \in DOMAIN toPage /\ toPage'[i] = toPage[i]
        \/ toPage'[i] = m
  BY <1>1
<1>3. \A i \in DOMAIN toPage' : OwnMessage(posted, toPage'[i])
  BY <1>2 DEF Inductive, Channels
<1>4. Announced'
  BY <1>2 DEF Inductive, Announced, engine, queue
<1> QED  BY <1>1, <1>3, <1>4

\* The worker takes a request off its queue.
LEMMA Dequeued ==
  ASSUME Inductive, toWorker # <<>>, toWorker' = Tail(toWorker)
  PROVE  /\ OwnQuestion(posted, Head(toWorker))
         /\ Head(toWorker) \in Question
         /\ toWorker' \in Seq(Question)
         /\ \A i \in DOMAIN toWorker' : OwnQuestion(posted, toWorker'[i])
<1>1. toWorker \in Seq(Question)
  BY DEF Inductive, Channels
<1> QED  BY <1>1, Taken DEF Inductive, Channels

\* The worker starts: it announces itself, or reports why it cannot.
LEMMA InitializeStep ==
  ASSUME Inductive, InitializeReady \/ InitializeFails
  PROVE  Inductive'
<1>1. PICK m \in News :
        /\ phase = "starting" /\ phase' \in {"ready", "failed"}
        /\ toPage' = Append(toPage, m)
        /\ UNCHANGED <<editors, engine, queue, tracking, shown, toWorker, analyzer,
                       configuredProgram>>
  BY DEF InitializeReady, InitializeFails, News
<1>2. m \in Message /\ OwnMessage(posted, m)
  BY DEF Message, News, OwnMessage
<1>3. /\ toPage' \in Seq(Message)
      /\ DOMAIN toPage' = 1 .. Len(toPage) + 1 /\ Len(toPage) \in Nat
      /\ DOMAIN toPage = 1 .. Len(toPage)
      /\ \A i \in 1 .. Len(toPage) : toPage'[i] = toPage[i]
      /\ toPage'[Len(toPage) + 1] = m
  BY <1>1, <1>2, Appended DEF Inductive, Channels
<1>4. \A i \in DOMAIN toPage' :
        \/ i \in DOMAIN toPage /\ toPage'[i] = toPage[i]
        \/ i = Len(toPage) + 1 /\ toPage'[i] = m
  BY <1>3
<1>5. Channels'
  BY <1>1, <1>2, <1>3, <1>4 DEF Inductive, Channels, tracking
<1>6. Announced'
  BY <1>1, <1>4 DEF Inductive, Announced, engine, queue
<1>7. Texts' /\ Tracking'
  BY <1>1 DEF Inductive, Texts, Tracking, editors, engine, queue, tracking
<1>8. Engine' /\ Shown'
  BY <1>1 DEF Inductive, Engine, Shown, StatusHonest, editors, engine, queue, tracking,
              shown
<1> QED  BY <1>5, <1>6, <1>7, <1>8 DEF Inductive

\* `configureAnalyzer` leaves an analyzer of the program asked for, in step, or
\* refuses a program that nothing is owed for.
LEMMA ConfiguredInStep ==
  ASSUME Inductive, NEW p \in Programs
  PROVE  LET c == Configured(p)
         IN /\ c.accepted \in BOOLEAN
            /\ c.accepted =>
                 /\ p \in Valid /\ c.program = p
                 /\ c.analyzer = MadeAnalyzer(p, c.analyzer.session)
                 /\ c.analyzer.session \in Kept
                 /\ InStep(p, c.analyzer.session)
            /\ ~c.accepted =>
                 /\ p \notin Valid
                 /\ c.program = configuredProgram /\ c.analyzer = analyzer
<1>1. CASE analyzer.made /\ p = configuredProgram
  <2>1. Configured(p) = [accepted |-> TRUE, analyzer |-> analyzer, program |-> p]
    BY <1>1 DEF Configured
  <2> QED  BY <1>1, <2>1 DEF Inductive, Engine, InGear
<1>2. CASE ~(analyzer.made /\ p = configuredProgram) /\ p \in Valid
  <2> DEFINE new == MadeAnalyzer(p, NewSession(p))
  <2>1. Configured(p) = [accepted |-> TRUE, analyzer |-> new, program |-> p]
    BY <1>2 DEF Configured
  <2>2. new.session = NewSession(p) /\ new = MadeAnalyzer(p, new.session)
    BY DEF MadeAnalyzer
  <2>3. NewSession(p) \in Kept /\ InStep(p, NewSession(p))
    BY <1>2, NewInStep DEF Kept
  <2> HIDE DEF new
  <2> QED  BY <1>2, <2>1, <2>2, <2>3
<1>3. CASE ~(analyzer.made /\ p = configuredProgram) /\ p \notin Valid
  <2>1. Configured(p) = [accepted |-> FALSE, analyzer |-> analyzer,
                         program |-> configuredProgram]
    BY <1>3 DEF Configured
  <2> QED  BY <1>3, <2>1
<1> QED  BY <1>1, <1>2, <1>3

\* An analyzer made for a program, with a session in step, is in gear.
LEMMA MadeInGear ==
  ASSUME NEW p \in Valid, NEW s \in Kept, InStep(p, s)
  PROVE  InGear(MadeAnalyzer(p, s), p)
<1> DEFINE a == MadeAnalyzer(p, s)
<1>1. a.program = p /\ a.session = s
  BY DEF MadeAnalyzer
<1> HIDE DEF a
<1>2. InGear(a, p)
  BY <1>1 DEF a, InGear
<1> QED  BY <1>2 DEF a

\* The two steps of the `try` answer as a fresh analyzer would, and leave the
\* worker in gear after each of them.
LEMMA HandledInGear ==
  ASSUME Inductive, NEW message \in Question
  PROVE  LET c == Configured(message.program)
             h == Handled(message)
         IN /\ h.answer = Fresh(message.program, message.source)
            /\ InGear(c.analyzer, c.program)
            /\ InGear(h.analyzer, h.program)
<1> DEFINE c == Configured(message.program)
           h == Handled(message)
           result == Analyze(c.analyzer.program, c.analyzer.session, message.source)
<1>1. message.program \in Programs /\ message.source \in Sources
  BY DEF Question
<1>2. h = IF c.accepted
            THEN [analyzer |-> [c.analyzer EXCEPT !.session = result.session],
                  program |-> c.program, answer |-> result.answer]
            ELSE [analyzer |-> analyzer, program |-> configuredProgram,
                  answer |-> Failure]
  BY DEF Handled
<1>3. /\ c.accepted \in BOOLEAN
      /\ c.accepted =>
           /\ message.program \in Valid /\ c.program = message.program
           /\ c.analyzer = MadeAnalyzer(message.program, c.analyzer.session)
           /\ c.analyzer.session \in Kept
           /\ InStep(message.program, c.analyzer.session)
      /\ ~c.accepted =>
           /\ message.program \notin Valid
           /\ c.program = configuredProgram /\ c.analyzer = analyzer
  BY <1>1, ConfiguredInStep
<1> HIDE DEF c, h
<1>4. InGear(analyzer, configuredProgram)
  BY DEF Inductive, Engine
<1>5. CASE c.accepted
  <2>1. c.analyzer.program = message.program
    BY <1>3, <1>5 DEF MadeAnalyzer
  <2>2. result = Analyze(message.program, c.analyzer.session, message.source)
    BY <2>1
  <2>3. /\ result.answer = Fresh(message.program, message.source)
        /\ result.session \in Kept /\ InStep(message.program, result.session)
    BY <1>1, <1>3, <1>5, <2>2, AnalyzeInStep
  <2> HIDE DEF result
  <2>4. \A p, s, r : [MadeAnalyzer(p, s) EXCEPT !.session = r] = MadeAnalyzer(p, r)
    <3>1. \A b, p, s, r :
            [[made |-> b, program |-> p, session |-> s] EXCEPT !.session = r]
              = [made |-> b, program |-> p, session |-> r]
      OBVIOUS
    <3> QED  BY <3>1, Zenon DEF MadeAnalyzer
  <2>5. /\ h.analyzer = [c.analyzer EXCEPT !.session = result.session]
        /\ h.program = message.program /\ h.answer = result.answer
    BY <1>2, <1>3, <1>5
  <2>6. h.analyzer = MadeAnalyzer(message.program, result.session)
    <3> DEFINE s == c.analyzer.session
    <3> HIDE DEF s
    <3>1. c.analyzer = MadeAnalyzer(message.program, s)
      BY <1>3, <1>5 DEF s
    <3> QED  BY <2>4, <2>5, <3>1
  <2>7. InGear(h.analyzer, h.program)
    BY <1>3, <1>5, <2>3, <2>5, <2>6, MadeInGear
  <2>8. InGear(c.analyzer, c.program)
    <3> DEFINE s == c.analyzer.session
    <3> HIDE DEF s
    <3>1. c.analyzer = MadeAnalyzer(message.program, s) /\ s \in Kept
      BY <1>3, <1>5 DEF s
    <3>2. InStep(message.program, s)
      BY <1>3, <1>5 DEF s
    <3> QED  BY <1>3, <1>5, <3>1, <3>2, MadeInGear
  <2> QED  BY <2>3, <2>5, <2>7, <2>8 DEF c, h
<1>6. CASE ~c.accepted
  <2>1. /\ h.analyzer = analyzer /\ h.program = configuredProgram
        /\ h.answer = Failure
    BY <1>2, <1>6
  <2>2. Fresh(message.program, message.source) = Failure
    BY <1>3, <1>6 DEF Fresh
  <2> QED  BY <1>3, <1>4, <1>6, <2>1, <2>2 DEF c, h
<1> QED  BY <1>3, <1>5, <1>6

\* The worker answers the request at the head of its queue, and only that.
LEMMA HandleMessageStep ==
  ASSUME Inductive, HandleMessage
  PROVE  Inductive'
<1> DEFINE message == Head(toWorker)
           h == Handled(message)
           failed == [type |-> "error", id |-> message.id]
           report == [type |-> "result", id |-> message.id, result |-> h.answer]
<1>1. /\ phase = "ready" /\ toWorker # <<>> /\ toWorker' = Tail(toWorker)
      /\ analyzer' = h.analyzer /\ configuredProgram' = h.program
      /\ toPage' = Append(toPage, IF h.answer.ok THEN report ELSE failed)
      /\ UNCHANGED <<editors, engine, queue, tracking, shown, phase>>
  BY DEF HandleMessage, Taking, Leaving
<1>2. /\ OwnQuestion(posted, message) /\ message \in Question
      /\ toWorker' \in Seq(Question)
      /\ \A i \in DOMAIN toWorker' : OwnQuestion(posted, toWorker'[i])
  BY <1>1, Dequeued
<1>3. /\ h.answer = Fresh(message.program, message.source)
      /\ InGear(h.analyzer, h.program)
  BY <1>2, HandledInGear
<1> HIDE DEF message, h
<1>4. /\ message.program \in Programs /\ message.source \in Sources
      /\ message.id \in Nat /\ message.id \in 1 .. Len(posted)
      /\ Owed(posted, message.id) = h.answer
  BY <1>2, <1>3 DEF Question, OwnQuestion, Owed
<1>5. \E m \in Message : /\ OwnMessage(posted, m) /\ m.type # "ready"
                         /\ toPage' = Append(toPage, m)
  <2>1. CASE h.answer.ok
    <3>1. h.answer # Failure
      BY <2>1 DEF Failure
    <3>2. report \in Message
      BY <1>3, <1>4 DEF Message, Result, Answers
    <3>3. OwnMessage(posted, report)
      BY <1>4, <3>1 DEF OwnMessage
    <3>4. toPage' = Append(toPage, report)
      BY <1>1, <2>1
    <3> QED  BY <3>2, <3>3, <3>4
  <2>2. CASE ~h.answer.ok
    <3>1. Owed(posted, message.id) = Failure
      <4>1. Fresh(message.program, message.source) = Failure
              \/ Fresh(message.program, message.source).ok
        BY FreshForm, <1>4
      <4> QED  BY <1>3, <1>4, <2>2, <4>1
    <3>2. failed \in Message
      BY <1>4 DEF Message, Refusal
    <3>3. OwnMessage(posted, failed)
      BY <1>4, <3>1 DEF OwnMessage
    <3>4. toPage' = Append(toPage, failed)
      BY <1>1, <2>2
    <3> QED  BY <3>2, <3>3, <3>4
  <2> QED  BY <2>1, <2>2
<1> HIDE DEF failed, report
<1>6. PICK m \in Message : /\ OwnMessage(posted, m) /\ m.type # "ready"
                           /\ toPage' = Append(toPage, m)
  BY <1>5
<1>7. /\ toPage' \in Seq(Message)
      /\ \A i \in DOMAIN toPage' : OwnMessage(posted, toPage'[i])
      /\ Announced'
  BY <1>1, <1>6, Posted DEF tracking
<1>8. Channels'
  BY <1>1, <1>2, <1>7 DEF Channels, tracking
<1>9. Engine'
  BY <1>1, <1>3 DEF Inductive, Engine
<1>10. Texts' /\ Tracking'
  BY <1>1 DEF Inductive, Texts, Tracking, editors, engine, queue, tracking
<1>11. Shown'
  BY <1>1 DEF Inductive, Shown, StatusHonest, editors, engine, queue, tracking, shown
<1> QED  BY <1>7, <1>8, <1>9, <1>10, <1>11 DEF Inductive

\* What escapes the worker drops the request it was at, and no answer is made up;
\* how far that request came does not show in later answers.
LEMMA EscapeStep ==
  ASSUME Inductive, Escape
  PROVE  Inductive'
<1> DEFINE m == [type |-> "engine-error"]
           message == Head(toWorker)
           c == Configured(message.program)
           h == Handled(message)
<1>1. /\ phase = "ready" /\ toWorker # <<>> /\ toWorker' = Tail(toWorker)
      /\ toPage' = Append(toPage, m)
      /\ \/ UNCHANGED <<analyzer, configuredProgram>>
         \/ analyzer' = c.analyzer /\ configuredProgram' = c.program
         \/ analyzer' = h.analyzer /\ configuredProgram' = h.program
      /\ UNCHANGED <<editors, engine, queue, tracking, shown, phase>>
  BY DEF Escape, Taking, Leaving
<1>2. message \in Question
  BY <1>1, Dequeued
<1>3. InGear(c.analyzer, c.program) /\ InGear(h.analyzer, h.program)
  BY <1>2, HandledInGear
<1> HIDE DEF message, c, h
<1>4. Engine'
  BY <1>1, <1>3 DEF Inductive, Engine
<1>5. m \in Message /\ OwnMessage(posted, m) /\ m.type # "ready"
  BY DEF Message, News, OwnMessage
<1> HIDE DEF m
<1>6. /\ toPage' \in Seq(Message)
      /\ \A i \in DOMAIN toPage' : OwnMessage(posted, toPage'[i])
      /\ Announced'
  BY <1>1, <1>5, Posted DEF tracking
<1>7. Channels'
  BY <1>1, <1>6, Dequeued DEF Channels, tracking
<1>8. Texts' /\ Tracking'
  BY <1>1 DEF Inductive, Texts, Tracking, editors, engine, queue, tracking
<1>9. Shown'
  BY <1>1 DEF Inductive, Shown, StatusHonest, editors, engine, queue, tracking, shown
<1> QED  BY <1>4, <1>6, <1>7, <1>8, <1>9 DEF Inductive

----------------------------------------------------------------------------
(* The theorems.                                                           *)

\* Every step of page, worker and user keeps the invariant.
LEMMA NextStep ==
  ASSUME Inductive, [Next]_vars
  PROVE  Inductive'
<1>1. CASE UNCHANGED vars
  <2>1. UNCHANGED <<editors, engine, queue, tracking, shown, toWorker, toPage, worker>>
    BY <1>1 DEF vars
  <2>2. Texts' /\ Tracking' /\ Channels'
    BY <2>1 DEF Inductive, Texts, Tracking, Channels, editors, engine, queue, tracking
  <2>3. Announced' /\ Engine' /\ Shown'
    BY <2>1 DEF Inductive, Announced, Engine, Shown, StatusHonest, editors, engine,
                queue, tracking, shown, worker
  <2> QED  BY <2>2, <2>3 DEF Inductive
<1>2. CASE Next
  BY <1>2, UserStep, SubmitIdleStep, SubmitStep, HandleReadyStep,
     HandleEngineErrorStep, HandleResponseStep, InitializeStep, HandleMessageStep,
     EscapeStep DEF Next, Page, Worker
<1> QED  BY <1>1, <1>2

\* In every reachable state of the page and its worker the invariant holds.
LEMMA Invariance == Spec => []Inductive
<1>1. Inductive /\ [Next]_vars => Inductive'
  BY NextStep
<1> QED  BY <1>1, InductiveInit, PTL DEF Spec

\* The fields of page and worker hold what they should; no open request lacks
\* its message, and the worker's note of the program is that of its analyzer.
THEOREM TypeCorrect == Spec => []TypeOK
<1>1. Inductive => TypeOK
  <2> SUFFICES ASSUME Inductive PROVE TypeOK
    OBVIOUS
  <2>1. /\ editVersion \in Version
        /\ \A id \in DOMAIN requests : requests[id].version \in Version
    <3>1. editVersion \in Nat /\ editVersion <= MaxEdits + 1 /\ MaxEdits \in Nat
      BY WebAssumption DEF Inductive, Texts
    <3> SUFFICES ASSUME NEW id \in DOMAIN requests
                 PROVE  requests[id].version \in Version
      BY <3>1 DEF Version
    <3>2. id \in 1 .. Len(posted) /\ posted \in Seq(Asked)
      BY DEF Inductive, Tracking
    <3>3. posted[id] \in Asked
      BY <3>2
    <3>4. /\ posted[id].version \in Nat /\ posted[id].version <= editVersion
          /\ requests[id].version = posted[id].version
      BY <3>2, <3>3 DEF Asked, Inductive, Tracking
    <3> QED  BY <3>1, <3>4 DEF Version
  <2>2. DOMAIN posted = 1 .. Len(posted)
    BY DEF Inductive, Tracking
  <2>3. \A i \in DOMAIN toWorker : toWorker[i].id \in DOMAIN posted
    BY <2>2 DEF Inductive, Channels, OwnQuestion
  <2> QED  BY <2>1, <2>2, <2>3 DEF Inductive, Texts, Tracking, Engine, InGear, Shown, TypeOK
<1> QED  BY <1>1, Invariance, PTL

\* However its analyzer was used before, the worker answers each request as a
\* fresh analyzer would, and no answer goes to another request.
THEOREM AnswersAreOwn == Spec => []AnswersOwn
<1>1. Inductive => AnswersOwn
  BY DEF Inductive, Channels, OwnMessage, Owed, AnswersOwn
<1> QED  BY <1>1, Invariance, PTL

\* What the page shows is always the whole answer to its latest request, also
\* after failures; and that request asked for what the editors hold, unless the
\* engine has failed and an edit was made since.
THEOREM StatusIsHonest == Spec => []StatusHonest
<1>1. Inductive => StatusHonest
  BY DEF Inductive, Shown
<1> QED  BY <1>1, Invariance, PTL
=============================================================================
