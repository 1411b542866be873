--------------------------- MODULE AnalyzerProofs ---------------------------
(***************************************************************************)
(* The analyzer implements its contract for every lexer, every set of      *)
(* programs and every behaviour of the monitor: what one call does to a    *)
(* session that is in step, which the proofs about the demo (WebProofs)    *)
(* use as well, then any sequence of calls.                                *)
(***************************************************************************)
EXTENDS AnalyzerCalls, SequenceTheorems, TLAPS

Token == [lexeme : Lexemes, end : Nat]
CachedToken == [lexeme : Lexemes, end : Nat, verdict : Valid \X Seq(Lexemes)]

Kept == {NoSession} \cup Session

----------------------------------------------------------------------------
(* Lexemes of a sequence of tokens.                                        *)

\* The first lexemes of a sequence of tokens are a sequence of lexemes.
LEMMA PrefixType ==
  ASSUME NEW tokens, NEW n \in Nat, NEW k \in 0 .. n,
         \A i \in 1 .. n : tokens[i].lexeme \in Lexemes
  PROVE  /\ Prefix(tokens, k) \in Seq(Lexemes)
         /\ Len(Prefix(tokens, k)) = k
         /\ \A i \in 1 .. k : Prefix(tokens, k)[i] = tokens[i].lexeme
<1>1. Prefix(tokens, k) \in [1 .. k -> Lexemes]
  BY DEF Prefix
<1> QED  BY <1>1 DEF Prefix

\* A source that lexes has well-formed tokens.
LEMMA LexedType ==
  ASSUME NEW source \in Sources
  PROVE  /\ Lexed[source].tokens \in Seq(Token)
         /\ Lexed[source].ok \in BOOLEAN
BY AnalyzerAssumption DEF Token

\* The cached session of an invariant state.
LEMMA OpenSessionType ==
  ASSUME NEW p \in Valid, NEW s \in Kept, InStep(p, s), s.open
  PROVE  s \in Session
BY DEF Kept, NoSession

----------------------------------------------------------------------------
(* The session to push into.                                               *)

FreshStart(p, tokens, start) ==
  /\ start.program = p
  /\ Len(start.tokens) \in 0 .. Len(tokens)
  /\ start.tokens \in Seq(CachedToken)
  /\ start.pushed = Prefix(tokens, Len(start.tokens))
  /\ \A k \in DOMAIN start.tokens :
       /\ start.tokens[k] = [lexeme |-> tokens[k].lexeme, end |-> tokens[k].end,
                             verdict |-> Verdict(p, Prefix(tokens, k))]
       /\ <<p, Prefix(tokens, k)>> \notin Refused

\* It is in step, cached or fresh, and its tokens are the first of the new ones
\* where those stand.
LEMMA StartingInStep ==
  ASSUME NEW p \in Valid, NEW s \in Kept, InStep(p, s), NEW tokens \in Seq(Token)
  PROVE  FreshStart(p, tokens, Starting(p, s, tokens))
<1> DEFINE start == Starting(p, s, tokens)
<1>1. CASE ~Reusable(s, tokens)
  <2>1. start = [open |-> TRUE, program |-> p,
                 pushed |-> <<>>, tokens |-> <<>>]
    BY <1>1 DEF Starting, NewSession, OpenSession
  <2>2. Prefix(tokens, 0) = <<>>
    BY DEF Prefix
  <2> QED  BY <2>1, <2>2 DEF FreshStart
<1>2. CASE Reusable(s, tokens)
  <2> DEFINE cached == s.tokens
             moved == [k \in DOMAIN cached |->
                         [cached[k] EXCEPT !.end = tokens[k].end]]
  <2>1. s \in Session
    BY <1>2, OpenSessionType DEF Reusable
  <2>2. /\ cached \in Seq(CachedToken)
        /\ s = [open |-> TRUE, program |-> s.program,
                      pushed |-> s.pushed, tokens |-> cached]
    BY <2>1 DEF Session, CachedToken
  <2>3. start = [open |-> TRUE, program |-> s.program,
                 pushed |-> s.pushed, tokens |-> moved]
    BY <1>2 DEF Starting, OpenSession
  <2>4. /\ Len(cached) \in Nat /\ DOMAIN cached = 1 .. Len(cached)
        /\ Len(tokens) \in Nat /\ DOMAIN tokens = 1 .. Len(tokens)
        /\ Len(cached) <= Len(tokens)
        /\ \A k \in DOMAIN cached : cached[k] \in CachedToken
        /\ \A k \in DOMAIN tokens : tokens[k] \in Token
    BY <1>2, <2>2 DEF Reusable, Extends
  <2>5. \A k \in DOMAIN cached : cached[k].lexeme = tokens[k].lexeme
    BY <1>2 DEF Reusable, Extends
  <2>6. \A k \in 0 .. Len(cached) : Prefix(cached, k) = Prefix(tokens, k)
    BY <2>4, <2>5 DEF Prefix
  <2>7. /\ s.program = p
        /\ s.pushed = Prefix(cached, Len(cached))
        /\ \A k \in DOMAIN cached :
             /\ cached[k].verdict = Verdict(p, Prefix(cached, k))
             /\ <<p, Prefix(cached, k)>> \notin Refused
    BY <1>2 DEF Reusable, InStep
  <2>8. \A k \in DOMAIN cached :
          moved[k] = [lexeme |-> tokens[k].lexeme, end |-> tokens[k].end,
                      verdict |-> Verdict(p, Prefix(tokens, k))]
    <3> TAKE k \in DOMAIN cached
    <3>1. cached[k] = [lexeme |-> cached[k].lexeme, end |-> cached[k].end,
                       verdict |-> cached[k].verdict]
      BY <2>4 DEF CachedToken
    <3>2. moved[k] = [lexeme |-> cached[k].lexeme, end |-> tokens[k].end,
                      verdict |-> cached[k].verdict]
      BY <3>1
    <3>3. cached[k].lexeme = tokens[k].lexeme
      BY <2>5
    <3>4. Prefix(cached, k) = Prefix(tokens, k)
      BY <2>4, <2>6
    <3>5. cached[k].verdict = Verdict(p, Prefix(tokens, k))
      BY <2>7, <3>4
    <3> QED  BY <3>2, <3>3, <3>5
  <2>9. moved \in Seq(CachedToken) /\ Len(moved) = Len(cached)
    <3>1. \A k \in DOMAIN cached : moved[k] \in CachedToken
      <4> TAKE k \in DOMAIN cached
      <4>1. cached[k].verdict \in Valid \X Seq(Lexemes) /\ tokens[k] \in Token
        BY <2>4 DEF CachedToken
      <4>2. Verdict(p, Prefix(tokens, k)) \in Valid \X Seq(Lexemes)
        <5>1. Prefix(cached, k) = Prefix(tokens, k)
          BY <2>4, <2>6
        <5>2. cached[k].verdict = Verdict(p, Prefix(tokens, k))
          BY <2>7, <5>1
        <5> QED  BY <4>1, <5>2
      <4>3. \A x \in Lexemes : \A y \in Nat : \A z \in Valid \X Seq(Lexemes) :
              [lexeme |-> x, end |-> y, verdict |-> z] \in CachedToken
        BY DEF CachedToken
      <4>4. tokens[k].lexeme \in Lexemes /\ tokens[k].end \in Nat
        BY <4>1 DEF Token
      <4> HIDE DEF moved, cached
      <4>5. [lexeme |-> tokens[k].lexeme, end |-> tokens[k].end,
             verdict |-> Verdict(p, Prefix(tokens, k))] \in CachedToken
        BY <4>2, <4>3, <4>4
      <4> QED  BY <2>8, <4>5
    <3>2. moved \in [1 .. Len(cached) -> CachedToken]
      BY <2>4, <3>1
    <3> HIDE DEF moved
    <3> QED  BY <2>4, <3>2
  <2> HIDE DEF moved, cached
  <2>10. start.tokens = moved /\ start.pushed = s.pushed
    BY <2>3
  <2>11. start.program = p
    BY <2>3, <2>7
  <2>12. DOMAIN moved = DOMAIN cached
    BY <2>4, <2>9
  <2>13. /\ Len(start.tokens) \in 0 .. Len(tokens)
         /\ start.tokens \in Seq(CachedToken)
         /\ start.pushed = Prefix(tokens, Len(start.tokens))
    BY <2>4, <2>6, <2>7, <2>9, <2>10
  <2>14. \A k \in DOMAIN start.tokens :
           /\ start.tokens[k] = [lexeme |-> tokens[k].lexeme,
                                 end |-> tokens[k].end,
                                 verdict |-> Verdict(p, Prefix(tokens, k))]
           /\ <<p, Prefix(tokens, k)>> \notin Refused
    BY <2>4, <2>6, <2>7, <2>8, <2>10, <2>12
  <2> QED  BY <2>11, <2>13, <2>14 DEF FreshStart
<1> QED  BY <1>1, <1>2

----------------------------------------------------------------------------
(* Pushing the rest.                                                       *)

\* What the monitor has been given is always a prefix of the tokens.
LEMMA PushedPrefix ==
  ASSUME NEW tokens \in Seq(Token), NEW start,
         Len(start.tokens) \in 0 .. Len(tokens),
         start.pushed = Prefix(tokens, Len(start.tokens)),
         NEW k \in Len(start.tokens) .. Len(tokens)
  PROVE  PushedUpTo(start, tokens, k) = Prefix(tokens, k)
<1> DEFINE n == Len(start.tokens)
           rest == [i \in 1 .. (k - n) |-> tokens[n + i].lexeme]
<1>1. /\ Len(tokens) \in Nat /\ DOMAIN tokens = 1 .. Len(tokens)
      /\ n \in Nat /\ k \in Nat /\ n <= k /\ k <= Len(tokens)
      /\ \A i \in 1 .. Len(tokens) : tokens[i].lexeme \in Lexemes
  <2>1. \A i \in 1 .. Len(tokens) : tokens[i] \in Token
    OBVIOUS
  <2>2. \A i \in 1 .. Len(tokens) : tokens[i].lexeme \in Lexemes
    BY <2>1 DEF Token
  <2> QED  BY <2>2
<1>2. /\ Prefix(tokens, n) \in Seq(Lexemes) /\ Len(Prefix(tokens, n)) = n
      /\ \A i \in 1 .. n : Prefix(tokens, n)[i] = tokens[i].lexeme
  BY <1>1, PrefixType
<1>3. /\ Prefix(tokens, k) \in Seq(Lexemes) /\ Len(Prefix(tokens, k)) = k
      /\ \A i \in 1 .. k : Prefix(tokens, k)[i] = tokens[i].lexeme
  <2>1. k \in 0 .. Len(tokens)
    BY <1>1
  <2> QED  BY <1>1, <2>1, PrefixType
<1>4. /\ rest \in Seq(Lexemes) /\ Len(rest) = k - n
      /\ \A i \in 1 .. (k - n) : rest[i] = tokens[n + i].lexeme
  <2>1. k - n \in Nat
    BY <1>1
  <2>2. \A i \in 1 .. (k - n) : tokens[n + i].lexeme \in Lexemes
    BY <1>1
  <2>3. rest \in [1 .. (k - n) -> Lexemes]
    BY <2>2
  <2>4. \A i \in 1 .. (k - n) : rest[i] = tokens[n + i].lexeme
    OBVIOUS
  <2> HIDE DEF rest
  <2>5. \A l \in Nat : \A f \in [1 .. l -> Lexemes] :
          f \in Seq(Lexemes) /\ Len(f) = l
    OBVIOUS
  <2> QED  BY <2>1, <2>3, <2>4, <2>5
<1>5. PushedUpTo(start, tokens, k) = Prefix(tokens, n) \o rest
  BY DEF PushedUpTo
<1> HIDE DEF n, rest
<1>6. /\ Prefix(tokens, n) \o rest \in Seq(Lexemes)
      /\ Len(Prefix(tokens, n) \o rest) = n + (k - n)
      /\ \A i \in 1 .. n + (k - n) : (Prefix(tokens, n) \o rest)[i] =
           IF i <= n THEN Prefix(tokens, n)[i] ELSE rest[i - n]
  <2>1. \A s, t \in Seq(Lexemes) :
          /\ s \o t \in Seq(Lexemes)
          /\ Len(s \o t) = Len(s) + Len(t)
          /\ \A i \in 1 .. Len(s) + Len(t) :
               (s \o t)[i] = IF i <= Len(s) THEN s[i] ELSE t[i - Len(s)]
    BY ConcatProperties
  <2>2. /\ Prefix(tokens, n) \o rest \in Seq(Lexemes)
        /\ Len(Prefix(tokens, n) \o rest) = Len(Prefix(tokens, n)) + Len(rest)
        /\ \A i \in 1 .. Len(Prefix(tokens, n)) + Len(rest) :
             (Prefix(tokens, n) \o rest)[i] =
               IF i <= Len(Prefix(tokens, n)) THEN Prefix(tokens, n)[i]
               ELSE rest[i - Len(Prefix(tokens, n))]
    BY <1>2, <1>4, <2>1
  <2>3. Len(Prefix(tokens, n)) = n /\ Len(rest) = k - n
    BY <1>2, <1>4
  <2> QED  BY <2>2, <2>3
<1>7. \A i \in 1 .. k : (Prefix(tokens, n) \o rest)[i] = Prefix(tokens, k)[i]
  <2> TAKE i \in 1 .. k
  <2>1. CASE i <= n
    <3>1. i \in 1 .. n /\ i \in 1 .. n + (k - n)
      BY <1>1, <2>1
    <3>2. (Prefix(tokens, n) \o rest)[i] = Prefix(tokens, n)[i]
      BY <1>6, <2>1, <3>1
    <3> QED  BY <1>2, <1>3, <3>1, <3>2
  <2>2. CASE i > n
    <3>1. i - n \in 1 .. (k - n) /\ n + (i - n) = i
      BY <1>1, <2>2
    <3>2. (Prefix(tokens, n) \o rest)[i] = rest[i - n]
      BY <1>1, <1>6, <2>2
    <3> QED  BY <1>3, <1>4, <3>1, <3>2
  <2>3. i <= n \/ i > n
    BY <1>1
  <2> QED  BY <2>1, <2>2, <2>3
<1>8. Len(Prefix(tokens, n) \o rest) = Len(Prefix(tokens, k))
  BY <1>1, <1>3, <1>6
<1> QED  BY <1>3, <1>5, <1>6, <1>7, <1>8, SeqEqual

\* A push fails exactly if some prefix of all the tokens is refused: what the
\* cached session has already been through cannot fail.
LEMMA FailureFresh ==
  ASSUME NEW p \in Valid, NEW s \in Kept, InStep(p, s), NEW tokens \in Seq(Token)
  PROVE  PushFails(Starting(p, s, tokens), tokens)
           <=> \E k \in DOMAIN tokens : <<p, Prefix(tokens, k)>> \in Refused
<1> DEFINE start == Starting(p, s, tokens)
           n == Len(start.tokens)
<1>0. FreshStart(p, tokens, start)
  BY StartingInStep
<1>1. /\ start.program = p /\ n \in 0 .. Len(tokens)
      /\ start.pushed = Prefix(tokens, n)
      /\ start.tokens \in Seq(CachedToken)
      /\ \A k \in DOMAIN start.tokens : <<p, Prefix(tokens, k)>> \notin Refused
  BY <1>0 DEF FreshStart
<1> HIDE DEF start
<1>2. /\ DOMAIN tokens = 1 .. Len(tokens) /\ Len(tokens) \in Nat
      /\ DOMAIN start.tokens = 1 .. n /\ n \in Nat
  BY <1>1
<1>3. \A k \in (n + 1) .. Len(tokens) :
        PushedUpTo(start, tokens, k) = Prefix(tokens, k)
  BY <1>1, <1>2, PushedPrefix
<1>4. \A k \in 1 .. Len(tokens) : k \in 1 .. n \/ k \in (n + 1) .. Len(tokens)
  BY <1>2
<1> HIDE DEF n
<1>5. PushFails(start, tokens) <=>
        \E k \in (n + 1) .. Len(tokens) :
          <<start.program, PushedUpTo(start, tokens, k)>> \in Refused
  BY DEF PushFails, n
<1>6. (n + 1) .. Len(tokens) \subseteq 1 .. Len(tokens)
  BY <1>2
<1> QED  BY <1>1, <1>2, <1>3, <1>4, <1>5, <1>6 DEF start

\* After the pushes the trace is that of a fresh analysis.
LEMMA PushedFresh ==
  ASSUME NEW p \in Valid, NEW s \in Kept, InStep(p, s), NEW tokens \in Seq(Token)
  PROVE  LET pushed == PushAll(Starting(p, s, tokens), tokens) IN
         /\ pushed = [open |-> TRUE, program |-> p,
                      pushed |-> Prefix(tokens, Len(tokens)),
                      tokens |-> [k \in DOMAIN tokens |->
                        [lexeme |-> tokens[k].lexeme, end |-> tokens[k].end,
                         verdict |-> Verdict(p, Prefix(tokens, k))]]]
<1> DEFINE start == Starting(p, s, tokens)
           n == Len(start.tokens)
           Cached(k) == [lexeme |-> tokens[k].lexeme, end |-> tokens[k].end,
                         verdict |-> Verdict(p, Prefix(tokens, k))]
<1>0. FreshStart(p, tokens, start)
  BY StartingInStep
<1>1. /\ start.program = p
      /\ n \in 0 .. Len(tokens)
      /\ start.pushed = Prefix(tokens, n)
      /\ start.tokens \in Seq(CachedToken)
      /\ \A k \in DOMAIN start.tokens : start.tokens[k] = Cached(k)
  BY <1>0 DEF FreshStart
<1> HIDE DEF start
<1>2. /\ DOMAIN tokens = 1 .. Len(tokens) /\ Len(tokens) \in Nat
      /\ DOMAIN start.tokens = 1 .. n /\ n \in Nat
  BY <1>1
<1>3. \A k \in n .. Len(tokens) : PushedUpTo(start, tokens, k) = Prefix(tokens, k)
  BY <1>1, PushedPrefix
<1>4. Len(tokens) \in n .. Len(tokens)
  BY <1>1, <1>2
<1>5. \A k \in DOMAIN tokens :
        (IF k \in DOMAIN start.tokens THEN start.tokens[k]
         ELSE [lexeme |-> tokens[k].lexeme, end |-> tokens[k].end,
               verdict |-> Verdict(start.program, PushedUpTo(start, tokens, k))])
          = Cached(k)
  <2> TAKE k \in DOMAIN tokens
  <2>1. CASE k \in DOMAIN start.tokens
    BY <1>1, <2>1
  <2>2. CASE k \notin DOMAIN start.tokens
    <3>1. k \in n .. Len(tokens)
      BY <1>2, <2>2
    <3>2. start.program = p /\ PushedUpTo(start, tokens, k) = Prefix(tokens, k)
      BY <1>1, <1>3, <3>1
    <3> QED  BY <2>2, <3>2
  <2> QED  BY <2>1, <2>2
<1>6. PushAll(start, tokens) =
        [open |-> TRUE, program |-> p,
         pushed |-> PushedUpTo(start, tokens, Len(tokens)),
         tokens |-> [k \in DOMAIN tokens |-> Cached(k)]]
  <2>1. [k \in DOMAIN tokens |->
           IF k \in DOMAIN start.tokens THEN start.tokens[k]
           ELSE [lexeme |-> tokens[k].lexeme, end |-> tokens[k].end,
                 verdict |-> Verdict(start.program, PushedUpTo(start, tokens, k))]]
          = [k \in DOMAIN tokens |-> Cached(k)]
    BY <1>5
  <2> HIDE DEF Cached
  <2> QED  BY <1>1, <2>1 DEF PushAll, OpenSession
<1>7. PushedUpTo(start, tokens, Len(tokens)) = Prefix(tokens, Len(tokens))
  BY <1>3, <1>4
<1> QED  BY <1>6, <1>7 DEF start

----------------------------------------------------------------------------
(* The invariant.                                                          *)

\* A call of `analyze` answers as a fresh analyzer and leaves a session in step.
LEMMA AnalyzeFresh ==
  ASSUME NEW p \in Valid, NEW s \in Kept, InStep(p, s), NEW source \in Sources
  PROVE  LET result == Analyze(p, s, source)
             tokens == Lexed[source].tokens
         IN /\ result.answer = Fresh(p, source)
            /\ \/ result.session = s
               \/ result.session = NoSession
               \/ /\ result.session = PushAll(Starting(p, s, tokens), tokens)
                  /\ \A k \in DOMAIN tokens :
                       <<p, Prefix(tokens, k)>> \notin Refused
<1> DEFINE tokens == Lexed[source].tokens
           start == Starting(p, s, tokens)
           trace == [k \in DOMAIN tokens |->
                       [lexeme |-> tokens[k].lexeme, end |-> tokens[k].end,
                        verdict |-> Verdict(p, Prefix(tokens, k))]]
<1>1. tokens \in Seq(Token) /\ p \in Valid
  BY LexedType
<1> HIDE DEF tokens
<1>2. PushFails(start, tokens)
        <=> \E k \in DOMAIN tokens : <<p, Prefix(tokens, k)>> \in Refused
  BY <1>1, FailureFresh
<1>3. PushAll(start, tokens) =
        [open |-> TRUE, program |-> p,
         pushed |-> Prefix(tokens, Len(tokens)), tokens |-> trace]
  BY <1>1, PushedFresh
<1>4. Report(PushAll(start, tokens)) =
        [ok |-> TRUE, tokens |-> trace,
         realizability |-> Verdict(p, Prefix(tokens, Len(tokens)))]
  <2>1. DOMAIN trace = DOMAIN tokens /\ DOMAIN tokens = 1 .. Len(tokens)
        /\ Len(tokens) \in Nat
    BY <1>1
  <2>2. Len(trace) = Len(tokens)
    BY <2>1
  <2>3. CASE tokens = <<>>
    <3>1. trace = <<>>
      BY <2>1, <2>3
    <3> QED  BY <1>3, <3>1 DEF Report
  <2>4. CASE tokens # <<>>
    <3>1. Len(tokens) \in DOMAIN tokens
      BY <1>1, <2>1, <2>4
    <3>2. trace[Len(tokens)].verdict = Verdict(p, Prefix(tokens, Len(tokens)))
      BY <3>1
    <3>3. trace # <<>>
      BY <2>1, <3>1
    <3> HIDE DEF trace
    <3>4. PushAll(start, tokens).tokens = trace
      BY <1>3
    <3> QED  BY <2>2, <3>2, <3>3, <3>4 DEF Report
  <2> QED  BY <2>3, <2>4
<1> QED  BY <1>1, <1>2, <1>4 DEF Analyze, Fresh, tokens

\* What the pushes leave is a session in step.
LEMMA PushedInStep ==
  ASSUME NEW p \in Valid, NEW s \in Kept, InStep(p, s), NEW tokens \in Seq(Token),
         \A k \in DOMAIN tokens : <<p, Prefix(tokens, k)>> \notin Refused
  PROVE  LET pushed == PushAll(Starting(p, s, tokens), tokens)
         IN pushed \in Session /\ InStep(p, pushed)
<1> DEFINE pushed == PushAll(Starting(p, s, tokens), tokens)
           trace == [k \in DOMAIN tokens |->
                       [lexeme |-> tokens[k].lexeme, end |-> tokens[k].end,
                        verdict |-> Verdict(p, Prefix(tokens, k))]]
<1>1. pushed = [open |-> TRUE, program |-> p,
                  pushed |-> Prefix(tokens, Len(tokens)), tokens |-> trace]
  BY PushedFresh
<1>2. /\ DOMAIN tokens = 1 .. Len(tokens) /\ Len(tokens) \in Nat
      /\ \A k \in DOMAIN tokens : tokens[k].lexeme \in Lexemes /\ tokens[k].end \in Nat
      /\ p \in Valid
  <2>1. \A k \in DOMAIN tokens : tokens[k] \in Token
    OBVIOUS
  <2>2. \A k \in DOMAIN tokens : tokens[k].lexeme \in Lexemes /\ tokens[k].end \in Nat
    BY <2>1 DEF Token
  <2> QED  BY <2>2
<1>3. \A k \in 0 .. Len(tokens) : Prefix(tokens, k) \in Seq(Lexemes)
  BY <1>2, PrefixType
<1>4. \A k \in 0 .. Len(tokens) : Prefix(trace, k) = Prefix(tokens, k)
  BY <1>2 DEF Prefix
<1>5. \A k \in DOMAIN tokens :
        trace[k].verdict = Verdict(p, Prefix(tokens, k))
  OBVIOUS
<1>6. trace \in [1 .. Len(tokens) -> CachedToken]
  <2>1. \A x \in Lexemes : \A y \in Nat : \A z \in Valid \X Seq(Lexemes) :
          [lexeme |-> x, end |-> y, verdict |-> z] \in CachedToken
    BY DEF CachedToken
  <2>2. \A k \in DOMAIN tokens :
          Verdict(p, Prefix(tokens, k)) \in Valid \X Seq(Lexemes)
    BY <1>2, <1>3 DEF Verdict
  <2>3. \A k \in DOMAIN tokens :
          [lexeme |-> tokens[k].lexeme, end |-> tokens[k].end,
           verdict |-> Verdict(p, Prefix(tokens, k))] \in CachedToken
    BY <1>2, <2>1, <2>2
  <2> QED  BY <1>2, <2>3
<1> HIDE DEF trace, pushed
<1>7. trace \in Seq(CachedToken) /\ Len(trace) = Len(tokens)
      /\ DOMAIN trace = DOMAIN tokens
  BY <1>2, <1>6
<1>8. pushed \in Session
  <2>1. Prefix(tokens, Len(tokens)) \in Seq(Lexemes)
    BY <1>2, <1>3
  <2> QED  BY <1>1, <1>2, <1>7, <2>1 DEF Session, CachedToken
<1>9. /\ pushed.program = p
      /\ pushed.pushed = Prefix(tokens, Len(tokens))
      /\ pushed.tokens = trace
  BY <1>1
<1>10. Prefix(trace, Len(trace)) = Prefix(tokens, Len(tokens))
  BY <1>2, <1>4, <1>7
<1>11. \A k \in DOMAIN trace :
         /\ trace[k].verdict = Verdict(p, Prefix(trace, k))
         /\ <<p, Prefix(trace, k)>> \notin Refused
  BY <1>2, <1>4, <1>5, <1>7
<1>12. InStep(p, pushed)
  BY <1>9, <1>10, <1>11 DEF InStep
<1> QED  BY <1>8, <1>12 DEF pushed

\* A new session is in step with the program it is made from.
LEMMA NewInStep ==
  ASSUME NEW p \in Valid
  PROVE  NewSession(p) \in Session /\ InStep(p, NewSession(p))
<1>1. NewSession(p) = [open |-> TRUE, program |-> p,
                       pushed |-> <<>>, tokens |-> <<>>]
  BY DEF NewSession, OpenSession
<1> QED  BY <1>1 DEF Session, InStep, Prefix

\* A call answers as a fresh analyzer would, and what it keeps is in step.
LEMMA AnalyzeInStep ==
  ASSUME NEW p \in Valid, NEW s \in Kept, InStep(p, s), NEW source \in Sources
  PROVE  LET result == Analyze(p, s, source)
         IN /\ result.answer = Fresh(p, source)
            /\ result.session \in Kept
            /\ InStep(p, result.session)
<1> DEFINE result == Analyze(p, s, source)
           tokens == Lexed[source].tokens
           pushed == PushAll(Starting(p, s, tokens), tokens)
<1>1. /\ result.answer = Fresh(p, source)
      /\ \/ result.session = s
         \/ result.session = NoSession
         \/ /\ result.session = pushed
            /\ \A k \in DOMAIN tokens : <<p, Prefix(tokens, k)>> \notin Refused
  BY AnalyzeFresh
<1>2. tokens \in Seq(Token)
  BY LexedType
<1>3. InStep(p, NoSession) /\ NoSession \in Kept
  BY DEF InStep, NoSession, Kept
<1>4. ASSUME \A k \in DOMAIN tokens : <<p, Prefix(tokens, k)>> \notin Refused
      PROVE  pushed \in Session /\ InStep(p, pushed)
  <2> HIDE DEF tokens
  <2> QED  BY <1>2, <1>4, PushedInStep
<1>5. Session \subseteq Kept
  BY DEF Kept
<1> HIDE DEF result, pushed
<1> QED  BY <1>1, <1>3, <1>4, <1>5 DEF result

----------------------------------------------------------------------------
(* Any sequence of calls.                                                  *)

Inductive == TypeOK /\ SessionInStep

\* A new analyzer satisfies the invariant.
LEMMA InductiveInit == Init => Inductive
<1> SUFFICES ASSUME Init PROVE Inductive
  OBVIOUS
<1>1. program \in Valid /\ session = NewSession(program)
  BY DEF Init
<1>2. session \in Session /\ InStep(program, session)
  BY <1>1, NewInStep
<1> QED  BY <1>1, <1>2 DEF Inductive, TypeOK, SessionInStep, Init

\* The contract speaks of the same answers as the calls do: it is instantiated
\* without substitutions.
LEMMA ContractAnswers ==
  /\ Contract!Sources = Sources
  /\ Contract!Done = Done
  /\ Contract!Failure = Failure
  /\ \A p, s : Contract!Fresh(p, s) = Fresh(p, s)
<1>1. Contract!Sources = Sources
  BY DEF Contract!Sources, Sources
<1>2. Contract!Done = Done
  BY DEF Contract!Done, Done
<1>3. Contract!Failure = Failure
  BY DEF Contract!Failure, Failure
<1>4. \A p, s : Contract!Fresh(p, s) = Fresh(p, s)
  BY <1>3 DEF Contract!Fresh, Fresh, Contract!Prefix, Prefix,
              Contract!Verdict, Verdict
<1> QED  BY <1>1, <1>2, <1>3, <1>4

\* Every call keeps the invariant and is a step of the contract.
LEMMA CallStep ==
  ASSUME Inductive, [Next]_vars
  PROVE  Inductive' /\ [Contract!Next]_<<program, answer>>
<1>1. program \in Valid /\ session \in Kept /\ InStep(program, session)
  BY DEF Inductive, TypeOK, SessionInStep, Kept
<1>2. CASE \E source \in Sources : AnalyzeCall(source)
  <2>1. PICK source \in Sources : AnalyzeCall(source)
    BY <1>2
  <2> DEFINE result == Analyze(program, session, source)
  <2>2. /\ session' = result.session /\ answer' = result.answer
        /\ program' = program
        /\ has_analyzed' \in BOOLEAN /\ incremental' \in BOOLEAN
    BY <2>1 DEF AnalyzeCall
  <2>3. /\ result.answer = Fresh(program, source)
        /\ result.session \in Kept /\ InStep(program, result.session)
    BY <1>1, AnalyzeInStep
  <2> HIDE DEF result
  <2>4. Inductive'
    BY <1>1, <2>2, <2>3 DEF Inductive, TypeOK, SessionInStep, Kept
  <2>5. Contract!Analyzing(source)
    BY <2>2, <2>3, ContractAnswers DEF Contract!Analyzing
  <2> QED  BY <2>4, <2>5, ContractAnswers DEF Contract!Next
<1>3. CASE \E p \in Programs : SetProgram(p)
  <2>1. PICK p \in Programs : SetProgram(p)
    BY <1>3
  <2>2. CASE p \in Valid
    <3>1. /\ program' = p /\ session' = NewSession(p) /\ answer' = Done
          /\ has_analyzed' = FALSE /\ incremental' = FALSE
      BY <2>1, <2>2 DEF SetProgram
    <3>2. session' \in Session /\ InStep(p, session')
      BY <2>2, <3>1, NewInStep
    <3> QED  BY <2>2, <3>1, <3>2, ContractAnswers
             DEF Inductive, TypeOK, SessionInStep, Contract!Next, Contract!SettingProgram
  <2>3. CASE p \notin Valid
    <3>1. /\ UNCHANGED <<program, session, has_analyzed>>
          /\ answer' = Failure /\ incremental' = FALSE
      BY <2>1, <2>3 DEF SetProgram
    <3> QED  BY <2>3, <3>1, ContractAnswers DEF Inductive, TypeOK, SessionInStep,
                               Contract!Next, Contract!SettingProgram
  <2> QED  BY <2>2, <2>3
<1>4. CASE Reset
  <2>1. /\ program' = program /\ session' = NewSession(program)
        /\ answer' = Done /\ has_analyzed' = FALSE /\ incremental' = FALSE
    BY <1>4 DEF Reset
  <2>2. session' \in Session /\ InStep(program, session')
    BY <1>1, <2>1, NewInStep
  <2> QED  BY <1>1, <2>1, <2>2, ContractAnswers
           DEF Inductive, TypeOK, SessionInStep, Contract!Next, Contract!Resetting
<1>5. CASE UNCHANGED vars
  BY <1>5 DEF vars, Inductive, TypeOK, SessionInStep
<1> QED  BY <1>2, <1>3, <1>4, <1>5 DEF Next

\* The invariant holds in every state of every behaviour.
LEMMA Invariance == Spec => []Inductive
<1>1. Init => Inductive
  BY InductiveInit
<1>2. Inductive /\ [Next]_vars => Inductive'
  BY CallStep
<1> QED  BY <1>1, <1>2, PTL DEF Spec

----------------------------------------------------------------------------
(* The theorems.                                                           *)

\* The types of the analyzer's fields are invariant; in particular a refused
\* program never replaces the valid one.
THEOREM TypeCorrect == Spec => []TypeOK
<1>1. Inductive => TypeOK
  BY DEF Inductive
<1> QED  BY <1>1, Invariance, PTL

\* Whatever calls fail, a session that is kept has a monitor of the program in
\* use to which exactly the cached tokens were pushed.
THEOREM SessionsInStep == Spec => []SessionInStep
<1>1. Inductive => SessionInStep
  BY DEF Inductive
<1> QED  BY <1>1, Invariance, PTL

\* Keeping a session between calls cannot be observed: `analyze` implements an
\* analyzer without state, for every lexer and every set of failing pushes.
THEOREM AnalyzerTransparent == Spec => Transparent
<1>1. Init => Contract!Init
  BY ContractAnswers DEF Init, Contract!Init
<1>2. Inductive /\ [Next]_vars => [Contract!Next]_<<program, answer>>
  BY CallStep
<1>3. Transparent <=> Contract!Init /\ [][Contract!Next]_<<program, answer>>
  BY DEF Transparent, Contract!Spec
<1> QED  BY <1>1, <1>2, <1>3, Invariance, PTL DEF Spec
=============================================================================
