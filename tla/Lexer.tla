-------------------------------- MODULE Lexer --------------------------------
(***************************************************************************)
(* The lexer of src/grammar.rs: maximal munch over one automaton per rule, *)
(* for a whole text and for a text that is still being typed, the spelling *)
(* of integers, and which terminals have a lexeme at all.                  *)
(*                                                                         *)
(* The automata come from an external crate.  They report a match one byte *)
(* late: a state says whether a match ended before the byte that led to    *)
(* it, which may depend on that byte (look-around).  An automaton is       *)
(*   next[q][b]  the place reached from place q by byte b; places are      *)
(*               1, 2, ..., the first is 1, and Dead is never left         *)
(*   late[q][b]  whether a match ended in q, seen that b follows           *)
(*   end[q]      whether a match ended in q, seen that nothing follows     *)
(* Left out: rules with Unicode word boundaries, which lex_prefix refuses, *)
(* and with them quit states.  Offsets count from 0, as in the code.       *)
(***************************************************************************)
EXTENDS Integers, Sequences, SequencesExt, FiniteSetsExt

CONSTANT LongPath   \* from how many bytes on a rule begins to remember its paths

VARIABLES
  rules,        \* a sequence: terminal and automaton of each
  text, lexed   \* what has been typed, and what lex_prefix makes of it

Dead == 0
None == -1
Ignored == -2      \* the terminal of a rule that emits nothing

\* The bytes the automata of `rules` tell apart.
Bytes == DOMAIN rules[1].dfa.next[1]

DeadState == [at |-> Dead, match |-> FALSE]
StartState == [at |-> 1, match |-> FALSE]

NextState(dfa, s, b) ==
  IF s.at = Dead THEN DeadState
  ELSE [at |-> dfa.next[s.at][b], match |-> dfa.late[s.at][b]]

\* `is_match_state(next_eoi_state(s))`
MatchAtEnd(dfa, s) == s.at # Dead /\ dfa.end[s.at]

----------------------------------------------------------------------------
(* One rule at one offset.                                                 *)

\* `dfa_match_is_stable`
MatchIsStable(dfa, s) == \A b \in Bytes : NextState(dfa, s, b).match

\* mutant: one more byte is looked at, not two
CanMatchOneLonger(dfa, s) ==
  \E first \in Bytes : MatchAtEnd(dfa, NextState(dfa, s, first))

Alive(dfa, s) == s # DeadState    \* mutant: the byte that reports a match counts

\* `dfa_can_match_longer`
CanMatchLonger(dfa, s) ==
  \E first \in Bytes :
    LET afterFirst == NextState(dfa, s, first) IN
    \/ MatchAtEnd(dfa, afterFirst)
    \/ \E second \in Bytes : NextState(dfa, afterFirst, second) # DeadState

\* What the end of the text tells of a rule that is alive there.
ResultAtEnd(dfa, s, position, inspect) ==
  LET matched == MatchAtEnd(dfa, s) IN
  [end |-> IF matched THEN position ELSE None,
   can_extend |-> inspect /\ CanMatchLonger(dfa, s),
   stable |-> inspect /\ matched => MatchIsStable(dfa, s)]

NoResult == [end |-> None, can_extend |-> FALSE, stable |-> TRUE]

\* The states of a rule from an offset on.
States(dfa, input, offset) ==
  LET at[p \in offset .. Len(input)] ==
        IF p = offset THEN StartState ELSE NextState(dfa, at[p - 1], input[p])
  IN at

PositionKey(position, state) == <<position>>   \* mutant: whatever the state

Key(position, state) == <<position, state>>

Known(at, p, memo) == Key(p, at[p]) \in DOMAIN memo

\* Where a path ends: where something is remembered, at the end of the text, or
\* before the byte that kills the rule.
Stop(at, input, memo) ==
  Min({p \in DOMAIN at : \/ Known(at, p, memo) \/ p = Len(input)
                         \/ at[p + 1] = DeadState})

\* The last match reported from position p on, or what the path leads to.
From(at, p, path, base) ==
  LET matches == {q \in path : q >= p /\ at[q + 1].match} IN
  IF base.end # None \/ matches = {} THEN base
  ELSE [base EXCEPT !.end = Max(matches), !.stable = TRUE]

Retained(at, path, memo) ==
  IF Cardinality(path) >= LongPath \/ memo # <<>> THEN {Key(p, at[p]) : p \in path} ELSE {}

\* The result, and what the rule remembers from now on: each position of the
\* path gets its own result.
Recorded(at, offset, path, base, memo, retained) ==
  [result |-> From(at, offset, path, base),
   memo |-> [key \in DOMAIN memo \cup retained |->
               IF key \in DOMAIN memo THEN memo[key] ELSE From(at, key[1], path, base)]]

\* The byte that kills the rule belongs to the path.
Followed(dfa, input, offset, memo, inspect, at, stop) ==
  LET known == Known(at, stop, memo)
      dies == ~known /\ stop < Len(input)
      path == offset .. (IF dies THEN stop ELSE stop - 1)
      base == CASE known -> memo[Key(stop, at[stop])]
                [] dies -> NoResult
                [] OTHER -> ResultAtEnd(dfa, at[stop], stop, inspect)
  IN Recorded(at, offset, path, base, memo, Retained(at, path, memo))

OnPath(dfa, input, offset, memo, inspect, at) ==
  Followed(dfa, input, offset, memo, inspect, at, Stop(at, input, memo))

\* `rule_result`
RuleResult(dfa, input, offset, memo, inspect) ==
  OnPath(dfa, input, offset, memo, inspect, States(dfa, input, offset))

----------------------------------------------------------------------------
(* All rules: maximal munch, the first rule winning among equals.          *)

BetterMatchLast(left, right) ==    \* mutant: the last rule wins
  IF right.end # None /\ right.end >= left.end THEN right ELSE left

\* `better_match`; None is below every end, and left is the earlier rule.
BetterMatch(left, right) ==
  IF right.end > left.end THEN right ELSE left

Best(results) ==
  FoldLeft(BetterMatch, [end |-> None, rule |-> None],
           [r \in DOMAIN results |-> [end |-> results[r].end, rule |-> r]])

UnresolvedUnstable(results, best, length) ==    \* mutant: `a$` is not awaited
  \E r \in DOMAIN results : results[r].can_extend

\* May later bytes move this boundary, or have another rule win it?
Unresolved(results, best, length) ==
  \/ \E r \in DOMAIN results : results[r].can_extend
  \/ best.end = length /\ ~results[best.rule].stable

ScanStart ==
  [offset |-> 0, tokens |-> <<>>, status |-> "running",
   memos |-> [r \in DOMAIN rules |-> <<>>]]

Emitted(tokens, start, best) ==
  LET kind == rules[best.rule].terminal IN
  IF kind = Ignored THEN tokens
  ELSE Append(tokens, [kind |-> kind, start |-> start, end |-> best.end])

\* One turn of `scan_with_machine`, or of `lex_prefix_with_machine` if inspecting.
Turned(input, s, inspect, found, results, best) ==
  IF inspect /\ Unresolved(results, best, Len(input))
    THEN [s EXCEPT !.status = "done"]
  ELSE IF best.end \in {None, s.offset}
    THEN [s EXCEPT !.status = "failed"]
  ELSE [offset |-> best.end, status |-> "running",
        tokens |-> Emitted(s.tokens, s.offset, best),
        memos |-> [r \in DOMAIN rules |-> found[r].memo]]

Judged(input, s, inspect, found, results) ==
  Turned(input, s, inspect, found, results, Best(results))

Matched(input, s, inspect, found) ==
  Judged(input, s, inspect, found, [r \in DOMAIN rules |-> found[r].result])

Scan(input, s, inspect) ==
  IF s.status # "running" THEN s
  ELSE IF s.offset = Len(input) THEN [s EXCEPT !.status = "done"]
  ELSE Matched(input, s, inspect,
         [r \in DOMAIN rules |->
            RuleResult(rules[r].dfa, input, s.offset, s.memos[r], inspect)])

Answer(s) ==
  [failed |-> s.status = "failed", offset |-> s.offset,
   tokens |-> IF s.status = "failed" THEN <<>> ELSE s.tokens]

Scanned(input, inspect) ==
  LET after[n \in 0 .. Len(input) + 1] ==
        IF n = 0 THEN ScanStart ELSE Scan(input, after[n - 1], inspect)
  IN Answer(after[Len(input) + 1])

\* `lex_with_machine`, `lex_prefix_with_machine`
Lex(input) == Scanned(input, FALSE)
LexPrefix(input) == Scanned(input, TRUE)

\* `lexeme_matches`: the text is one lexeme of this terminal and nothing else.
LexemeMatches(terminal, lexeme) ==
  LET whole == Lex(lexeme) IN
  /\ ~whole.failed
  /\ whole.tokens = <<[kind |-> terminal, start |-> 0, end |-> Len(lexeme)]>>

----------------------------------------------------------------------------
(* Integers: some spelling of a value, with any number of leading zeroes.  *)

\* The terminal of the first rule that matches all that was read, at its end.
WinnerAtEnd(states) ==
  LET winners == {r \in DOMAIN rules : MatchAtEnd(rules[r].dfa, states[r])}
  IN IF winners = {} THEN None ELSE rules[Min(winners)].terminal

Advanced(states, b) == [r \in DOMAIN rules |-> NextState(rules[r].dfa, states[r], b)]

\* mutant: no leading zeroes
PlainSpellingMatches(terminal, sign, zero, digits) ==
  WinnerAtEnd(FoldLeft(Advanced, [r \in DOMAIN rules |-> StartState],
                       (IF sign = None THEN <<>> ELSE <<sign>>) \o digits)) = terminal

\* `integer_spelling_matches`.  Reading zeroes repeats a vector of states in
\* the end; Brent's method finds that out with one remembered vector.
IntegerSpellingMatches(terminal, sign, zero, digits) ==
  LET start == [r \in DOMAIN rules |-> StartState]
      signed == IF sign = None THEN start ELSE Advanced(start, sign)
      Accepts(states) == WinnerAtEnd(FoldLeft(Advanced, states, digits)) = terminal
      Turn(b) ==
        LET anchor == IF b.span = b.power THEN b.states ELSE b.anchor IN
        [states |-> Advanced(b.states, zero), anchor |-> anchor,
         power |-> IF b.span = b.power THEN 2 * b.power ELSE b.power,
         span |-> IF b.span = b.power THEN 1 ELSE b.span + 1]
      brent[n \in Nat] ==
        IF n = 0 THEN [states |-> Advanced(signed, zero), anchor |-> signed,
                       power |-> 1, span |-> 1]
        ELSE Turn(brent[n - 1])
      found[n \in Nat] ==
        LET b == brent[n] IN
        Accepts(b.states) \/ (b.states # b.anchor /\ found[n + 1])
  IN Accepts(signed) \/ found[0]

\* `i64_lexeme_matches`: zero may carry either sign.
IntegerLexemeMatches(terminal, value, bytes) ==
  LET signs == CASE value.sign = "-" -> {bytes.minus}
                 [] value.sign = "0" -> {None, bytes.plus, bytes.minus}
                 [] value.sign = "+" -> {None, bytes.plus}
  IN \E sign \in signs :
       IntegerSpellingMatches(terminal, sign, bytes.zero, value.digits)

----------------------------------------------------------------------------
(* Which terminals some text is a lexeme of.                               *)

AnyMatchAtEnd(states) ==      \* mutant: a shadowed rule counts as well
  {rules[r].terminal : r \in {x \in DOMAIN rules : MatchAtEnd(rules[x].dfa, states[x])}}

WinnersAtEnd(states) == {WinnerAtEnd(states)}

Live(states) == \E r \in DOMAIN rules : states[r] # DeadState

\* The vectors of states that some nonempty text leads to.
Reachable ==
  LET Successors(vectors) ==
        {v \in {Advanced(x, b) : x \in vectors, b \in Bytes} : Live(v)}
      more[n \in Nat] ==      \* seen after n rounds, and new in the last
        IF n = 0 THEN LET first == Successors({[r \in DOMAIN rules |-> StartState]})
                      IN [seen |-> first, new |-> first]
        ELSE LET last == more[n - 1]
                 new == Successors(last.new) \ last.seen
             IN [seen |-> last.seen \cup new, new |-> new]
      whole[n \in Nat] ==
        LET last == more[n] IN IF last.new = {} THEN last.seen ELSE whole[n + 1]
  IN whole[0]

\* `compute_complete_lexeme_terminals`
CompleteLexemeTerminals ==
  UNION {WinnersAtEnd(states) : states \in Reachable} \ {None, Ignored}

----------------------------------------------------------------------------
(* A text that is being typed.                                             *)

vars == <<rules, text, lexed>>

Init == text = <<>> /\ lexed = LexPrefix(<<>>)   \* `rules` is given

Type(b) ==
  /\ text' = Append(text, b)
  /\ lexed' = LexPrefix(text')
  /\ UNCHANGED rules
=============================================================================
