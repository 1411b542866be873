------------------------------ MODULE MCLexer ------------------------------
(***************************************************************************)
(* Lexer for small automata: all pairs of rules whose automata have two    *)
(* places, and a catalogue of larger ones, against definitions by matching *)
(* each rule from each offset on its own.                                  *)
(***************************************************************************)
EXTENDS Lexer, TLC

CONSTANTS
  Lists,                  \* the lists of rules
  ShortText, LongText,    \* bounds: bytes typed, with two rules and with three
  MaxZeroes               \* bound: leading zeroes the reference looks at

a == 0
b == 1
ab == {a, b}

plus == 2
minus == 3
numerical == {a, b, plus, minus}      \* the digits 0 and 1 and two signs

----------------------------------------------------------------------------
(* Automata.                                                               *)

\* A match at place q is seen whatever follows.
Plain(next, ends) ==
  [next |-> next, end |-> [q \in DOMAIN next |-> q \in ends],
   late |-> [q \in DOMAIN next |-> [x \in DOMAIN next[1] |-> q \in ends]]]

\* A match at place q is seen if one of `before` follows, or the end if `atEnd`.
LookingAhead(next, q, before, atEnd) ==
  [next |-> next, end |-> [p \in DOMAIN next |-> p = q /\ atEnd],
   late |-> [p \in DOMAIN next |-> [x \in DOMAIN next[1] |-> p = q /\ x \in before]]]

\* Every place can be reached and can still lead to a match, as in what is
\* built from a regular expression; rules that match nothing are refused.
Useful(next) ==
  /\ \E x \in ab : next[1][x] = 2
  /\ \A q \in DOMAIN next : \A x \in ab : next[q][x] \in {Dead, 1, 2}

Tables == {next \in [1 .. 2 -> [ab -> {Dead, 1, 2}]] : Useful(next)}
Plains(tables) == {Plain(next, {2}) : next \in tables}
LookingAheads(tables) ==
  {LookingAhead(next, 2, before, TRUE) :
     next \in tables, before \in SUBSET ab \ {ab}}

Chain(word) ==      \* one fixed word
  Plain([q \in 1 .. Len(word) + 1 |->
           [x \in ab |-> IF q <= Len(word) /\ word[q] = x THEN q + 1 ELSE Dead]],
        {Len(word) + 1})

Repeated(word) ==   \* that word once or more
  LET n == Len(word)
      Place(q) == IF q = n + 1 THEN 1 ELSE q
  IN Plain([q \in 1 .. n + 1 |->
              [x \in ab |-> IF word[Place(q)] = x THEN Place(q) + 1 ELSE Dead]],
           {n + 1})

Rule(terminal, dfa) == [terminal |-> terminal, dfa |-> dfa]

\* The rule that begins with `a` alone, and any other one.
Pairs ==
  LET first == {next \in Tables : next[1][a] = 2 /\ next[1][b] = Dead} IN
  {<<Rule(0, x), Rule(1, y)>> :
     x \in Plains(first) \cup LookingAheads(first), y \in Plains(Tables)}
  \cup {<<Rule(0, x), Rule(Ignored, y)>> :
          x \in Plains(first), y \in LookingAheads(Tables)}

Words == {Chain(<<a>>), Chain(<<a, b>>), Chain(<<a, a, b>>), Chain(<<b, a, b, a>>),
          Repeated(<<a>>), Repeated(<<a, b>>), Repeated(<<a, b, b>>),
          LookingAhead(Chain(<<a, b>>).next, 3, {a}, TRUE)}

Triples ==
  {<<Rule(0, x), Rule(1, y), Rule(Ignored, z)>> : x \in Words, y \in Words,
     z \in {Chain(<<a>>), Chain(<<b, a, b, a>>), Repeated(<<a, b>>), Repeated(<<a, b, b>>)}}

\* `a` before another a only, and `a`.  The first is what a(?-u:\\B) becomes.
WordInside ==
  {<<Rule(0, LookingAhead(Chain(<<a>>).next, 2, {a}, FALSE)), Rule(1, Chain(<<a>>))>>}

----------------------------------------------------------------------------
(* Rules for integers.                                                     *)

\* Zeroes move between three places as `zeroes` says; the digit 1 ends the
\* lexeme at each place of `ends`, and zero itself does at place 3 if it may.
Numeral(zeroes, ends, signs) ==
  Plain([q \in 1 .. 4 |->
           [x \in numerical |->
              CASE q < 4 /\ x = a -> zeroes[q]
                [] q \in ends /\ x = b -> 4
                [] q = 1 /\ x \in signs -> 2
                [] OTHER -> Dead]],
        {4})

\* With no zero read, at place 1, none may follow, or one leads to place 2.
Numerals ==
  {Numeral(zeroes, ends, {minus}) :
     zeroes \in {z \in [1 .. 3 -> {Dead, 1, 2, 3, 4}] : z[1] \in {Dead, 2}},
     ends \in SUBSET (1 .. 3) \ {{}}}

\* Every other number of zeroes, and a sign or none.
Even == Numeral(<<2, 1, Dead>>, {1}, {})
Threes == Numeral(<<2, 3, 1>>, {2}, {plus, minus})

NumeralPairs ==
  {<<Rule(0, x), Rule(1, y)>> : x \in {Even, Threes}, y \in Numerals}
  \cup {<<Rule(0, y), Rule(1, x)>> : x \in {Even, Threes}, y \in Numerals}

----------------------------------------------------------------------------
All == Pairs \cup Triples \cup NumeralPairs

MaxText == CASE Bytes = numerical -> 0      \* here only the rules matter
             [] Len(rules) = 3 -> LongText
             [] OTHER -> ShortText
MaxFuture == (MaxText + 1) \div 2

Next == \E x \in Bytes : Len(text) < MaxText /\ Type(x)

MCInit == rules \in Lists /\ Init

Spec == MCInit /\ [][Next]_vars

----------------------------------------------------------------------------
(* The reference.                                                          *)

\* Where rule r can end a match that begins at an offset.
Ends(r, input, offset) ==
  LET dfa == rules[r].dfa
      at == States(dfa, input, offset)
  IN {p \in offset .. Len(input) - 1 : at[p + 1].match}
       \cup {p \in {Len(input)} : MatchAtEnd(dfa, at[p])}

\* The longest match at an offset; the first rule among those that have it.
Longest(input, offset) ==
  LET ends == UNION {Ends(r, input, offset) : r \in DOMAIN rules} IN
  IF ends = {} THEN [end |-> None, rule |-> None]
  ELSE [end |-> Max(ends),
        rule |-> Min({r \in DOMAIN rules : Max(ends) \in Ends(r, input, offset)})]

\* The lexemes of a text, ignored ones too, up to where none matches.
Lexemes(input) ==
  LET from[offset \in 0 .. Len(input)] ==
        LET longest == Longest(input, offset) IN
        IF longest.end = None THEN <<>>
        ELSE <<[kind |-> rules[longest.rule].terminal, start |-> offset,
                end |-> longest.end]>> \o from[longest.end]
  IN from[0]

Shown(lexemes) == SelectSeq(lexemes, LAMBDA x : x.kind # Ignored)
Covered(lexemes) == IF lexemes = <<>> THEN 0 ELSE lexemes[Len(lexemes)].end

Texts(n) == UNION {[1 .. k -> Bytes] : k \in 0 .. n}

----------------------------------------------------------------------------
(* Properties.                                                             *)

\* Lexing a whole text is maximal munch with the first rule winning, though a
\* rule remembers paths of earlier offsets and stops where they join.
LexExact ==
  LET lexemes == Lexemes(text) whole == Lex(text) IN
  /\ whole.failed <=> Covered(lexemes) < Len(text)
  /\ ~whole.failed => whole.tokens = Shown(lexemes)

\* A token once confirmed is never taken back or changed, whatever is typed;
\* nor is the finding that the text has no lexemes.
ConfirmedStays ==
  [][IF lexed.failed THEN lexed'.failed
     ELSE lexed'.failed \/ IsPrefix(lexed.tokens, lexed'.tokens)]_vars

\* What is confirmed are the first tokens that the whole text would have if
\* it ended now or after any few bytes more.
ConfirmedFinal ==
  \A more \in Texts(MaxFuture) :
    LET lexemes == Lexemes(text \o more) IN
    IF lexed.failed THEN Covered(lexemes) < Len(text \o more)
    ELSE /\ IsPrefix(lexed.tokens, Shown(lexemes))
         /\ lexed.offset = 0 \/ \E k \in DOMAIN lexemes : lexemes[k].end = lexed.offset

\* Nothing is withheld without cause: some bytes that may follow would make
\* another lexeme out of the pending text.
PendingHasCause ==
  ~lexed.failed /\ lexed.offset < Len(text) =>
    \E more \in Texts(MaxFuture) :
      Longest(text \o more, lexed.offset) # Longest(text, lexed.offset)

\* The text is one lexeme of this terminal.
IsLexeme(terminal, input) ==
  input # <<>> /\ LET lexemes == Lexemes(input) IN
  /\ Len(lexemes) = 1
  /\ lexemes[1].kind = terminal /\ lexemes[1].end = Len(input)

Terminals == {rules[r].terminal : r \in DOMAIN rules} \ {Ignored}

\* A terminal counts as productive exactly if some text is a lexeme of it,
\* longer matches and earlier rules of other terminals considered.
ProductiveExact ==
  text = <<>> /\ Len(rules) = 3 =>
    CompleteLexemeTerminals =
      {t \in Terminals : \E input \in Texts(LongText) : IsLexeme(t, input)}

IntegerBytes == [zero |-> a, plus |-> plus, minus |-> minus]

Values ==
  {[sign |-> "0", digits |-> <<a>>], [sign |-> "+", digits |-> <<b>>],
   [sign |-> "-", digits |-> <<b>>], [sign |-> "+", digits |-> <<b, a>>]}

Spellings(value) ==
  {sign \o [k \in 1 .. n |-> a] \o value.digits :
     n \in 0 .. MaxZeroes,
     sign \in (IF value.sign = "+" THEN {} ELSE {<<minus>>})
              \cup IF value.sign = "-" THEN {} ELSE {<<>>, <<plus>>}}

\* A value counts as a lexeme of a terminal exactly if one of its spellings,
\* of which there are infinitely many, is: the search for a cycle stops
\* neither too early nor never.
IntegersExact ==
  Bytes = numerical =>
  \A t \in Terminals : \A value \in Values :
    IntegerLexemeMatches(t, value, IntegerBytes)
      <=> \E input \in Spellings(value) : IsLexeme(t, input)
=============================================================================
