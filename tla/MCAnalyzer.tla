----------------------------- MODULE MCAnalyzer -----------------------------
(***************************************************************************)
(* AnalyzerCalls on all short texts of a toy lexer: a text is a sequence   *)
(* of pieces, each a lexeme of its own except for blanks, which are in no  *)
(* token, and for one piece that does not lex.  A growing lexeme at the    *)
(* end is held back, as `lex_prefix` does.                                 *)
(***************************************************************************)
EXTENDS AnalyzerCalls, SequencesExt

CONSTANTS
  Pieces, Blank, Unlexable, Growing,
  TextLength,    \* bound: pieces in a text
  Refusing       \* programs whose rules fail on a repeated lexeme

Texts == BoundedSeq(Pieces, TextLength)

Confirmed(text) ==
  LET Token(k) == /\ text[k] # Blank
                  /\ ~(k = Len(text) /\ text[k] = Growing)
      at == SelectSeq([k \in DOMAIN text |-> k], Token)
  IN [i \in DOMAIN at |-> [lexeme |-> text[at[i]], end |-> at[i]]]

MCLexed == [text \in Texts |->
  [ok |-> Unlexable \notin {text[k] : k \in DOMAIN text},
   tokens |-> Confirmed(text)]]

MCLexemes == Pieces \ {Blank}

MCRefused ==
  {<<p, w>> \in Refusing \X Texts :
     \E k \in 1 .. (Len(w) - 1) : w[k] = w[Len(w)]}
=============================================================================
