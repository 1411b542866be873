----------------------------- MODULE MCWebDemo -----------------------------
(***************************************************************************)
(* WebDemo with a toy lexer, a piece being a lexeme, except that one piece *)
(* does not lex.                                                           *)
(***************************************************************************)
EXTENDS WebDemo

CONSTANT Unlexable

MCInitialText == <<"a", "b">>
MCTexts == {<<>>} \cup {<<x>> : x \in {"a", "b", "c"}}
                  \cup {<<x, y>> : x, y \in {"a", "b", "c"}}

MCLexed == [t \in MCTexts |->
  [ok |-> \A k \in DOMAIN t : t[k] # Unlexable,
   tokens |-> [k \in DOMAIN t |-> [lexeme |-> t[k], end |-> k]]]]

MCEdits == {<<"a">>, <<"a", "b">>, <<"b", "a">>, <<"a", Unlexable>>}
MCRefused == {<<"default", <<"b", "a">>>>}
=============================================================================
