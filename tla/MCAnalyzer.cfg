SPECIFICATION Spec
CONSTANTS
  Programs = {p, q, bad}
  Valid = {p, q}
  Refusing = {q}
  Pieces = {a, b, blank, junk, growing}
  Blank = blank
  Unlexable = junk
  Growing = growing
  TextLength = 3
  Lexemes <- MCLexemes
  Lexed <- MCLexed
  Refused <- MCRefused
INVARIANTS TypeOK SessionInStep
PROPERTIES Transparent
