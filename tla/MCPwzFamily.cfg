SPECIFICATION Spec
CONSTANTS
  WordBits = 1
  Grammars <- MCGrammars
  Tokens <- MCTokens
  MaxTokens = 2
  IdLimit = 200
  RhsLength = 2
  FormLength = 4
  Lexemes = {{0, 1}, {0}}
INVARIANTS ViablePrefix SelectExact GraphFaithful
CHECK_DEADLOCK FALSE
