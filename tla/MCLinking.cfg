SPECIFICATION Spec
CONSTANTS
  WordBits = 64
  Grammars <- MCGrammars
  Tokens <- MCTokens
  MaxTokens = 3
  IdLimit = 200
  MaxClasses = 3
  MaxGrowth = 1
  Shapes = {"sum", "pair", "ignored", "cyclic", "nullable"}
INVARIANTS TypeOK WitnessReal WitnessFound FactsDerived FactsFound
PROPERTIES AnswerKept
CHECK_DEADLOCK FALSE
