SPECIFICATION Spec
CONSTANTS
  WordBits = 64
  Grammars <- MCGrammars
  Tokens <- MCTokens
  MaxTokens = 2
  IdLimit = 200
  MatchBatch = 1
  MaxMatches = 2
  MaxCombinations = 8
  MaxUpdates = 1
  Shapes = {"late"}
INVARIANT WitnessAlwaysNoticed
