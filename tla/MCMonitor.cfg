SPECIFICATION FairSpec
CONSTANTS
  WordBits = 64
  Grammars <- MCGrammars
  Tokens <- MCTokens
  MaxTokens = 3
  IdLimit = 200
  MatchBatch = 1
  MaxMatches = 2
  MaxCombinations = 8
  MaxUpdates = 2
  Shapes = {"wrap", "late", "branches", "ambiguous", "error", "commute", "clash",
            "loop"}
INVARIANTS TypeOK AnswerDerived WitnessNoticed FocusSaturated
PROPERTIES Contract RefusalFinal CallReturns
