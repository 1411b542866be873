SPECIFICATION FairSpec
CONSTANTS
  WordBits = 64
  Grammars <- MCGrammars
  Tokens <- MCTokens
  MaxTokens = 4
  IdLimit = 200
  Shapes = {"sequence", "shared", "left", "right", "ambiguous", "nullable", "cyclic", "vanishing", "dead", "void", "unspelled"}
  Pruning = {TRUE, FALSE}
INVARIANTS TypeOK PackedResults ChangesComplete ChangesOnce FrontierBounded LivePrefixForest
PROPERTIES OneResultPerSpan PublishedFrozen DeriveReturns
CHECK_DEADLOCK FALSE
