SPECIFICATION Spec
CONSTANTS
  Programs = {"", "default", "other"}
  Valid = {"default", "other"}
  EmptyProgram = ""
  DefaultProgram = "default"
  Lexemes = {"a", "b", "c"}
  Lexed <- MCLexed
  Refused <- MCRefused
  InitialText <- MCInitialText
  Edits <- MCEdits
  Unlexable = "c"
  Escapes = FALSE
  Window = 1
  MaxEdits = 3
PROPERTIES TokenClickExact
CHECK_DEADLOCK FALSE
