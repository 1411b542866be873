SPECIFICATION Spec
CONSTANTS
  Programs = {"", "default", "other"}
  Valid = {"default", "other"}
  EmptyProgram = ""
  DefaultProgram = "default"
  Lexemes = {"a", "b", "c"}
  Lexed <- MCLexed
  Refused <- MCRefused
  InitialText <- MCInitialText
  Edits <- MCEdits
  Unlexable = "c"
  Escapes = TRUE
  Window = 1
  MaxEdits = 2
PROPERTIES UsableAfterEscape
CHECK_DEADLOCK FALSE
