SPECIFICATION Spec
CONSTANTS
  Lists <- WordInside
  LongPath = 2
  ShortText = 3
  LongText = 0
  MaxZeroes = 0
PROPERTIES ConfirmedStays
CHECK_DEADLOCK FALSE
