SPECIFICATION Spec
CONSTANTS
  Lists <- All
  LongPath = 2
  ShortText = 3
  LongText = 5
  MaxZeroes = 9
INVARIANTS LexExact ConfirmedFinal PendingHasCause ProductiveExact IntegersExact
PROPERTIES ConfirmedStays
CHECK_DEADLOCK FALSE
