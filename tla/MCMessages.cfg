SPECIFICATION Spec
CONSTANTS
  MaxInt = 1023
  FieldSize = 32
  MaxField = 4
  IntText <- MCIntText
  Texts <- MCTexts
  Amounts <- MCAmounts
  Calls <- MCCalls
INVARIANTS
  NoPanic
  DecodesFormat
  RoundTrip
PROPERTIES
  ComesCloser
