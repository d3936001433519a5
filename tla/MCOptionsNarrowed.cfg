CONSTANTS
  CommandLines <- MCCommandLines
  Numeral <- MCNumeral
  IntMax = 2047
SPECIFICATION Spec
INVARIANT RoundsAsAsked
CHECK_DEADLOCK FALSE
