CONSTANTS
  CommandLines <- MCCommandLines
  Numeral <- MCNumeral
  IntMax = 2047
SPECIFICATION Spec
INVARIANTS LineHonoured LineJudged CountsPositive
CHECK_DEADLOCK FALSE
