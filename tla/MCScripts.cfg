CONSTANTS
  MaxVersion = 3
  DriverCodes <- MCCodes
SPECIFICATION Spec
INVARIANTS PassVouches NoStaleAfterBuild
