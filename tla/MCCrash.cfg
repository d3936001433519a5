CONSTANTS
  Workers <- MCWorkers
  Unhandled <- MCUnhandled
  MainCodes <- MCCodes
SPECIFICATION Spec
INVARIANTS CrashNeverHidden SilentOnlyOnRace
PROPERTY CrashEnds
CHECK_DEADLOCK FALSE
