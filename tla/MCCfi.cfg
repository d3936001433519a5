CONSTANTS
  Body <- SuiteBody
  Catches <- SuiteCatches
  Verdict <- SuiteVerdict
  Suites <- MCSuites
  Events <- SuiteEvents
  Strict = TRUE
  BaseFrames = 4
SPECIFICATION Spec
INVARIANTS ExceptionsAccounted NoFalsePass RoundBackstopUnused RoundsAlike PassesUpToTwo LadderRungs
CHECK_DEADLOCK FALSE
