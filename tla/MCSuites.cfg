CONSTANTS
  Body <- SuiteBody
  Catches <- SuiteCatches
  Verdict <- SuiteVerdict
  Suites <- MCSuites
  Events <- SuiteEvents
  Strict = TRUE
  BaseFrames = 4
SPECIFICATION Spec
INVARIANTS TypeOK GuardsBalanced ShallowAgrees ExceptionsAccounted NoFalseAlarm NoFalsePass Repeatable BasicBackstopUnused
PROPERTY CallReturns
CHECK_DEADLOCK FALSE
