CONSTANTS
  Body <- SuiteBody
  Catches <- SuiteCatches
  Verdict <- SuiteVerdict
  Suites <- MCDefault
  Events <- SuiteEvents
  Strict = TRUE
  BaseFrames = 4
SPECIFICATION Spec
INVARIANT NoFalseAlarm
CHECK_DEADLOCK FALSE
