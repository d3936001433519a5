CONSTANTS
  Body <- SuiteBody
  Catches <- SuiteCatches
  Verdict <- SuiteVerdict
  Suites <- MCSuites
  Events <- SuiteEvents
  Strict = TRUE
  BaseFrames = 4
SPECIFICATION Spec
INVARIANTS NoFalsePass PassesButThreeToFive EveryThrowCaught
PROPERTY CallReturns
CHECK_DEADLOCK FALSE
