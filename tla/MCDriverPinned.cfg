CONSTANTS
  Requests <- MCRequests
  Builds <- MCGccBuilds
SPECIFICATION Spec
INVARIANT MainUnloadedEveryRound
CHECK_DEADLOCK FALSE
