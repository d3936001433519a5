CONSTANTS
  Requests <- MCRequests
  Builds <- MCBuilds
SPECIFICATION Spec
INVARIANTS TypeOK HandlesReturned PluginNested MainUnloadedUnlessPinned ProbeEveryRound
PROPERTIES FirstFailureReported ImplementsLifecycle Terminates
CHECK_DEADLOCK FALSE
