CONSTANTS
  IterationArgs <- MCIterations
  Depths <- MCDepths
  CapturesPerRound = 1
SPECIFICATION Spec
INVARIANTS NoUpdateLost ReportComplete NoWorkerOutlivesCall
PROPERTIES CallEnds ImplementsBoard
CHECK_DEADLOCK FALSE
