SPECIFICATION Spec
CONSTANTS
  WorkerCount = 3
  MaxConns = 4
INVARIANT LengthCounts
INVARIANT LoadsStayClose
INVARIANT StartedMeansAccepting
PROPERTY FailureIsReported
PROPERTY StopEndsRun
CHECK_DEADLOCK FALSE
