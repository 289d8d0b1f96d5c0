SPECIFICATION Spec
CONSTANTS
  WorkerBound = 3
  EnableRegexes = FALSE
  Records = 3
  IterationLimit = 1
  MaxNow = 4
  Second = 4
  Scenarios <- RampOrSteps
  CountBound = 10
  MinWorkers = 0
  MaxWorkers = 2
INVARIANTS
  TypeOK
  
  NeverEarly
  ConcurrencyMeasured
  WorkersWithinLimit
  AtMostOnce
  NoEntryLost
  
  NeverUnordered
PROPERTIES
  QuietAfterStop
  PoolSpec
\* a worker that finds the limited input at its end leaves Run blocked
CHECK_DEADLOCK FALSE
