SPECIFICATION Spec
CONSTANTS
  WorkerBound = 1
  EnableRegexes = FALSE
  Records = 1
  IterationLimit = 0
  MaxNow = 2
  Second = 1
  Scenarios <- FlatOnly
  CountBound = 10
  MinWorkers = 0
  MaxWorkers = 1
INVARIANT OnlyScheduledHits
