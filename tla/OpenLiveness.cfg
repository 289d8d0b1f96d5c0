SPECIFICATION FairSpec
CONSTANTS
  WorkerBound = 2
  EnableRegexes = TRUE
  Records = 1
  IterationLimit = 0
  MaxNow = 2
  Second = 1
  Scenarios <- FlatOnly
  CountBound = 10
  MinWorkers = 0
  MaxWorkers = 2
PROPERTY Terminates
