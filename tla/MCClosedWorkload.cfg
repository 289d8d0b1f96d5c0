SPECIFICATION FairSpec
CONSTANTS
  WorkerBound = 2
  EnableRegexes = FALSE
  Records = 1
  IterationLimit = 0
  MaxNow = 2
  LevelUnit = 1
  Scenarios <- MCScenarios
INVARIANTS
  TypeOK
  RunsInFull
PROPERTIES
  PoolSpec
  StartedWhenDue
  QuietAfterStop
  Terminates
  InterruptHonoured
