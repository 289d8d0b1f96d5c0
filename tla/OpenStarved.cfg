SPECIFICATION FairSpec
CONSTANTS
  WorkerBound = 1
  EnableRegexes = FALSE
  Records = 1
  IterationLimit = 1
  MaxNow = 3
  Second = 1
  Scenarios <- ThreeOnly
  CountBound = 10
  MinWorkers = 0
  MaxWorkers = 1
PROPERTY CutoffHonoured
\* Run blocked for ever is what the run shows
CHECK_DEADLOCK FALSE
