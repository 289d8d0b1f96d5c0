SPECIFICATION Spec
CONSTANTS
  Second = 1000
  LevelUnit = 2
  Scenarios <- AllScenarios
  AskedLoads <- MCLoads
  OpenScenarios <- MCOpenScenarios
  ClosedScenarios <- MCClosedScenarios
  CountBound = 100
INVARIANTS
  GenTypeOK
  LevelsInFull
  RampFollowsLoad
  
  LoadDelivered
  StartsFollowLevels
  ConcurrencyReached
