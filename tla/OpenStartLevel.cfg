SPECIFICATION Spec
CONSTANTS
  Second = 1000
  Scenarios <- StartLevels
  OpenScenarios <- StartLevels
  AskedLoads = {}
  ClosedScenarios = {}
  LevelUnit = 2
  CountBound = 100
INVARIANT RateWithinLevel
