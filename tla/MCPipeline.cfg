SPECIFICATION FairSpec
CONSTANTS
  Workers = {1, 2}
  Confs <- MCConfs
  InputStrings <- MCInputStrings
  Lines <- MCLines
  IndexSpace = 4
  RecordLen = 2
  BufSize = 3
  TraceLevel = 400
  ReadSize = 3
  DummyLabels <- MCDummyLabels
INVARIANTS
  TypeOK
  LimitHonoured
  StringsBeforeRecords
  SecondOnDisk
  ClosedComplete
CHECK_DEADLOCK FALSE
PROPERTIES
  StreamSpec
  InputServes
  
