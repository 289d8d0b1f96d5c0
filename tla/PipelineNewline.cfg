SPECIFICATION Spec
CONSTANTS
  Workers = {1, 2}
  Confs <- FailingAsserts
  InputStrings <- MCInputStrings
  Lines <- MCLines
  IndexSpace = 8
  RecordLen = 2
  BufSize = 3
  TraceLevel = 400
  ReadSize = 3
  DummyLabels <- MCDummyLabels
INVARIANT ReadAsPushed
CHECK_DEADLOCK FALSE
