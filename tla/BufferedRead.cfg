SPECIFICATION Spec
CONSTANTS
  LoopSize = 3
  BufioSize = 3
  Responses <- Chunked
INVARIANT TakenInOrder
CHECK_DEADLOCK FALSE
