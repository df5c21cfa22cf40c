CONSTANTS
  None = None
  Requests <- OneStream
  Groups <- MCGroups
  Kind <- MCKind
  Capacity <- MCCapacity
  EsCap = 1
  Malformed = {}
  NoFlush = {}
  ContextWithFallback = FALSE
  MaxChunks = 1
SPECIFICATION Spec
INVARIANT ProcessSurvives
CHECK_DEADLOCK FALSE
