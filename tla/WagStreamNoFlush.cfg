CONSTANTS
  None = None
  Requests <- OneStream
  Groups <- MCGroups
  Kind <- MCKind
  Capacity <- MCCapacity
  EsCap = 1
  Malformed = {}
  NoFlush <- MCGroups
  ContextWithFallback = FALSE
  MaxChunks = 1
SPECIFICATION FairSpec
PROPERTY StreamFinishes
CHECK_DEADLOCK FALSE
