CONSTANTS
  None = None
  Requests <- EmptyAndShared
  Groups <- MCGroups
  Kind <- MCKind
  Capacity <- MCCapacity
  EsCap = 1
  Malformed = {}
  NoFlush = {}
  ContextWithFallback = FALSE
  MaxChunks = 2
SPECIFICATION FairSpec
PROPERTY StreamFinishes
CHECK_DEADLOCK FALSE
