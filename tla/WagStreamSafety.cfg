CONSTANTS
  None = None
  Requests <- ApiAndStream
  Groups <- MCGroups
  Kind <- MCKind
  Capacity <- MCCapacity
  EsCap = 1
  Malformed <- MCGroups
  NoFlush <- MCGroups
  ContextWithFallback = TRUE
  MaxChunks = 4
SPECIFICATION Spec
INVARIANTS TypeOK StreamInv SendersDone NothingLost
PROPERTY ImplementsContract
CHECK_DEADLOCK FALSE
