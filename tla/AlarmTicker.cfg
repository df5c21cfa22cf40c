SPECIFICATION FairSpec
INVARIANTS TypeOK NoFalseAlarm BurstReported ReportsSurviveRestart
PROPERTY HandlersUnblock
CONSTANTS
  None = None
  Clients = {u}
  AllowListed = {u}
  Invalid = {}
  Limit <- OneLimit
  BufferSize = 3
  ExceedingsSize = 2
  Threshold = 250
  MinReports = 1
  CounterCap = 1
  Handlers = {h1, h2}
  Cleaners = {k1}
  MaxTime = 2
  MaxRequests = 3
  MaxStarts = 2
CHECK_DEADLOCK FALSE
