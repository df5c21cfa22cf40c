SPECIFICATION FairSpec
INVARIANTS
  TypeOK
  SessionSentIsAuthorised
  ChargedOnceToPresented
  LimiterHolds
  CachedMergeIsWhole
  FailureIsTold
PROPERTY RequestsEnd
CONSTANTS
  None = None
  Blank = Blank
  s1 = s1
  s2 = s2
  t1 = t1
  ip1 = ip1
  h1 = h1
  h2 = h2
  Sessions = {s1, s2}
  Short = {s1}
  Owner <- MCOwner
  Tokens = {t1}
  TokenUser <- MCTokenUser
  Burst = 1
  Handlers = {h1, h2}
  IPs = {ip1}
  Requests <- MCRequests
  Confs <- MCConfs
  ReadTimeoutSecs = 10
  AlarmCap = 1
  MaxParts = 2
