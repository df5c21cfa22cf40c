SPECIFICATION FairSpec
INVARIANT HumanIsNamed
CONSTANTS
  None = None
  Blank = Blank
  s1 = s1
  s2 = s2
  f1 = f1
  f2 = f2
  h1 = h1
  h2 = h2
  Sessions = {s1, s2, f1, f2}
  Short = {}
  Owner <- MCOwner
  Tokens = {}
  TokenUser <- NoTokens
  Burst = 1
  Handlers = {h1, h2}
  Requests <- MCRequests
  Confs <- PlainConfs
  Issued <- MCIssued
  AlarmCap = 1
  MaxLines = 2
