SPECIFICATION FairSpec
INVARIANTS TypeOK HitAnswersTheRequest
PROPERTY RequestsEnd
CONSTANTS
  None = None
  page = page
  pageOf = pageOf
  merged = merged
  form = form
  list = list
  s1 = s1
  s2 = s2
  b1 = b1
  b2 = b2
  Rest = Rest
  Resources = {page, pageOf, merged, form, list}
  Services = {"cnc", "public"}
  Tag <- MCTag
  Sessions = {s1, s2}
  Bodies = {b1, b2}
  Chars <- MCChars
  Text <- MCText
  Requests <- Cacheable
  Confs <- AllConfs
  QueueCap = 1
  TTLSecs = 1
  Handlers = {h1, h2}
  MaxTime = 2
  MaxRequests = 2
CHECK_DEADLOCK FALSE
