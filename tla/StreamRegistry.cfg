SPECIFICATION FairSpec
INVARIANTS GroupsMatchReference IndependentFirst FreshStreamIsFound
PROPERTY StreamsAreForgotten
CONSTANTS
  None = None
  Tiles = {1, 2}
  Queries = {0, 1}
  MaxRequests = 3
  id1 = id1
  id2 = id2
  Ids = {id1, id2}
  Lists <- MCLists
  MaxAge = 1
  Period = 1
