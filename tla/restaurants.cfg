SPECIFICATION Spec
CONSTANTS
  a = a
  b = b
  Restaurants = {1, 2}
  Places = {"here", "there"}
  Types = {"fast"}
  Clients <- BothClients
  Filters <- MCFilters
  Bookmarkable <- MCBookmarkable
  FirstProfile <- MCFirstProfile
  FirstListed = {{}, {1, 2}}
  Faults = TRUE
  MaxChanges = 1
  MaxQueue <- MCMaxQueue
INVARIANTS
  ListKeepsItsFilter
PROPERTIES
  QuietAnswerIsExact
