SPECIFICATION FairSpec
CONSTANTS
  a = a
  b = b
  Blocks = {a, b}
  Ways = 1
  Entries = 2
  MergeLimits = {1, 2}
  MissSize = 3
  QueueSize = 1
  WriteHits = {"back", "through", "evict"}
  Allocations = {TRUE, FALSE}
  Kinds = {"read", "write", "wrbk"}
  MaxRequests = 4
INVARIANTS OncePerRequest FetchMatchesEntry
PROPERTIES DirtyLinesWrittenBack AllEnd
