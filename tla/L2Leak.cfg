SPECIFICATION Spec
CONSTANTS
  a = a
  b = b
  c = c
  Blocks = {a, b, c}
  Ways = 2
  Entries = 2
  MergeLimits = {2}
  MissSize = 3
  QueueSize = 2
  WriteHits = {"back"}
  Allocations = {TRUE}
  Kinds = {"read"}
  MaxRequests = 5
INVARIANTS ReservedAwaitsFill
