CONSTANTS
  s1 = s1
  s2 = s2
  h1 = h1
  Streams = {s1, s2}
  Zero = Zero
  Hosts = {h1}
  Gpu = Gpu
  NoOne = NoOne
  Slots = 1
  MaxOps = 3
  Blocking = FALSE
  HasLimit = FALSE
  DrainFirst = FALSE
  Calls = {"push", "sync", "streamSync", "add", "destroy", "exit"}
SPECIFICATION Spec
INVARIANT PendingMeansStarted
CHECK_DEADLOCK FALSE
