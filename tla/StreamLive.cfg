CONSTANTS
  s1 = s1
  s2 = s2
  h1 = h1
  Streams = {s1, s2}
  Zero = Zero
  Hosts = {h1}
  Gpu = Gpu
  NoOne = NoOne
  Slots = 2
  MaxOps = 2
  Blocking = FALSE
  HasLimit = FALSE
  DrainFirst = TRUE
  Calls = {"push", "sync", "streamSync", "add", "destroy", "exit"}
SPECIFICATION FairSpec
PROPERTIES OpsComplete CallsReturn
