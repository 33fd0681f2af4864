CONSTANTS
  r1 = r1
  r2 = r2
  r3 = r3
  r4 = r4
  Replies = {r1, r2, r3, r4}
  None = None
  Depths = {1}
  MergedDepths = {1}
  EjectSize = 2
  BufferSize = 1
  MaxPacket = 2
  Guarded = FALSE
  Modes = {"decompress"}
SPECIFICATION Spec
INVARIANTS CountsPending
