CONSTANTS
  r1 = r1
  r2 = r2
  r3 = r3
  r4 = r4
  r5 = r5
  Replies = {r1, r2, r3, r4, r5}
  None = None
  Depths = {1, 3}
  MergedDepths = {1}
  EjectSize = 2
  BufferSize = 1
  MaxPacket = 3
  Guarded = TRUE
  Modes = {"bypass", "adaptive"}
SPECIFICATION FairSpec
INVARIANT CountsPending
PROPERTIES ChannelSpec AllDelivered
