SPECIFICATION FairSpec
CONSTANTS
  SMs = {a, b, c}
  None = None
  Control = Control
  MaxReplies = 4
  Stages = 2
  BufferSize = 1
  RecSize = 3
  Arms = {TRUE, FALSE}
  Algorithms = {"off", "same", "same diff", "diff same"}
INVARIANTS OncePerReply PacketsSeparable ReadsInOrder
PROPERTIES AllInjected
