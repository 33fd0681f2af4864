SPECIFICATION FairSpec
CONSTANTS
  c1 = c1
  w1 = w1
  w2 = w2
  r1 = r1
  Cores = {c1}
  Warps = {w1, w2}
  Regs = {r1}
  Blocks = {1, 2}
  Program <- SmallProgram
  None = None
  Depth = 2
  FifoSize = 1
  Compressions = {"off", "adaptive"}
  Ways = 1
  OnMiss <- Policies
  MaxIssued = 3
INVARIANTS CountsMatch ReservedUntilWritten RetiredIsDrained UnitHoldsOwn
PROPERTY WarpsRetire
