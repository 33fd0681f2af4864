SPECIFICATION FairSpec
CONSTANTS
  NumSlots = 1
  PerCta = 2
  Lanes = {0, 1}
  Programs <- Kernels
  BarIds = {0}
  None = None
  MaxCtas = 2
  MaxMisses = 1
INVARIANTS BarriersHold StackMatchesThreads PipelineCountMatches
           FetchIsCurrent
PROPERTY CtasComplete
