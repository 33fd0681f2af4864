SPECIFICATION PredFairSpec
CONSTANTS
  None = None
  a = a
  b = b
  Names <- TwoNames
  NameOf <- NamesInTurn
  MaxKernels = 3
  MaxGrid = 3
  Slots = 2
  Clusters = 2
  CoresPer = 2
  MaxCta = 2
  MaxSamples = 2
  Watched = 0
INVARIANTS CountsMatchCores WorkHasSlot LearnsOwnKernel
PROPERTIES KernelSpec KernelsFinish SampledVerdict
