SPECIFICATION MCSpec
CONSTANTS
  N = 3
  CPUs = {1}
  cpu <- Shared
  SBMax = 2
INVARIANT MutualExclusion
PROPERTY ImplementsMutex
PROPERTY NoStarvationInOrder
PROPERTY StarvationFree
