SPECIFICATION PFairSpec
CONSTANTS
  N = 3
  Capacity = 1
  CPUCount = 1
  MaxPrio = 3
  RTLimit = 3
  Requests <- ThreeKinds
INVARIANT MutualExclusion
INVARIANT ListsReady
INVARIANT NoLeak
PROPERTY ImplementsSemaphore
PROPERTY Termination
CHECK_DEADLOCK FALSE
