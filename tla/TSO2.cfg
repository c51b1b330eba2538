SPECIFICATION Spec
CONSTANTS
  N = 2
  CPUs = {1, 2}
  cpu <- Apart
  SBMax = 2
INVARIANT MutualExclusion
