SPECIFICATION TFairSpec
CONSTANTS
  W = 2
  Capacity = 1
  CPUCount = 1
  Spins = TRUE
  Boosts = TRUE
  MaxPrio = 3
  RTLimit = 3
  Requests <- RRandFIFO
PROPERTY Termination
CHECK_DEADLOCK FALSE
