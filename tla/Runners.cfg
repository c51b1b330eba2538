SPECIFICATION MCSpec
CONSTANTS
  W = 3
  Capacity = 2
  CPUCount = 1
  Spins = TRUE
  Boosts = TRUE
  MaxPrio = 3
  RTLimit = 3
  Requests <- BelowHighest
PROPERTY FillsBuffer
PROPERTY SpinningEnds
PROPERTY SleepingEnds
CHECK_DEADLOCK FALSE
