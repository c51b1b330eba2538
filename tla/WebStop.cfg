SPECIFICATION WebFairSpec
CONSTANTS
  Callers = {rc}
  MaxPid = 1
PROPERTY StopStops
CHECK_DEADLOCK FALSE
