SPECIFICATION DSpec
CONSTANTS
  Clients = {a, b}
  Lens = {3, 40}
  Bytes = 256
  MaxOpens = 2
INVARIANT SizeMatches
CHECK_DEADLOCK FALSE
