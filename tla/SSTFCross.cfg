SPECIFICATION Spec
CONSTANTS
  Queues = {sda, sdb}
  Sectors = {0, 1, 3}
  MaxRequest = 3
  LongMax = 3
INVARIANT NearestTaken
