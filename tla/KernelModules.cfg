SPECIFICATION MCSpec
CONSTANTS
  Clients = {a, b}
  Lens <- FewLens
  Bytes = 256
  MaxOpens = 3
  Queues = {sda, sdb}
  Sectors = {0, 1, 2, 5}
  MaxRequest = 3
  LongMax = 2
INVARIANT NothingLeft
INVARIANT OwnReply
INVARIANT SizeUnlessMet
INVARIANT Conserved
INVARIANT NearestUndisturbed
PROPERTY LeavesEventually
CHECK_DEADLOCK FALSE
