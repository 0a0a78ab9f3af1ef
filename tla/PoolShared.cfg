SPECIFICATION FairSpec
CONSTANTS
  c1 = c1
  c2 = c2
  Client = {c1, c2}
  MinSize = 1
  MaxSize = 2
  Patience = 0
  ErrorLimit = 1
INVARIANTS TypeOK Exclusive NoLostSink Connected
PROPERTIES GetReturns
CHECK_DEADLOCK FALSE
