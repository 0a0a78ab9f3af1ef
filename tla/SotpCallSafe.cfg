SPECIFICATION FairSpec
CONSTANTS
  MaxCalls = 2
  SeqMod = 4
  RTO = 1
  MaxResends = 3
  ResendBatch = 1
  Window = 4
  MaskSize = 2
  MaxDelay = 1
  PollLag = 0
  LastIssue = 2
  MaxTime = 7
INVARIANTS TypeOK AtMostOnce
PROPERTIES GiveUpPatience CallOnceSafety CallOnceFair
CHECK_DEADLOCK FALSE
