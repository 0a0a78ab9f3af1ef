SPECIFICATION Spec
CONSTANTS
  MaxCalls = 1
  SeqMod = 4
  RTO = 1
  MaxResends = 5
  ResendBatch = 2
  Window = 4
  MaskSize = 2
  MaxDelay = 0
  PollLag = 0
  LastIssue = 1
  MaxTime = 8
INVARIANT AtMostOnce
CHECK_DEADLOCK FALSE
