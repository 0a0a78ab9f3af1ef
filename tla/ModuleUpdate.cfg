SPECIFICATION FairSpec
CONSTANTS
  c1 = c1
  c2 = c2
  l1 = l1
  l2 = l2
  None = None
  Caller = {c1, c2}
  Lib = {l1, l2}
  LockStates = {"LS_NONE", "LS_WAIT", "LS_RETURN"}
  CallTime = 1
  Grace = 2
  Reopens = FALSE
  KillsTimers = FALSE
INVARIANTS TypeOK RunsInLive WaitSerial Settled
PROPERTIES NoGap AllEnd
CHECK_DEADLOCK FALSE
