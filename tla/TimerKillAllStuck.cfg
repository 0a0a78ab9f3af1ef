SPECIFICATION Spec
CONSTANTS
  w1 = w1
  w2 = w2
  i1 = i1
  i2 = i2
  Worker = {w1}
  Id = {i1}
  MaxTimers = 2
  MaxOps = 2
  MaxCallbacks = 1
  Owner <- OwnerOf
  Uses <- SetAgainOnly
INVARIANT NoWaitCycle
CHECK_DEADLOCK FALSE
