SPECIFICATION FairSpec
CONSTANTS
  w1 = w1
  w2 = w2
  i1 = i1
  i2 = i2
  Worker = {w1, w2}
  Id = {i1, i2}
  MaxTimers = 4
  MaxOps = 3
  MaxCallbacks = 1
  Owner <- OwnerOf
  Uses <- AllUses
INVARIANTS TypeOK DeletedInTime KillAllEndsAll
PROPERTIES CallsReturn
CHECK_DEADLOCK FALSE
