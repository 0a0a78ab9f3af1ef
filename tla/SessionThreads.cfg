SPECIFICATION FairSpec
CONSTANTS
  c1 = c1
  c2 = c2
  t1 = t1
  t2 = t2
  t3 = t3
  Client = {c1, c2}
  Thread = {t1, t2, t3}
  MaxReq = 4
  MaxSessions = 5
  Uses <- AllUses
INVARIANTS TypeOK CallbacksPaired Reached
PROPERTIES Forgotten
CHECK_DEADLOCK FALSE
