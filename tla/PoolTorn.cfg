SPECIFICATION Spec
CONSTANTS
  c1 = c1
  c2 = c2
  Client = {c1, c2}
  MinSize = 2
  MaxSize = 2
  Patience = 0
  ErrorLimit = 0
INVARIANT CommitIsWhole
CHECK_DEADLOCK FALSE
