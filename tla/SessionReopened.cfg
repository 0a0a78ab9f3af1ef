SPECIFICATION Spec
CONSTANTS
  MaxReq = 3
  MaxSessions = 2
  MaxRemote = 1
  Uses <- ImpatientOnly
INVARIANT DropsOnlyDuplicates
CHECK_DEADLOCK FALSE
