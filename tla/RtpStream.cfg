SPECIFICATION Spec
CONSTANTS
  NumSeq = 36
  Half = 17
  Ring = 4
  MaxResend = 2
  Near = 2
  Far = 4
  Restart = {1, 2}
  Settled = {8, 9, 10, 11, 12}
  Pause = 3
  Stale = 100
  MaxFrames = 3
  Uses <- StreamUses
CHECK_DEADLOCK FALSE
INVARIANTS
  TypeOK
  Playback
  Repaired
  Relayed
PROPERTIES
  AskedIsMissing
