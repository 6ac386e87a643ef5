CONSTANTS
  Jobs = {j1}
  Sessions = {s1}
  NoSession = NoSession
  MaxBackground = 1
  Overlap = FALSE
SPECIFICATION Spec
INVARIANTS CloseKillsAll
CHECK_DEADLOCK FALSE
