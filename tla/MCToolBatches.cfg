CONSTANTS
  Paths = {p1, p2}
  MaxTurns = 2
  MaxRounds = 2
  MaxCalls = 3
  MaxRestarts = 1
  maxConcurrentReadTools = 2
SPECIFICATION Spec
INVARIANTS RoundInv WritesAlone
PROPERTIES PatchNeedsRead
CHECK_DEADLOCK FALSE
