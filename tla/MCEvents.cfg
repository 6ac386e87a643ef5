SPECIFICATION EventsSpec
CONSTANTS
  Agents = {a1, a2}
  Turns = {t1, t2, t3}
  NoTurn = NoTurn
  MaxRounds = 2
  Faults = TRUE
  Interrupts = TRUE
  Commands = FALSE
  Rows = 3
  ToolRows = 1
  MaxChatLines = 4
  WheelSteps = {2}
  Profiles = {"native", "integrated"}
  ScrollMinPerFrame = 1
  ScrollInstantThreshold = 1
  ScrollStepMed = 1
  ScrollStepHigh = 2
  HighFrom = 2
  ScrollMaxPending = 3
  PendingMax = 3
  MaxLater = 2
SYMMETRY Symmetry
INVARIANTS NotifyInv ScrollInv
PROPERTIES PlaceKept
CHECK_DEADLOCK FALSE
