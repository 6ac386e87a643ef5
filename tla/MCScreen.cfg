SPECIFICATION ScreenSpec
CONSTANTS
  ChatSessions = {"s", "r"}
  FirstSession = "s"
  MaxTurns = 2
  MaxCmds = 2
  MaxShownEvents = 1
  MaxShown = 4
  EventRoom = 1
  MainCalls = {"a", "b"}
  SubCalls = {"s"}
  MaxBlocks = 4
  MaxHeard = 1
  MaxClock = 1
INVARIANTS  CatalogInv
 
CONSTRAINT NotRaced
CHECK_DEADLOCK FALSE
