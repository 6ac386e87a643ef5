SPECIFICATION TurnEndsSpec
CONSTANTS
  Agents = {}
  Turns = {t1, t2}
  NoTurn = NoTurn
  MaxRounds = 2
  Faults = TRUE
  Interrupts = TRUE
  Commands = TRUE
  PermCalls = {"t", "f"}
  CallTools <- TpTools
  CallAgent <- TpAgent
  WebHosts = {"h"}
  MaxRedirects = 1
  MaxListeners = 2
  MaxModes = 1
 
PROPERTIES   CallEnds
CHECK_DEADLOCK FALSE
