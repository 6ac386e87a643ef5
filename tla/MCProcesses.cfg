SPECIFICATION ProcessesSpec
CONSTANTS
  Jobs = {j1}
  Sessions = {s1, s2}
  NoSession = NoSession
  MaxBackground = 1
  Overlap = FALSE
  LspCalls = {1, 2}
  Turns = {1, 2}
  PathLists <- MCPathLists
  Within <- MCWithin
  UserServers <- MCUserServers
  MaxFilesPerCall = 2
  MaxClients = 2
INVARIANTS  ServersKnown AnswersOwn
PROPERTIES JobsEnd 
CHECK_DEADLOCK FALSE
