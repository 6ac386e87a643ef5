SPECIFICATION SubagentsSpec
CONSTANTS
  Agents = {a1}
  Turns = {t1, t2}
  NoTurn = NoTurn
  MaxRounds = 1
  Faults = FALSE
  Interrupts = FALSE
  Commands = FALSE
  c1 = c1
  c2 = c2
  i1 = i1
  i2 = i2
  Calls = {c1, c2}
  RunIds = {i1, i2}
  Params <- MCParams
  RunSessions = 2
  MaxParallel = 1
  MaxRequests = 1
  MaxRunFaults = 1
  MaxRestarts = 1
INVARIANTS RunsKept 
PROPERTIES NoticeSeen RecordFinal RunEnds
CHECK_DEADLOCK FALSE
