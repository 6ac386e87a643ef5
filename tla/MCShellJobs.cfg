CONSTANTS
  Jobs = {j1, j2}
  Sessions = {s1}
  NoSession = NoSession
  MaxBackground = 1
  Overlap = FALSE
SPECIFICATION Spec
SYMMETRY JobSymmetry
INVARIANTS  BoundedProcesses
PROPERTIES FinalRecordIsKept
CHECK_DEADLOCK FALSE
