CONSTANTS
  MaxChanges = 2
  Attempts = 2
  MaxFailures = 1
SPECIFICATION Spec
INVARIANTS VerdictTrue
PROPERTIES WaitEnds
CHECK_DEADLOCK FALSE
