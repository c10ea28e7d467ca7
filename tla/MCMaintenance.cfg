CONSTANTS
  None = None
  Calls = {p1, p2}
  Keys = {k1, k2, k3}
  MaxPolls = 1
  MaxLag = 1
SPECIFICATION Spec
INVARIANTS RunsAtMostOnce  HandleKept NeverReplayed
PROPERTIES CallsAnswered
CHECK_DEADLOCK FALSE
