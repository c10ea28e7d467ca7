SPECIFICATION Spec
CONSTANTS
  None = None
  Leases = {l1}
  Stops = {s1}
  Callers = {l1, s1}
  MaxEdits = 2
INVARIANTS
  
  TeardownTrue
  DeploysWhatWasShown
  LeaseNeverLost
  SuccessMeansReady
CHECK_DEADLOCK FALSE
