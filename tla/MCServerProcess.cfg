SPECIFICATION FairProcSpec
CONSTANTS
  None = None
  Keys = {k1}
  Managers = {m1}
  Coords = {c1}
  Signers = {s1}
  Tasks = {t1, t2}
  MaxHolders = 1
  AllowClear = FALSE
  Calls = {p1, p2}
INVARIANTS ProcTypeOK AcceptedSettle WalletOutlivesBroadcasts
PROPERTIES ShutdownExits 
CHECK_DEADLOCK FALSE
