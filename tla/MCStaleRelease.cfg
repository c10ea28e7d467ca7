SPECIFICATION FairSpec
CONSTANTS
  None = None
  Keys = {k1}
  Managers = {m1}
  Coords = {c1}
  Signers = {s1}
  Tasks = {t1, t2}
  MaxHolders = 2
  AllowClear = FALSE
INVARIANT ReleaseResolvesTornDown
CHECK_DEADLOCK FALSE
