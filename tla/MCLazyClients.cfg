SPECIFICATION LazySpec
CONSTANTS
  None = None
  Keys = {k1}
  Managers = {m1, m2}
  Coords = {c1, c2}
  Signers = {s1}
  Tasks = {t1, t2}
  MaxHolders = 2
  AllowClear = TRUE
  Inits = {i1, i2}
  MaxTries = 1
SYMMETRY Symmetry
INVARIANTS NoOrphanTransport NothingLatched BroadcastsOnOpenClient
 
CHECK_DEADLOCK FALSE
