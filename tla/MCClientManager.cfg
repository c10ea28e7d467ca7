SPECIFICATION Spec
CONSTANTS
  None = None
  Keys = {k1, k2}
  Managers = {m1, m2, m3}
  Coords = {c1, c2}
  Signers = {s1}
  Tasks = {t1, t2, t3}
  MaxHolders = 2
  AllowClear = TRUE
SYMMETRY Symmetry
INVARIANTS SerializedPerSigner DrainProtectsBroadcasts SharedStateExact
PROPERTY ImplementsSignerMutex
CHECK_DEADLOCK FALSE
