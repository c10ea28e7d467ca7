SPECIFICATION Spec
CONSTANTS
  Calls = {r1, r2}
SYMMETRY Symmetry
INVARIANTS NeverCancelsPosted RolledBackTrue CreatedLeaseNamed
PROPERTY ImplementsRestoreOutcome
CHECK_DEADLOCK FALSE
