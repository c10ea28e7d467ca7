--------------------------- MODULE MCLazyClients ---------------------------
\* LazyClients for TLC: one key, whose manager can be torn down and rebuilt.
EXTENDS LazyClients, TLC

Symmetry == Permutations(Managers) \cup Permutations(Tasks)
              \cup Permutations(Coords) \cup Permutations(Inits)
=============================================================================
