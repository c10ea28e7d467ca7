-------------------------- MODULE MCClientManager --------------------------
\* ClientManager for TLC: two keys so that distinct managers share a
\* coordination object, three managers so that a key can be rebuilt.
EXTENDS ClientManager, TLC

Symmetry == Permutations(Managers) \cup Permutations(Tasks)
              \cup Permutations(Keys) \cup Permutations(Coords)
=============================================================================
