---------------------------- MODULE MCRestoreApp ----------------------------
\* RestoreApp for TLC: the calls are interchangeable.
EXTENDS RestoreApp, TLC

Symmetry == Permutations(Calls)
=============================================================================
