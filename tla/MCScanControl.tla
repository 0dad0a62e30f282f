-------------------------- MODULE MCScanControl --------------------------
EXTENDS ScanControl, TLC

Symmetry == Permutations(Ids) \cup Permutations(Cancellers)
=============================================================================
