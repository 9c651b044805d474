------------------------- MODULE MCHostOperations --------------------------
EXTENDS HostOperationsProps, TLC

\* Operations of one ID, and the calls, are interchangeable.
Symmetry == Permutations(Ids) \cup Permutations(Callers)
=============================================================================
