---------------------- MODULE MCSubmittedOperations ------------------------
EXTENDS SubmittedOperationsProps, TLC

Symmetry == Permutations(Hosts) \cup Permutations(Ids) \cup Permutations(Operations)
=============================================================================
