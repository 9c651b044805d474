------------------------------ MODULE MCRelease ------------------------------
EXTENDS ReleaseProps, TLC

Symmetry == Permutations(Clones) \cup Permutations(Versions)
=============================================================================
