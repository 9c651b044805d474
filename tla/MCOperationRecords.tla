------------------------ MODULE MCOperationRecords -------------------------
EXTENDS OperationRecordsProps, TLC

\* Readers are interchangeable, and so are operation IDs.
Symmetry == Permutations(Ids) \cup Permutations(Readers)
=============================================================================
