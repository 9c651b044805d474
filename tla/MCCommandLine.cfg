SPECIFICATION Spec
CONSTANTS
    Offered <- MCOffered
    MaxGlobals = 2
    MaxOwn = 2
    MaxGiven = 3
    MaxMembers = 2
    MaxRecords = 2
    MaxEvents = 1
INVARIANTS
    TypeOK
    RefusalIsClean
    RequestIsFaithful
    ExitIsTrue
    OutputIsSound
    ClientInOrder
