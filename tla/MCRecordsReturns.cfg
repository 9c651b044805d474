SPECIFICATION FairSpec
CONSTANTS
  Ids = {a}
  Readers = {x, y}
  MaxRecords = 1
  MaxEvents = 1
INVARIANTS
  NoReaderLeftAsleep
PROPERTIES
  EveryReaderReturns
CHECK_DEADLOCK FALSE
