SPECIFICATION Spec
CONSTANTS
  Ids = {a}
  Readers = {x}
  MaxRecords = 2
  MaxEvents = 2
INVARIANTS
  StreamYieldsEachEvent
CHECK_DEADLOCK FALSE
