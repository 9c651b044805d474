SPECIFICATION Spec
CONSTANTS
  Ids = {a}
  Readers = {x}
  MaxRecords = 2
  MaxEvents = 2
INVARIANTS
  TypeOK
  OutcomeIsSure
  LiveIsHeld
  NothingIsMissed
PROPERTIES
  RecordsKeepThePromise
CHECK_DEADLOCK FALSE
