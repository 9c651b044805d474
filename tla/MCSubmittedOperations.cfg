SPECIFICATION FairSpec
CONSTANTS
  Hosts = {g, h}
  Ids = {a, b}
  Operations = {o, p}
  LIMIT = 1
  None = None
INVARIANTS
  TypeOK
  OneStory
PROPERTIES
  PromisesAreKept
  EveryRecordEnds
CHECK_DEADLOCK FALSE
