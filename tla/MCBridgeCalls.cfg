SPECIFICATION FairSpec
CONSTANTS
  Tasks = {t1, t2, t3}
  Executor = 1
  LIMIT = 1
  None = None
INVARIANTS
  TypeOK
  CallsAreJoined
  CloseReportIsOne
PROPERTIES
  CloseAndCancelReturn
  EveryTaskEnds
CHECK_DEADLOCK FALSE
