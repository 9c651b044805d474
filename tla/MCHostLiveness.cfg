SPECIFICATION FairSpec
CONSTANTS
  Ids = {a, b}
  LIMIT = 1
  RECORDED_CANCELLATIONS = 1
  Callers = {c1}
  MaxRegistrations = 2
  MaxPending = 0
  None = None
PROPERTIES
  OperationsLeave
  EveryCallReturns
CHECK_DEADLOCK FALSE
