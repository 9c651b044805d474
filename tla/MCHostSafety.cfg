SPECIFICATION Spec
CONSTANTS
  Ids = {a, b}
  LIMIT = 1
  RECORDED_CANCELLATIONS = 1
  Callers = {c1, c2}
  MaxRegistrations = 2
  MaxPending = 1
  None = None
INVARIANTS
  TypeOK
  SlotLimit
  TicketsOwnLive
  CancelledWaitingNeverRuns
  CancelIsAimed
  CloseReportIsSound
  HookKeptWhileLive
  NoLostWakeup
PROPERTIES
  NothingStartsAfterClose
  KeepsThePromise
SYMMETRY Symmetry
CHECK_DEADLOCK FALSE
