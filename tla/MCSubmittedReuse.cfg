SPECIFICATION Spec
CONSTANTS
  Hosts = {h}
  Ids = {a}
  Operations = {o, p}
  LIMIT = 1
  None = None
PROPERTIES
  ResultFreesTheId
CHECK_DEADLOCK FALSE
