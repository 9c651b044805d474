SPECIFICATION FairSpec
CONSTANTS
  Clones = {x, y}
  Versions = {v}
  MaxMain = 2
  MaxFailures = 3
  None = None
PROPERTIES
  ReleaseGetsOut
