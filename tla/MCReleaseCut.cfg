SPECIFICATION Spec
CONSTANTS
  Clones = {x, y}
  Versions = {v, w}
  MaxMain = 2
  MaxFailures = 1
  None = None
INVARIANTS
  TypeOK
  TagsAreChecked
  TagsAreOnRelease
PROPERTIES
  TagsStay
  BranchIsFoundOrChecked
SYMMETRY Symmetry
