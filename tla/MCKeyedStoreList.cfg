CONSTANTS
  Files <- AllFiles
  Additions = {}
  Texts = {"n"}
  MaxEdits = 1
SPECIFICATION Spec
INVARIANTS
  RemovedIsGone
CHECK_DEADLOCK FALSE
