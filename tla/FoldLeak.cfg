SPECIFICATION Spec
CONSTANTS
  Cells = {c1, c2}
  MaxGen = 0
  NoOwner = NoOwner
  NProducers = 1
  BatchLimit = 3
  Fold = TRUE
  OwnFields = TRUE
  MaxOps = 3
  MaxFields = 1

CHECK_DEADLOCK FALSE
INVARIANT NoGarbageLeft
