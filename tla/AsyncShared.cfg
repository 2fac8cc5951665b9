SPECIFICATION Spec
CONSTANTS
  Cells = {c1, c2}
  MaxGen = 0
  NoOwner = NoOwner
  NProducers = 2
  BatchLimit = 2
  Fold = FALSE
  OwnFields = TRUE
  MaxOps = 5
  MaxFields = 1
SYMMETRY SlotSymmetry
CHECK_DEADLOCK FALSE
INVARIANTS TypeOK ReachableIsLive NoGarbageLeft TableIsExact SuspectIsQueued
