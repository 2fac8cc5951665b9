SPECIFICATION Spec
CONSTANTS
  Cells = {c1}
  MaxGen = 2
  NoOwner = NoOwner
  NProducers = 2
  BatchLimit = 3
  Fold = TRUE
  OwnFields = TRUE
  MaxOps = 5
  MaxFields = 1
SYMMETRY SlotSymmetry
CHECK_DEADLOCK FALSE
INVARIANTS ReachableIsLive
