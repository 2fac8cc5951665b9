SPECIFICATION FairSpec
CONSTANTS
  Cells = {c1, c2}
  MaxGen = 0
  NoOwner = NoOwner
  NProducers = 2
  BatchLimit = 1
  Fold = FALSE
  OwnFields = TRUE
  MaxOps = 4
  MaxFields = 1

CHECK_DEADLOCK FALSE
PROPERTIES GarbageIsReclaimed ImplementsHeap
