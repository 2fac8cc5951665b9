SPECIFICATION MCSpec
CONSTANTS
  Cells = {c1, c2}
  MaxGen = 0
  NoOwner = NoOwner
  NProducers = 2
  BatchLimit = 1
  Fold = FALSE
  OwnFields = FALSE
  MaxOps = 3
  MaxFields = 1
  Givers = {1}
  CloseAlone = FALSE
  MaxAttempts = 8
  Shown = c1
CHECK_DEADLOCK FALSE
INVARIANT NothingLost
