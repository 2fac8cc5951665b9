SPECIFICATION Spec
CONSTANTS
  NSlots = 2
  Cap = 4
  MaxSpan = 3
  BatchLimit = 2
  SpanPath = TRUE
  MaxIssue = 6
  MaxTotal = 6
  MaxTogether = 2
  MaxTicket = 1
ACTION_CONSTRAINT Narrowed
INVARIANTS TypeOK ConsistentCut QuiesceCovers DrainedAtExit RunIsFree
