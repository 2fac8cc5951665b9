SPECIFICATION FairSpec
CONSTANT MaxTogether = 1
CONSTANTS
  NSlots = 2
  Cap = 1
  MaxSpan = 1
  BatchLimit = 1
  SpanPath = FALSE
  MaxIssue = 2
  MaxTotal = 2
  MaxTicket = 1
PROPERTIES QuiesceReturns SettledIsSwept
