SPECIFICATION MCSpec
CONSTANTS
    Collectors = {"arc", "local", "adaptive"}
    Cells = {1, 2}
    MaxGen = 0
    NoOwner = NoOwner
    NArgs = 1
    NLocals = 1
    NGlobals = 1
    Fields = {f}
    FixedInterval = 2
    MaxInterval = 3
    ThresholdMin = 1
    ThresholdInit = 2
    ThresholdMax = 2
    YieldMin = 1
    HeapTarget = 2
    AllocThreshold = 2
    MaxFrames = 1
    MaxHandlers = 1
    MaxData = 1
INVARIANTS TypeOK NoDanglingRef CountsExact NothingLeaks GarbageIsSuspected HandlersBelongToCalls
CHECK_DEADLOCK FALSE
