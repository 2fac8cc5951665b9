SPECIFICATION Spec
CONSTANTS
    Programs <- MCPrograms
    Inputs <- MCInputs
    MaxChoices = 3
    Family = "all"
INVARIANTS FollowsTheSpec HandlersAreBalanced
PROPERTIES JumpsStayInside Terminates
CHECK_DEADLOCK FALSE
