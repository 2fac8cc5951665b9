SPECIFICATION Spec
CONSTANTS
    Programs <- MCPrograms
    Inputs <- MCInputs
    MaxChoices = 3
    Family = "catch"
INVARIANTS FollowsTheSpec
CHECK_DEADLOCK FALSE
