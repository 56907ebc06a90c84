SPECIFICATION Spec
CONSTANTS
    Parties <- MCParties
    Rights <- MCRights
    Bounds = {1, 2}
    MaxOutside = 2
INVARIANTS
    TakesOnlyConsented
    TakesFromMarkedUserOnly
    StatusTwoIsUntouched
    StatusZeroIsSwept
CHECK_DEADLOCK FALSE
