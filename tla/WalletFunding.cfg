SPECIFICATION Spec
CONSTANTS
    Target = 3
    Amount = 2
    Prices <- MCPrices
    Scale = 4
    MaxFundingTaps = 3
    Budget = 3
    InitialBackoff = 1
    MaxBackoff = 2
    RetryAfters = {0, 3}
    Holdings = {0, 2, 3}
    MaxTime = 3
    MaxOutside = 2
    MaxRuns = 2
INVARIANTS
    MintsOncePerTap
    OneTapSuffices
    RunningAgainIsNoOp
PROPERTIES
    CommandEnds
CHECK_DEADLOCK FALSE
