SPECIFICATION FairSpec
CONSTANTS
    Calls = {c1, c2}
    Hints = {app, app2}
    None = None
    MaxAttempts = 3
INVARIANTS
    AdoptsOnlyInDoubt
    VerdictIsFinal
PROPERTIES
    AllocationEnds
CHECK_DEADLOCK FALSE
