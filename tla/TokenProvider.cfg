SPECIFICATION Spec
CONSTANTS
    Callers = {g1, g2}
    g1 = g1
    g2 = g2
    Lifetimes <- MCLifetimes
    RefreshSkew = 1
    RequestTimeout = 1
    MaxTime = 2
    MaxCalls = 3
    MaxInvalidations = 1
INVARIANTS
    SingleFlight
    NoLostWakeup
    OwnCancellationOnly
    FreshMeansAlive
PROPERTIES
    CallReturns
CHECK_DEADLOCK FALSE
