SPECIFICATION FairSpec
CONSTANTS
    Calls <- MCCalls
    Cancellable = {"other"}
    Leeway = 1
    Lifetimes = {2}
    NoToken = NoToken
    Free = Free
    MaxTime = 1
    Dars = {"dar", "rival"}
    Dar <- MCDar
    Expects = {"one"}
    Synchronizers = {s1, s2}
    Null = Null
    MaxAttempts = 2
PROPERTIES
    ImplementsTokenService
    ImplementsPackageVetting
    UploadEnds
CHECK_DEADLOCK FALSE
