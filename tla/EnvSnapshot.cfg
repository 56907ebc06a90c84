SPECIFICATION EnvSpec
CONSTANTS
    Slots <- MCSlots
    SV = "sv"
    CiSlot = "a"
    PqsSlots = {"a", "b"}
    JobEnvs <- MCJobEnvs
    Configs <- MCConfigs
    Requests <- MCRequests
    DefaultClient <- MCDefaultClient
    CiClient <- MCCiClient
    Tokens <- MCTokens
    Text <- MCText
    MaxSteps = 3
    MaxEdits = 1
INVARIANTS
    SecretsKept
    PairedUnlessSplit
    NothingOfFailedSteps
PROPERTIES
    StableExports
CHECK_DEADLOCK FALSE
