SPECIFICATION FairSpec
CONSTANTS
    Slots <- MCSlots
    SV = "sv"
    PqsSlots <- MCPqsSlots
    PqsDefaultSlots <- MCPqsDefaultSlots
    Hints <- MCHints
    Files <- MCFiles
    NoFile = NoFile
    Flags <- MCFlags
    NoHint = NoHint
    MaxCommands = 2
    Wants <- MCWants
    Timeout = 2
    PollInterval = 1
    RequestTimeout = 1
PROPERTIES
    ReadyHolds
    SyncTimeoutHasCause
    DownLeavesOnlyUnselected
    AbortsForCause
    WaitEnds
