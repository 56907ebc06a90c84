SPECIFICATION Spec
CONSTANTS
    Slots <- MCSlots
    PqsSlots <- MCPqsSlots
    SyncSlots <- MCSlots
    Budget = 3
    Caps = {0, 2}
    MaxBoots = 2
INVARIANTS
    UncontaminatedExport
    TeardownFinds
    GreenMeansClean
PROPERTIES
    BootEnds
CHECK_DEADLOCK FALSE
