SPECIFICATION FairSpec
CONSTANTS
    Validators <- MCValidators
    CiValidator = "a"
    CiUsers <- MCCiUsers
    PqsSlots <- MCPqsSlots
    MaxFaults = 2
    MaxStarts = 1
INVARIANTS
    DoneMeansOnboarded
PROPERTIES
    ScribesReadAll
    OnboardingEnds
CHECK_DEADLOCK FALSE
