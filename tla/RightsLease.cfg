SPECIFICATION Spec
CONSTANTS
    Leases = {l1, l2}
    l1 = l1
    l2 = l2
    Rights = {a, b}
    a = a
    b = b
    Nobody = Nobody
    Outsider = Outsider
    MaxFaults = 2
    MaxOutside = 1
INVARIANTS
    NoSilentLeak
    OwnsOnlyItsGrants
PROPERTIES
    LeaseDrains
CHECK_DEADLOCK FALSE
