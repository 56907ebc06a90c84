SPECIFICATION Spec
CONSTANTS
    Versions = {v1, v2, v3}
    v1 = v1
    v2 = v2
    v3 = v3
    Volumes = {postgres, canton}
    postgres = postgres
    canton = canton
    NoKey = NoKey
    MaxBoots = 4
SYMMETRY Symmetry
INVARIANTS
    ChangedVersionStartsFresh
    KeyTellsWriters
CHECK_DEADLOCK FALSE
