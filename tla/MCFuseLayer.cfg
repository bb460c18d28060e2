CONSTANTS
    i1 = i1
    i2 = i2
    Inodes <- MCInodes
    BlockOf <- MCBlockOf
    MaxFh = 3
    MaxKnown = 2
    MaxLinks = 2
    MaxFaults = 1
SPECIFICATION Spec
SYMMETRY MCSymmetry
INVARIANTS
    FuseTypeOK
    HandlesHeld
    HeldCounted
    LookupCovered
PROPERTIES
    OpenNotFreed
CHECK_DEADLOCK FALSE
