CONSTANTS
    i1 = i1
    o1 = o1
    o2 = o2
    o3 = o3
    Inodes <- MCInodes
    Owners <- MCOwners
    Starts <- MCStarts
    Lens <- MCLens
    FileSizes <- MCFileSizes
    U64_MAX = 7
    MaxLocks = 2
SPECIFICATION Spec
SYMMETRY OwnerSymmetry
INVARIANTS
    LockTypeOK
    
    FlockExclusion
    GetlkReply
PROPERTY
    OthersKept
