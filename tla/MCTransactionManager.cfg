SPECIFICATION Spec
CONSTANTS
    i1 = i1
    i2 = i2
    i3 = i3
    b1 = b1
    b2 = b2
    Inodes <- MCInodes
    Blocks <- MCBlocks
    BlockOf <- MCBlockOf
    MaxTxn = 2
    MaxUpdate = 3
    MaxData = 1
    StorageFaults = TRUE
SYMMETRY MCSymmetry
INVARIANTS
    TypeOK
    
    
    DirtyPagesOwned
    AcknowledgedDurable
CHECK_DEADLOCK FALSE
