CONSTANTS
    Inodes <- MCInodes
    Root = 3
    BlockOf <- MCBlockOf
    a = a
    b = b
    Names <- MCNames
    RootFree <- MCNoList
    DTROOTMAXSLOT = 4
    Capacity = 2
    MaxOpen = 1
    MaxFaults = 1
    MaxChanges = 4
    Explored <- MCUnhurt
SPECIFICATION Spec
SYMMETRY MCSymmetry
CHECK_DEADLOCK FALSE
INVARIANTS
    NamespaceTypeOK
    
    LinksExact
    NoInodeLost
    DirectoryTree
PROPERTIES
    OpenKept
