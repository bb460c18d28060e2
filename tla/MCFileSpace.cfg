CONSTANTS
    f1 = f1
    f2 = f2
    Files <- MCFiles
    Pmap <- MCPmap
    Explored <- MCUntainted
    MapSize = 5
    MaxXad = 2
    MaxFsb = 3
    MaxPending = 3
    MaxFaults = 1
SPECIFICATION Spec
SYMMETRY FileSymmetry
INVARIANTS
    FileSpaceTypeOK
    ExtentOpsExact
    SpaceExact
