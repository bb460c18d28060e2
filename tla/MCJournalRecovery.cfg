SPECIFICATION RecoverySpec
CONSTANTS
    b1 = b1
    b2 = b2
    FsBlocks <- MCFsBlocks
    Tids = {1, 2}
    Aggregates = {0, 1}
    LogEntries <- AllKinds
    MaxLog = 4
    MaxRestart = 1
INVARIANTS
    OnlyCommittedApplied
    
PROPERTY RecoveryEnds
CHECK_DEADLOCK FALSE
