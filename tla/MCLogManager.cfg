CONSTANTS
    b1 = b1
    FsBlocks <- MCFsBlocks
    LogStates = {"LOGMOUNT"}
    MaxUnit = 3
    MaxVal = 6
    LogFaults = TRUE
SPECIFICATION LogSpec
CHECK_DEADLOCK FALSE
INVARIANTS
    LogTypeOK
    RecordsWellPlaced
    CommitDurable
    EndNotAhead
    CommitAfterPages
