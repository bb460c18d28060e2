SPECIFICATION Spec
CONSTANTS
    b1 = b1
    b2 = b2
    FsBlocks <- MCFsBlocks
    DirtyLists <- PairLists
    LogStates = {"LOGMOUNT", "LOGWRAP", "LOGREDONE"}
    LogPages = 16
    MaxUnit = 3
    MaxVal = 7
    MaxMount = 2
    LogFaults = TRUE
CHECK_DEADLOCK FALSE
INVARIANTS
    AckedSurvivesUnreplayed
    
