SPECIFICATION Spec
CONSTANTS
    b1 = b1
    b2 = b2
    FsBlocks <- OneBlock
    DirtyLists <- SingleLists
    LogStates = {"LOGREDONE"}
    LogPages = 16
    MaxUnit = 1
    MaxVal = 2
    MaxMount = 1
    LogFaults = FALSE
CHECK_DEADLOCK FALSE
INVARIANT JournaledRecovered
