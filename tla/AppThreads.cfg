SPECIFICATION FairSpec
CONSTANTS
    Jobs = {1}
    PipeCap = 9
    StdinWrites = {TRUE, FALSE}
    MaxUpdates = 2
    MaxKeys = 2
    MaxSignals = 1
INVARIANTS RequestsReachMain JobsSeeLiveUi
PROPERTY StopEnds
CHECK_DEADLOCK FALSE
