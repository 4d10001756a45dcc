SPECIFICATION Spec
CONSTANTS
    Fd = {1, 2}
    Object = {1, 2, 3, 4, 5, 6, 7, 8}
    MaxLen = 1
    MaxQueue = 2
    MaxConnects = 2
INVARIANT AssertsHold
INVARIANT LoopMatchesSockets
PROPERTY ConnectEnds
CHECK_DEADLOCK FALSE
