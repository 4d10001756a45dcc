SPECIFICATION Spec
CONSTANTS
    NetTx <- MCNetTx
    OwnTx = {"o1"}
    Ins <- MCIns
    Out <- MCOut
    WatchOnly = {"watch"}
    BlocksOf <- MCBlocksOf
    Fee = 1
    Values = {1, 3}
    Word = 16
    MaxStops = 1
    MaxFails = 1
PROPERTY RelayedUntilConfirmed
PROPERTY LedgerSpec
CHECK_DEADLOCK FALSE
