SPECIFICATION FairSpec
CONSTANTS
    p1 = p1
    p2 = p2
    p3 = p3
    NoPeer = NoPeer
    Peers = {p1, p2, p3}
    FilterPeers = {p1, p3}
    NetworkPeers = {p1, p2, p3}
    LimitedPeers = {p3}
    Birth = 1
    MinTip = 4
    MaxTip = 4
    Batch = 3
    MaxInflight = 2
    Matches = {2}
    StopAfter = 0
    UpdateAndExit = FALSE
    KeepConnected = 2
    MaxStalls = 1
    MaxSlowBlocks = 1
    MaxFetch = 1
    MaxDisconnects = 1
    MaxCrashes = 1
INVARIANT ResumeSafe
INVARIANT MatchStaysPending
INVARIANT ReadyIsComplete
PROPERTY ResumeKeptOrLost
PROPERTY ScanCompletes
CHECK_DEADLOCK FALSE
