SPECIFICATION Spec
CONSTANTS
    p1 = p1
    p2 = p2
    p3 = p3
    NoPeer = NoPeer
    Peers = {p1, p2}
    FilterPeers = {p1, p2}
    NetworkPeers = {p1, p2}
    LimitedPeers = {}
    Birth = 1
    MinTip = 4
    MaxTip = 4
    Batch = 2
    MaxInflight = 2
    Matches = {2}
    StopAfter = 0
    UpdateAndExit = FALSE
    KeepConnected = 0
    MaxStalls = 0
    MaxSlowBlocks = 0
    MaxFetch = 2
    MaxDisconnects = 0
    MaxCrashes = 0
INVARIANT ResumeSafe
CHECK_DEADLOCK FALSE
