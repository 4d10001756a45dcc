SPECIFICATION Spec
CONSTANTS
    p1 = p1
    p2 = p2
    p3 = p3
    NoPeer = NoPeer
    Peers = {p1, p2}
    FilterPeers = {p1, p2}
    NetworkPeers = {p1, p2}
    LimitedPeers = {}
    Birth = 1
    MinTip = 5
    MaxTip = 5
    Batch = 2
    MaxInflight = 2
    Matches = {}
    StopAfter = 5
    UpdateAndExit = TRUE
    KeepConnected = 0
    MaxStalls = 2
    MaxSlowBlocks = 0
    MaxFetch = 2
    MaxDisconnects = 2
    MaxCrashes = 0
SYMMETRY PeerSymmetry
INVARIANTS DoneMeansScanned ResumeCovered LiveChunkAnswered
CHECK_DEADLOCK FALSE
