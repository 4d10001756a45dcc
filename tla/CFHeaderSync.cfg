SPECIFICATION Spec
CONSTANTS
  f1 = f1
  f2 = f2
  n1 = n1
  a = a
  b = b
  Peers <- MCPeers
  FilterPeers <- MCFilterPeers
  NoPeer = NoPeer
  Indexes <- MCIndexes
  NoIndex = NoIndex
  Assignments <- MCAssignments
  Floors = {1, 3}
  MinTip = 3
  MaxTip = 4
  Batch = 2
  Interval = 2
  CheckpointLag = 0
  MaxLeaves = 1
  MaxCrashes = 1
  MaxFailures = 1
INVARIANT SingleDriver
INVARIANT HeadersAtTheirHeights
INVARIANT ScanCovered
INVARIANT NoLateHeaders
PROPERTY NothingLost
PROPERTY SyncCompletes
CHECK_DEADLOCK FALSE
