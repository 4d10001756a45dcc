SPECIFICATION Spec
CONSTANTS
  a1 = a1
  a2 = a2
  a3 = a3
  Addr <- MCAddr
  Books <- MCBooks
  FilterAddr = {a2}
  SeedLists <- MCSeeds
  NoPtr = NoPtr
  MaxActive = 2
  MinActiveInit = 3
  SaveThreshold = 2
  Chain = 1
  Batch = 1
  MaxGossip = 1
  MaxStops = 1
  MaxLosses = 1
  MaxChunks = 1
INVARIANT BookAgrees
INVARIANT DownloadPeerAsked
INVARIANT EstablishedBound
PROPERTY HeadersEnd
CHECK_DEADLOCK FALSE
