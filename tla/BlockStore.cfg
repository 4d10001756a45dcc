SPECIFICATION Spec
CONSTANTS
    Blocks <- MCBlocks
    Junk <- MCJunk
    Genesis = "g"
    NoBlock = NoBlock
    Parent <- MCParent
    Depth <- MCDepth
    Path <- MCPath
    Checkpoint <- MCCheckpoint
    MaxBatch = 2
    WriteCap = 4
    MaxCrashes = 2
    MaxFailures = 1
    MaxTail = 3
INVARIANTS ChainLinked LongestKnown ReloadAgrees
CHECK_DEADLOCK FALSE
