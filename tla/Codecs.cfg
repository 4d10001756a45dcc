SPECIFICATION Spec
CONSTANTS
    GcsP = 2
    GcsM = 6
    HashBits = 3
    ByteBits = 3
    MaxItems = 4
    MaxQuotient = 6
    Base = 12
    HashLen = 2
    MaxEntries = 2
    MaxFilter = 6
    MaxStr = 6
    Filtering = 5
    ByteBase = 4
    Digits = 3
    SumLen = 1
    DigestLen = 2
    PubkeyAddress = 0
    ScriptAddress = 1
    Hash4 <- MCHash4
    PushData1 = 4
    OpDup = 7
    OpHash160 = 8
    OpEqualVerify = 9
    OpCheckSig = 10
    KeyHashLen = 2
    MinKey = 3
    MaxKey = 4
    Hash160 <- MCHash160
    DefaultBuckets = 2
    Factor = 2
    MaxFilterItems = 3
    MaxQuery = 2
    MaxCut = 12
    MaxData = 3
    Names = 3
    MaxLines = 2
    Keys = {0, 1, 2, 3, 5, 6, 9, 11, 14}
INVARIANT FiltersMatch
INVARIANT MessagesAgree
INVARIANT ScriptsAgree
INVARIANT TextAgrees
INVARIANT TablesAreMaps
CHECK_DEADLOCK FALSE
