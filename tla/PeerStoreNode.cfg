SPECIFICATION Spec
CONSTANTS
    ID_BITS = 3
    K = 2
    Addr = {a1, a2}
    NoRecord = NoRecord
    Local <- MCLocal
    Peers <- MCPeers
    Sizes = {2, 3}
    MaxClock = 2
INVARIANTS
    TypeOK
    StoreConsistent
    BucketOrderIsLastSeen
    BucketsCoverRanges
    LookupFindsNearest
    RepliesNearest
PROPERTY
    ImplementsPeerBook
CHECK_DEADLOCK FALSE
