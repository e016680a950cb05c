SPECIFICATION LookupSpec
CONSTANTS
    ID_BITS = 2
    K = 2
    Addr = {a1}
    NoRecord = NoRecord
    Local <- MCLocal
    Peers <- MCPeers
    Sizes = {2}
    MaxClock = 1
INVARIANT
    LookupSeesTheStore
CHECK_DEADLOCK FALSE
