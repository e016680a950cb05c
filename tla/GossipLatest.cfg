SPECIFICATION FairSpec
CONSTANTS
    n1 = n1
    n2 = n2
    n3 = n3
    Node = {n1, n2}
    Local = n1
    Cpu <- MCCpu
    TTL = 1
    STALE_AFTER = 2
    NoReading = NoReading
    MaxClock = 1
    MaxNet = 2
PROPERTY
    LatestMetrics
CHECK_DEADLOCK FALSE
