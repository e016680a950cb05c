SPECIFICATION FairSpec
CONSTANTS
    Peer = {p1, p2}
    Callback = {c1, c2}
    MaxLoops = 3
    suspect_t = 1
    offline_t = 2
    timeout = 1
    Horizon = 3
    Unseen = Unseen
INVARIANTS
    TypeOK
    StateJustified
    AnnouncedOnce
    LatestLoopGoesOn
PROPERTIES
    OutageAnnounced
    OnlyHeartbeatRevives
    SilenceDetected
CHECK_DEADLOCK FALSE
