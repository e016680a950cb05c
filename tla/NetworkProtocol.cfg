SPECIFICATION FairSpec
CONSTANTS
    n1 = n1
    n2 = n2
    Node <- MCNode
    OwnLoad <- MCOwnLoad
    ReqId = {r1, r2}
    Load = {1, 2}
    SelfSend = FALSE
    NoLoad = NoLoad
    NoMsg = NoMsg
INVARIANTS
    TypeOK
    PendingIsExact
    AnswersCorrelate
PROPERTY
    FutureWriteOnce
    ImplementsRemoteCall
    EveryCallEnds
CHECK_DEADLOCK FALSE
