SPECIFICATION Spec
CONSTANTS
    n1 = n1
    n2 = n2
    Node <- MCNode
    OwnLoad <- MCOwnLoad
    ReqId = {r1}
    Load = {1, 2}
    SelfSend = FALSE
    NoLoad = NoLoad
    NoMsg = NoMsg
INVARIANT
    LoadIsOwn
CHECK_DEADLOCK FALSE
