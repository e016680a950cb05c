SPECIFICATION Spec
CONSTANTS
    ID_BITS = 2
    K = 1
    Addr = {a1, a2, a3}
    NoRecord = NoRecord
    Node <- MCNode
    AnswerK <- MCAnswerK
    Down = Down
    NoId = NoId
    MaxStarts = 4
    MaxCalls = 3
SYMMETRY AddrSymmetry
INVARIANTS
    TypeOK
    StoresConsistent
    ContactsGenuine
    DiscoverReportsNew
    HearsayIgnored
PROPERTY
    JoinReportsStored
    CallsShrink
CHECK_DEADLOCK FALSE
