SPECIFICATION Spec
CONSTANTS
    PrivateKey = {k1, k2}
    Secret = Secret
    Task = {t1, t2}
    RequestId = {r1}
    PayloadKeys <- MCPayloadKeys
    TextRank <- MCTextRank
    None = None
    MaxSigned = 2
SYMMETRY KeySymmetry
INVARIANTS
    TypeOK
    KeyFileSound
    GenuineAccepted
    AcceptedWasSigned
PROPERTY
    RestartedNodeTrusted
CHECK_DEADLOCK FALSE
