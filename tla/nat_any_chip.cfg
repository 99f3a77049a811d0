SPECIFICATION Spec
CONSTANTS
    SeqMod = 4
    Keys = {k1}
    Conns = {c1, c2}
    Handlers = {h1}
    None = None
    Blocked = {}
    Slow = {"chip", "host"}
    Attempts = 1
    ISNs <- MCISNs
    Payloads <- MCPayloads
    Segments <- MCSegments
    ReadSizes = {1}
    MaxBytes = 1
CHECK_DEADLOCK FALSE
SYMMETRY MCSymmetry
INVARIANTS
    TypeOK
    OneDialPerKey
    DiallingIsConnecting
    DeferredInTime
    ByteAccounting
    HalfClose
PROPERTY NoWriteAfterEof
