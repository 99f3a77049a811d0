SPECIFICATION LiveSpec
CONSTANTS
    SeqMod = 8
    Keys = {k1}
    Conns = {c1, c2}
    Handlers = {h1}
    None = None
    Blocked = {}
    Slow = {"host"}
    Attempts = 2
    ISNs <- MCISNs
    Payloads <- MCPayloads
    Segments <- ChipSegments
    ReadSizes = {1}
    MaxBytes = 2
    ChipISN = 6
    ChipBytes = 1
    MaxQueued = 1
    Coalesce = FALSE
    MaxRetransmits = 1
    Faults = {"refuse", "reset"}
CHECK_DEADLOCK FALSE
INVARIANTS
    Served
PROPERTIES
    SynIsAnswered
    ConnectionsEnd
    DownstreamArrives
