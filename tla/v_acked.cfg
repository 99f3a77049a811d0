SPECIFICATION TunnelSpec
CONSTANTS
    SeqMod = 8
    Keys = {k1}
    Conns = {c1, c2}
    Handlers = {h1}
    None = None
    Blocked = {}
    Slow = {}
    Attempts = 1
    ISNs <- MCISNs
    Payloads <- MCPayloads
    Segments <- ChipSegments
    ReadSizes = {1}
    MaxBytes = 1
    ChipISN = 6
    ChipBytes = 1
    MaxQueued = 2
    Coalesce = FALSE
    MaxRetransmits = 1
    Faults = {}
CHECK_DEADLOCK FALSE
SYMMETRY MCSymmetry
INVARIANT AckedIsTaken
