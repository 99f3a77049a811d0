SPECIFICATION TunnelSpec
CONSTANTS
    SeqMod = 8
    Keys = {k1}
    Conns = {c1, c2}
    Handlers = {h1}
    None = None
    Blocked = {}
    Slow = {"chip", "host"}
    Attempts = 1
    ISNs <- MCISNs
    Payloads <- MCPayloads
    Segments <- ChipSegments
    ReadSizes = {}
    MaxBytes = 2
    ChipISN = 6
    ChipBytes = 2
    MaxQueued = 1
    Coalesce = TRUE
    MaxRetransmits = 1
    Faults = {"refuse", "reset", "abort", "stop"}
CHECK_DEADLOCK FALSE
SYMMETRY MCSymmetry
INVARIANTS
    NoLostSocket
    StoppedIsQuiet
PROPERTIES
    UpstreamIsAStream
    EndIsWhole
    SecondPumpOnlyByCrossing
