SPECIFICATION TunnelSpec
CONSTANTS
    SeqMod = 16
    Requests = {r1}
    None = None
    Slow = {}
    ISNs <- MCISNs
    RequestLen = 1
    ChipISN = 13
    Responses <- MCResponses
    Sizes = {2, 4}
    MaxRetransmits = 0
    MaxQueued = 2
    Faults = {}
CHECK_DEADLOCK FALSE
INVARIANT CompleteIsClosed
