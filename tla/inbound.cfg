SPECIFICATION LiveSpec
CONSTANTS
    SeqMod = 16
    Requests = {r1}
    None = None
    Slow = {"handler"}
    ISNs <- MCISNs
    RequestLen = 1
    ChipISN = 13
    Responses <- MCResponses
    Sizes = {2, 4}
    MaxRetransmits = 1
    MaxQueued = 1
    Faults = {"refuse", "short", "abort", "stop"}
CHECK_DEADLOCK FALSE
INVARIANTS
    CompleteIsWhole
    AckedIsCollected
    CompleteIsTold
    FinishedIsClosed
    LateIsAbsorbed
PROPERTIES
    ResponseIsAStream
    RequestReturns
