SPECIFICATION LiveBridgeSpec
CONSTANTS
    Keys = {k1, k2, refused}
    Flows = {f1, f2, f3}
    Handlers = {h1}
    Blocked = {refused}
    Half = 1
    MaxWaiting = 1
    None = None
    STA_MAC = sta
    GATEWAY_MAC = gw
    Broadcast = bcast
    ChipMac = other
    MaxRetries = 1
    MaxStarts = 2
CHECK_DEADLOCK FALSE
INVARIANTS
    NoLostTransport
    IdleIsReaped
    StoppedIsClosed
PROPERTIES
    UsedIsKept
    GetsOnline
