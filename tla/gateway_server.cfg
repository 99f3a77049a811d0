SPECIFICATION ServerSpec
CONSTANTS
    tab = tab
    page = page
    s1 = s1
    s2 = s2
    s3 = s3
    s4 = s4
    Clients = {tab, page}
    Sockets = {s1, s2, s3, s4}
    Bridges = {b1, b2, b3}
    ClientOf <- MCClientOf
    None = None
    Overlapping = {tab}
CHECK_DEADLOCK FALSE
INVARIANTS
    TableIsCurrent
    OneBridge
    
