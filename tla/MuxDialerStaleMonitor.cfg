SPECIFICATION Spec
CONSTANTS
    d1 = d1
    d2 = d2
    d3 = d3
    a1 = a1
    a2 = a2
    None = None
    Calls <- ThreeCalls
    Addrs <- OneAddr
    Faults <- Losses
INVARIANT SingleConn
CHECK_DEADLOCK FALSE
