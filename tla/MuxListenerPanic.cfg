SPECIFICATION Spec
CONSTANTS
    c1 = c1
    c2 = c2
    control = control
    a2a = a2a
    other = other
    Conns <- OneConn
    StreamTypes <- SingleStream
    Types <- BothTypes
    Cap = 1
    Faults <- NoFaults
INVARIANT NoPanic
CHECK_DEADLOCK FALSE
