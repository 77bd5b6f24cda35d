SPECIFICATION Spec
CONSTANTS
    r1 = r1
    r2 = r2
    q1 = q1
    Rpcs <- GracefulRpc
    Graceful <- GracefulRpc
    Timed <- GracefulRpc
    Signals <- NoOne
    Requests <- OneRequest
INVARIANT GracefulDrains
CHECK_DEADLOCK FALSE
