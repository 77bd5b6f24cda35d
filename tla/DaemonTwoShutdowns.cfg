SPECIFICATION Spec
CONSTANTS
    r1 = r1
    r2 = r2
    q1 = q1
    Rpcs <- TwoRpcs
    Graceful <- GracefulRpc
    Timed <- GracefulRpc
    Signals <- NoOne
    Requests <- OneRequest
PROPERTY ImplementsLifecycle
CHECK_DEADLOCK FALSE
