SPECIFICATION CommandsSpec
CONSTANTS
    r1 = r1
    q1 = q1
    Rpcs <- ForcedRpc
    Graceful <- NoOne
    Timed <- NoOne
    Signals <- TheSignal
    Requests <- OneRequest
INVARIANTS
    TypeOK
    OnlyShutdownEnds
    StoppedMeansQuiet
PROPERTIES
    StatusForward
    StopCompletes
    ShutdownTakesEffect
    CommandsEnd
CHECK_DEADLOCK FALSE
