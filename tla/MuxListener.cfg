SPECIFICATION FairSpec
CONSTANTS
    c1 = c1
    c2 = c2
    control = control
    a2a = a2a
    other = other
    Conns <- TwoConns
    StreamTypes <- TwoStreams
    Types <- BothTypes
    Cap = 1
    Faults <- SomeFaults
INVARIANTS
    TypeOK
    AllConnsClosed
PROPERTIES
    ImplementsRouter
    NeverShed
    CloseCompletes
    StreamsServed
CHECK_DEADLOCK FALSE
