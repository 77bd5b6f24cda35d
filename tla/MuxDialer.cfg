SPECIFICATION FairSpec
CONSTANTS
    d1 = d1
    d2 = d2
    d3 = d3
    a1 = a1
    a2 = a2
    None = None
    Calls <- TwoCalls
    Addrs <- TwoAddrs
    Faults <- AllFaults
INVARIANTS
    TypeOK
    PooledWatched
    StreamsOnInstalled
    DuplicatesClosed
    RetryElsewhere
    SharedUntilLoss
PROPERTIES
    DialReturns
    DeadEvicted
CHECK_DEADLOCK FALSE
