SPECIFICATION StatusSpec
CONSTANTS
    t1 = t1
    t2 = t2
    t3 = t3
    r1 = r1
    Tasks <- MCTasks
    Readers <- MCReaders
    Keys <- MCKeys
INVARIANTS
    TypeOK
    CountExact
    BusyMeansWork
    MetadataSnapshot
PROPERTY ImplementsLifecycle
