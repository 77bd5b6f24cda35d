SPECIFICATION FairSpec
CONSTANTS
    r1 = r1
    r2 = r2
    None = None
    Requests <- TwoRequests
    Configurations <- AllProviders
    Pieces = 2
    McpCap = 1
INVARIANTS
    TypeOK
    FinalIsLast
    AnswerExact
    ErrorsReported
    SerialConversations
PROPERTIES
    CancelReturns
    ProducerEnds
CHECK_DEADLOCK FALSE
