SPECIFICATION Spec
CONSTANTS
    r1 = r1
    r2 = r2
    None = None
    Requests <- TwoRequests
    Configurations <- McpStreams
    Pieces = 2
    McpCap = 1
INVARIANT FreshConversation
CHECK_DEADLOCK FALSE
