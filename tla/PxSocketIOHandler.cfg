CONSTANTS
    Protocols <- Handlers
    MaxConns = 2
    MaxChunks = 2
    MaxReplies = 3
SPECIFICATION FairSpec
PROPERTY ConnectionEnds
CHECK_DEADLOCK FALSE
