CONSTANTS
    Protocols <- Hello
    MaxConns = 2
    MaxChunks = 2
    MaxReplies = 3
SPECIFICATION FairSpec
INVARIANT Received
CHECK_DEADLOCK FALSE
