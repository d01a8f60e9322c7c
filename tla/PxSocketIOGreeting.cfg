CONSTANTS
    Protocols <- Parting
    MaxConns = 2
    MaxChunks = 2
    MaxReplies = 3
SPECIFICATION FairSpec
INVARIANT Answered
CHECK_DEADLOCK FALSE
