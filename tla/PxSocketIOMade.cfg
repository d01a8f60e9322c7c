CONSTANTS
    Protocols <- Unmade
    MaxConns = 2
    MaxChunks = 2
    MaxReplies = 3
SPECIFICATION FairSpec
INVARIANT MadeFirst
CHECK_DEADLOCK FALSE
