CONSTANTS
    Protocols <- Disconnected
    MaxConns = 2
    MaxChunks = 2
    MaxReplies = 3
SPECIFICATION FairSpec
INVARIANT NoTrap
CHECK_DEADLOCK FALSE
