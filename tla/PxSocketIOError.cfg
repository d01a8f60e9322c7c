CONSTANTS
    Protocols <- PagesReset
    MaxConns = 2
    MaxChunks = 2
    MaxReplies = 3
SPECIFICATION FairSpec
INVARIANT ErrorIsOwn
CHECK_DEADLOCK FALSE
