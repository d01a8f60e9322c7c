CONSTANTS
    Protocols <- SoundProtocols
    MaxConns = 3
    MaxChunks = 3
    MaxReplies = 4
SPECIFICATION FairSpec
INVARIANTS
    LoopSound
    Exchanged
    Released
    StartsAfresh
PROPERTIES
    ConnectionSpec
    ConnectionEnds
    ChunksArrive
CHECK_DEADLOCK FALSE
