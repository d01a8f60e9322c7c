CONSTANTS
    MaxCount = 3
    MaxSuspend = 2
SPECIFICATION FairSpec
INVARIANTS
    HeapsTakeTurns
PROPERTIES
    ShutdownHeard
    ErrorShutsDown
CHECK_DEADLOCK FALSE
