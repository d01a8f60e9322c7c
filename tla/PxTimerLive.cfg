CONSTANTS
    Pool = {p1}
    Periodic = TRUE
    MaxCount = 1
    MaxQueued = 2
    MaxRefs = 1
    Handler = FALSE
    Does = {"raise", "letGoLate"}
    p1 = p1
SPECIFICATION FairSpec
INVARIANTS
    Quiet
PROPERTIES
    ShutdownEnds
    ErrorShutsDown
CHECK_DEADLOCK FALSE
