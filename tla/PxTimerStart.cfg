CONSTANTS
    Pool = {p1}
    Periodic = FALSE
    MaxCount = 2
    MaxQueued = 1
    MaxRefs = 1
    Handler = FALSE
    Does = {}
    p1 = p1
SPECIFICATION FairSpec
PROPERTIES
    StartRuns
CHECK_DEADLOCK FALSE
