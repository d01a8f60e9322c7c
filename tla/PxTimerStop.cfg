CONSTANTS
    Pool = {p1}
    Periodic = FALSE
    MaxCount = 2
    MaxQueued = 2
    MaxRefs = 1
    Handler = FALSE
    Does = {}
    p1 = p1
SPECIFICATION Spec
PROPERTIES
    StopHolds
CHECK_DEADLOCK FALSE
