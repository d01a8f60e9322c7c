CONSTANTS
    Pool = {p1}
    Periodic = FALSE
    MaxCount = 2
    MaxQueued = 1
    MaxRefs = 1
    Handler = FALSE
    Does = {"raise"}
    p1 = p1
SPECIFICATION Spec
INVARIANTS
    ErrorsAlive
CHECK_DEADLOCK FALSE
