CONSTANTS
    Pool = {p1}
    Periodic = FALSE
    MaxCount = 2
    MaxQueued = 1
    MaxRefs = 1
    Handler = FALSE
    Does = {"letGoLate"}
    p1 = p1
SPECIFICATION Spec
INVARIANTS
    HeldAlive
CHECK_DEADLOCK FALSE
