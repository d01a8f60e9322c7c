CONSTANTS
    Pool = {p1, p2}
    Periodic = TRUE
    MaxCount = 2
    MaxQueued = 2
    MaxRefs = 1
    Handler = FALSE
    Does = {"letGoLate"}
    p1 = p1
    p2 = p2
SPECIFICATION Spec
INVARIANTS
    HeapsTakeTurns
    Quiet
PROPERTIES
    StopSettles
CHECK_DEADLOCK FALSE
