CONSTANTS
    Pool = {p1}
    Periodic = TRUE
    MaxCount = 2
    MaxQueued = 1
    MaxRefs = 1
    Handler = FALSE
    Does = {"raise"}
    p1 = p1
SPECIFICATION Spec
INVARIANTS
    SnapshotEmpty
CHECK_DEADLOCK FALSE
