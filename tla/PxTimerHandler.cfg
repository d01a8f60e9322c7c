CONSTANTS
    Pool = {p1}
    Periodic = FALSE
    MaxCount = 2
    MaxQueued = 1
    MaxRefs = 1
    Handler = TRUE
    Does = {"raise"}
    p1 = p1
SPECIFICATION Spec
INVARIANTS
    ExceptionHandled
CHECK_DEADLOCK FALSE
