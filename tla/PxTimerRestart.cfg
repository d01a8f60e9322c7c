CONSTANTS
    Pool = {p1}
    Periodic = FALSE
    MaxCount = 2
    MaxQueued = 1
    MaxRefs = 1
    Handler = FALSE
    Does = {"restart"}
    p1 = p1
SPECIFICATION Spec
PROPERTIES
    NoRestart
CHECK_DEADLOCK FALSE
