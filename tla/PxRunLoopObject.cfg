CONSTANTS
    Works = {w1}
    Sockets = {}
    CallKinds = {}
    w1 = w1
    MaxCalls = 1
    Registered = TRUE
SPECIFICATION Spec
INVARIANTS
    FinishedHasObject
CHECK_DEADLOCK FALSE
