CONSTANTS
    Works = {w1}
    Sockets = {}
    CallKinds = {"wait"}
    w1 = w1
    MaxCalls = 1
    Registered = TRUE
SPECIFICATION Spec
INVARIANTS
    DecrefFree
CHECK_DEADLOCK FALSE
