CONSTANTS
    Works = {w1}
    Sockets = {}
    CallKinds = {}
    w1 = w1
    MaxCalls = 1
    Registered = FALSE
SPECIFICATION Spec
PROPERTIES
    NoWorkLeft
CHECK_DEADLOCK FALSE
