CONSTANTS
    Works = {}
    Sockets = {s1}
    CallKinds = {"wait", "nowait"}
    s1 = s1
    MaxCalls = 1
    Registered = TRUE
SPECIFICATION Spec
INVARIANTS
    CallsOutlive
CHECK_DEADLOCK FALSE
