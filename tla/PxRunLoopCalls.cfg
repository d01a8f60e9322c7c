CONSTANTS
    Works = {w1}
    Sockets = {s1}
    CallKinds = {"wait", "nowait"}
    MaxCalls = 1
    Registered = TRUE
    w1 = w1
    s1 = s1
SPECIFICATION FairSpec
INVARIANTS
    ItemsSound
    CountersAgree
    NoLostWakeup
    EndReportedOnce
PROPERTIES
    AllServed
    CallSpec
CHECK_DEADLOCK FALSE
