CONSTANTS
    Threads = {t1, t2}
    Main = t1
    NoThread = NoThread
    Calls = {c1, c2, c3}
    NPENDINGCALLS = 3
    t1 = t1
    t2 = t2
    c1 = c1
    c2 = c2
    c3 = c3
SPECIFICATION FairSpec
INVARIANTS
    CallsHeld
PROPERTIES
    CallsMade
CHECK_DEADLOCK FALSE
