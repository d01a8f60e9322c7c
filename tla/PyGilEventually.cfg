CONSTANTS
    Threads = {t1, t2}
    Main = t1
    NoThread = NoThread
    Calls = {c1}
    NPENDINGCALLS = 3
    t1 = t1
    t2 = t2
    c1 = c1
SPECIFICATION FairSpec

PROPERTY CallsEventuallyMade
CHECK_DEADLOCK FALSE
