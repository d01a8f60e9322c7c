CONSTANTS
    Threads = {t1, t2, t3}
    Main = t1
    NoThread = NoThread
    Calls = {}
    NPENDINGCALLS = 2
    t1 = t1
    t2 = t2
    t3 = t3
SPECIFICATION FairSpec
INVARIANTS
    GilSound
    Counted
    NoLostWakeup
PROPERTIES
    LockMoves
CHECK_DEADLOCK FALSE
