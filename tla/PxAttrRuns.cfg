SPECIFICATION Spec
CONSTANTS
    Sockets = {s1, s2}
    Threads = {t1, t2}
    Attrs = {"state"}
    None = None
    MaxTop = 2
    MaxHeaps = 2
SYMMETRY Symmetry
CHECK_DEADLOCK FALSE
INVARIANTS
    ValuesLast
    OverrideRemoved
