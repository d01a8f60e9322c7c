CONSTANTS
    Children = {c1, c2}
    Target = 2
    Width = 16
    QuietTimeouts = 1
    MaxArrivals = 1
    MaxRefused = 0
    MaxWork = 2
    May = {"ask", "low", "raise"}
    c1 = c1
    c2 = c2
SPECIFICATION FairSpec
INVARIANTS
    NoneCreatedLate
PROPERTIES
    ShutdownStarts
CHECK_DEADLOCK FALSE
