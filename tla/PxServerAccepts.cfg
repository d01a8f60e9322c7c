CONSTANTS
    Children = {c1, c2}
    Target = 2
    Width = 16
    QuietTimeouts = 1
    MaxArrivals = 3
    MaxRefused = 1
    MaxWork = 1
    May = {"raise"}
    c1 = c1
    c2 = c2
SPECIFICATION FairSpec
INVARIANTS
    CountsSound
PROPERTIES
    ClientAccepted
    TargetMaintained
CHECK_DEADLOCK FALSE
