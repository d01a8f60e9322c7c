CONSTANTS
    Children = {c1, c2}
    Target = 2
    Width = 16
    QuietTimeouts = 1
    MaxArrivals = 1
    MaxRefused = 1
    MaxWork = 2
    May = {"raise"}
    c1 = c1
    c2 = c2
SPECIFICATION Spec
INVARIANTS
    AcceptsExact
CHECK_DEADLOCK FALSE
