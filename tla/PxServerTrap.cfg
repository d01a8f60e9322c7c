CONSTANTS
    Children = {c1, c2, c3}
    Target = 2
    Width = 16
    QuietTimeouts = 1
    MaxArrivals = 2
    MaxRefused = 0
    MaxWork = 2
    May = {"raise"}
    c1 = c1
    c2 = c2
    c3 = c3
SPECIFICATION Spec
INVARIANTS
    NoListTrap
CHECK_DEADLOCK FALSE
