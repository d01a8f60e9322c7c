CONSTANTS
    Children = {c1, c2}
    Target = 2
    Width = 16
    QuietTimeouts = 1
    MaxArrivals = 3
    MaxRefused = 0
    MaxWork = 2
    May = {"raise"}
    c1 = c1
    c2 = c2
SPECIFICATION Spec
PROPERTIES
    RetiredOnlyIfNotNeeded
CHECK_DEADLOCK FALSE
