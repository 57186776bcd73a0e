SPECIFICATION Spec
CONSTANTS
    Limits <- SomeLimits
    Hour = 2
    Persistent = TRUE
    DiskFaults = TRUE
    MaxTime = 5
    MaxCrashes = 2
INVARIANTS TypeOK RollingLimit
PROPERTIES DenialJustified
