SPECIFICATION Spec
CONSTANTS
    Services = {s1}
    Templates = {a, b, blank}
    Blank = blank
    AutoPromote = 2
    MaxPatterns = 3
    MaxSamples = 2
    Lookback = 1
    MaxDelay = 1
    DiskFaults = FALSE
    MaxTime = 3
    MaxCrashes = 0
    MaxPolls = 3
INVARIANTS DetectedIsSubmitted
CHECK_DEADLOCK FALSE
