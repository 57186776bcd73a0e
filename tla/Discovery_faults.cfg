SPECIFICATION Spec
CONSTANTS
    Services = {s1}
    Templates = {a, b, blank}
    Blank = blank
    AutoPromote = 2
    MaxPatterns = 1
    MaxSamples = 2
    Lookback = 1
    MaxDelay = 1
    DiskFaults = TRUE
    MaxTime = 3
    MaxCrashes = 1
    MaxPolls = 3
INVARIANTS TypeOK LearnedOnce KnownEarned
PROPERTIES NovelOnce
CHECK_DEADLOCK FALSE
