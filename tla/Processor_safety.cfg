SPECIFICATION Spec
CONSTANTS
    known = known
    other = other
    reworded = reworded
    matched = matched
    k = k
    l = l
    m = m
    n = n
    Patterns = {known, other, reworded, matched}
    KnownPatterns = {known}
    Keys = {k, l, m, n}
    NoKey = NoKey
    Incidents <- SomeIncidents
    Limits <- NoLimitOrSome
    Hour = 2
    TTL = 1
    CacheSize = 1
    MaxTime = 3
    MaxCrashes = 1
    MaxIncidents = 3
INVARIANTS TypeOK
PROPERTIES CachedWasValid LearnsFromCompleteEvidence ImplementsBudget
CHECK_DEADLOCK FALSE
