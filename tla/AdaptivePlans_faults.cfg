SPECIFICATION Spec
CONSTANTS
    Patterns = {p1, p2}
    Plans = {q1, q2}
    Services = {s1, s2}
    MinObservations = 2
    MinServices = 2
    ShadowMatches = 2
    MaxEntries = 1
    Window = 1
    DiskFaults = TRUE
    MaxTime = 2
    MaxCrashes = 1
SYMMETRY Symmetry
INVARIANTS TypeOK ActiveEarned
PROPERTIES DemotionJustified RestartTransparent
