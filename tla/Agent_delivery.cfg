SPECIFICATION FairSpec
CONSTANTS
    g1 = g1
    k1 = k1
    k2 = k2
    Groups = {g1}
    Handlers = {h1, h2}
    Keys = {k1, k2}
    Watched = {"orders"}
    Payload <- SomePayload
    QueueSize = 1
    Mode = "detect"
    MaxFaults = 2
INVARIANTS TypeOK Accounted
PROPERTIES OncePerSuppression RequestsReturn BatchGetsThrough HeardAtLast
