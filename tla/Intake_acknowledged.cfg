SPECIFICATION Spec
CONSTANTS
    Threads = {t1, t2}
    Keys = {k1, k2}
    QueueSize = 1
    Cooldown = 2
    MaxStall = 1
    MaxTime = 4
INVARIANTS AcknowledgedIsQueued
