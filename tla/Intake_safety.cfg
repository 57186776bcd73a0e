SPECIFICATION Spec
CONSTANTS
    Threads = {t1, t2}
    Keys = {k1, k2}
    QueueSize = 2
    Cooldown = 2
    MaxStall = 1
    MaxTime = 5
SYMMETRY Symmetry
INVARIANTS TypeOK SuppressionBacked UndoOwnsEntry Conservation
PROPERTIES DedupWindow ImplementsAdmission
