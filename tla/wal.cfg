SPECIFICATION Spec
SYMMETRY Symmetry
CONSTANTS
    Threads = {t, u}
    None = None
    Modes <- AllModes
    Second = 1
    MarkersRotate = FALSE
    MaxCalls = 3
    MaxSegments = 3
    MaxNow = 2
INVARIANTS TypeOK PrefixSurvives CommitDurable LossBounded
CHECK_DEADLOCK FALSE
