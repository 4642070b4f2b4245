SPECIFICATION Spec
SYMMETRY Symmetry
CONSTANTS
    Keys = {k1}
    Vals = {v1, v2}
    Txns = {t1, t2}
    Absent = Absent
    Unread = Unread
    None = None
    MaxOps = 1
    MaxSingles = 1
    MaxCrashes = 1
    MaxFails = 1
INVARIANTS TypeOK CommittedSurvive
PROPERTY AtomicWrites
CHECK_DEADLOCK FALSE
