SPECIFICATION Spec
SYMMETRY Symmetry
CONSTANTS
    Keys = {k1}
    Vals = {v1, v2}
    Txns = {t1, t2}
    Absent = Absent
    Unread = Unread
    None = None
    MaxOps = 1
    MaxSingles = 0
    MaxCrashes = 1
    MaxFails = 0
INVARIANT OnlyCommitted
CHECK_DEADLOCK FALSE
