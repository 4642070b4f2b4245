SPECIFICATION Spec
SYMMETRY Symmetry
CONSTANTS
    Keys = {k1, k2}
    Vals = {v1, v2}
    Absent = Absent
    Tombstone = Tombstone
    SyncMode = "always"
    CompactAt = 2
    SizeRotates = TRUE
    ClientCompacts = FALSE
    Platform = {"torn"}
    MaxWrites = 3
    MaxOpens = 2
CHECK_DEADLOCK FALSE
INVARIANT AckedSurvive
