SPECIFICATION Spec
SYMMETRY Symmetry
CONSTANTS
    Keys = {k1, k2}
    Vals = {v1, v2}
    Absent = Absent
    Tombstone = Tombstone
    SyncMode = "always"
    CompactAt = 3
    SizeRotates = FALSE
    ClientCompacts = TRUE
    Platform = {}
    MaxWrites = 3
    MaxOpens = 2
INVARIANTS ReadsMatchLog AckedSurvive
PROPERTIES Durable
CHECK_DEADLOCK FALSE
