SPECIFICATION Spec
SYMMETRY Symmetry
CONSTANTS
    Keys = {k1, k2}
    Vals = {v1, v2}
    Absent = Absent
    Tombstone = Tombstone
    SyncMode = "every_sec"
    CompactAt = 2
    SizeRotates = TRUE
    ClientCompacts = FALSE
    Platform = {}
    MaxWrites = 3
    MaxOpens = 1
PROPERTIES KeyDurable
CHECK_DEADLOCK FALSE
