SPECIFICATION Spec
SYMMETRY Symmetry
CONSTANTS
    Keys = {k1}
    Vals = {v1}
    Absent = Absent
    Tombstone = Tombstone
    SyncMode = "always"
    CompactAt = 2
    SizeRotates = TRUE
    ClientCompacts = FALSE
    Platform = {"torn", "unsorted", "power", "unlink", "io"}
    MaxWrites = 2
    MaxOpens = 1
INVARIANTS TypeOK ScanAgrees LogSuffices
CHECK_DEADLOCK FALSE
