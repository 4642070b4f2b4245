SPECIFICATION Spec
CONSTANTS
    KeyBytes <- Lengths
    Written = {1, 2, 3}
    ValBytes <- OneValue
    Absent = Absent
    Interval = 2
    BitCount = 2
    Octet = 3
    K = 2
INVARIANTS TypeOK GetFinds ScanFinds
CHECK_DEADLOCK FALSE
