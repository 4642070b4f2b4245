SPECIFICATION Spec
SYMMETRY Symmetry
CONSTANTS
    Clients = {loop}
    Loop = loop
    Absent = Absent
    MaxCommands = 4
    MaxEx = 2
    MaxNow = 3
    MaxCrashes = 1
INVARIANTS TypeOK SetStays NoStaleAnswer TypeAndValue
 
CHECK_DEADLOCK FALSE
