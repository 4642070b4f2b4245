SPECIFICATION Spec
CONSTANTS
    Parts = {"a", "b", "f", "g"}
    Keys <- Two
    Members <- TwoMembers
    Order <- ByName
    Vals <- Contents
    Word = Word
    Present = Present
    Absent = Absent
    MaxIndex = 1
    MaxPush = 2
    Elements <- Pushed
    MaxNow = 1
    Kinds <- AnyAndSet
    Liberties = {}
INVARIANTS TypeOK ListDense NoOrphans ErrorsChangeNothing CountsTell 
 
CHECK_DEADLOCK FALSE
