SPECIFICATION Spec
SYMMETRY Symmetry
CONSTANTS
    Threads = {p, q}
    Ids = {a, b}
    Fields = {f}
    Vals = {v1, v2}
    Terms = {w1, w2}
    Absent = Absent
    MaxTf = 1
    Careful = TRUE
    Exclusive = TRUE
    VecIds = {x, y, z}
    Objects = {o}
    Dims = {d1, d2}
    Metas = {m}
    NClusters = 2
    NProbe = 1
    MaxCrashes = 2
    Processes <- Apart
INVARIANTS TypeOK IndexAnswers IndexSound PostingsReal SearchFinds DriftBounded MissesOnlyFresh 
