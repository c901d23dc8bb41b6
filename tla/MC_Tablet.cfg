CONSTANTS
    t1 = t1
    t2 = t2
    t3 = t3
    t4 = t4
    t5 = t5
    Keys = {k1}
    Values = {v1}
    Absent = Absent
    Erasure = Erasure
    NoTable = NoTable
    NoOwner = NoOwner
    Serializer = Serializer
    TableIds <- MCTableIds
    CompactWidth <- MCWidth
    Writers = {w1}
    Readers = {}
    Compactors = {c1}
    CompactThreshold <- MCThreshold
    MaxMutations = 3

SPECIFICATION Spec
SYMMETRY MCSymmetry
INVARIANT StackFilesExist
PROPERTY StoreRefinement
