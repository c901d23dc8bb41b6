CONSTANTS
    t1 = t1
    t2 = t2
    t3 = t3
    t4 = t4
    t5 = t5
    Keys = {k1}
    Values = {v1}
    Absent = Absent
    Erasure = Erasure
    NoTable = NoTable
    NoOwner = NoOwner
    Serializer = Serializer
    TableIds <- MCTableIds
    CompactWidth <- MCWidth
    Writers = {w1, w2}
    Readers = {}
    Compactors = {}
    CompactThreshold <- MCThreshold
    MaxMutations = 2

SPECIFICATION Spec
SYMMETRY MCSymmetry
PROPERTY SyncedMutationsDurable
