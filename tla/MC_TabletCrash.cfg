CONSTANTS
    t1 = t1
    t2 = t2
    t3 = t3
    t4 = t4
    t5 = t5
    TableIds <- MCTableIds
    NoTable = NoTable
    CompactWidth = 2
    MaxMutations = 2
    MaxCrashes = 1

SPECIFICATION Spec
SYMMETRY MCSymmetry
INVARIANT AckedMutationsSurvive
