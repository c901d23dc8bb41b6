\* Four ranges of up to two cells each, rolled at two cells: some files
\* take one range, some two, and ranges are compacted away before and
\* after a roll.
CONSTANTS
    NRanges = 4
    MaxRangeCells = 2
    SplitSize = 2
    Empty = Empty
    Unset = Unset
SPECIFICATION Spec
INVARIANT MergedCellsFinished
\* compact is one call: the model stops once it returns.
CHECK_DEADLOCK FALSE
