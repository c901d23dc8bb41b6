CONSTANTS
    Bytes = {0, 1, 2}
    MaxStrLen = 2
    MaxItems = 2
    Invalid = Invalid
    WrongSize = WrongSize

SPECIFICATION Spec
\* encode and decode are one-shot calls: the behaviour stops once both ran.
CHECK_DEADLOCK FALSE
INVARIANT RoundTrip OrderPreserved WrongSizeRejected
