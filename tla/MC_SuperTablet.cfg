\* One split worker, two client threads, one SuperScanner; two split
\* requests split the three rows twice.
CONSTANTS
    ta = ta  tb = tb  tc = tc
    NoTablet = NoTablet
    TabletIds <- MCTabletIds
    MaxRow = 3
    Mutators = {m1, m2}
    Splitters = {s1}
    Scanners = {c1}
    MaxSplitRequests = 2
SPECIFICATION Spec
INVARIANT TypeOK EveryRowRouted MutationsExcludeSplits
INVARIANT RoutedRowStillInTablet
PROPERTY MutationsComplete
