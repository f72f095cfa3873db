CONSTANTS
    k1 = k1  k2 = k2  k3 = k3  k4 = k4
    None = None
    Keys <- FourKeys
    Hash <- SomeHashes
    Bits = 3
    InitialSize = 2
    ForceRatio = 1
    MinFill = 51
    VisitsPerStep = 2
    CronBuckets = 2
    ExpandSizes = {8}
SPECIFICATION Spec
CHECK_DEADLOCK FALSE
INVARIANTS TablesConsistent ScanReturnsAll OperationsTakeEffect RandomReachesAll
PROPERTIES ImplementsKeySet IterationIsExact RehashProgresses
