CONSTANTS
    w1 = w1  w2 = w2
    NoJob = NoJob
    Workers <- TwoWorkers
    maxRequests = 1
    RESERVED = 5
    FD_LIMIT = 9
    MAX_FD = 8
    MAX_EVENT = 2
    BACKLOG = 1
SPECIFICATION Spec
CHECK_DEADLOCK FALSE
SYMMETRY Symmetry
INVARIANTS SingleOwner NoStaleReference UserCountExact OnlyRejectionStrands 
