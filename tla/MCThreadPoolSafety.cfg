CONSTANTS
    w1 = w1  w2 = w2  a1 = a1  a2 = a2  r1 = r1  r2 = r2
    nullptr = nullptr
    NoThread = NoThread
    Workers <- TwoWorkers
    Appenders <- TwoAppenders
    Requests <- TwoRequests
    maxRequests = 2
    SEM_VALUE_MAX = 3
    Interrupts = FALSE
SPECIFICATION Spec
CHECK_DEADLOCK FALSE
SYMMETRY Symmetry
INVARIANTS MutualExclusion TokenConservation  
PROPERTY ImplementsJobQueue
