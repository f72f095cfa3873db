CONSTANTS
    w1 = w1  w2 = w2  a1 = a1  a2 = a2  r1 = r1  r2 = r2
    nullptr = nullptr
    NoThread = NoThread
    Workers <- TwoWorkers
    Appenders <- OneAppender
    Requests <- TwoRequests
    maxRequests = 1
    SEM_VALUE_MAX = 2
    Interrupts = TRUE
SPECIFICATION FairSpec
CHECK_DEADLOCK FALSE
INVARIANT NoStrandedRequest
PROPERTY AcceptedIsProcessed
