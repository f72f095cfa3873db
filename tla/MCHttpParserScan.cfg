CONSTANTS
    Requests <- AllRequests
    READ_BUFFER_SIZE = 14
SPECIFICATION FairSpec
CHECK_DEADLOCK FALSE
INVARIANTS IndexOrder UnscannedIntact 
 
