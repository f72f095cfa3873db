CONSTANTS
    Requests <- Samples
    READ_BUFFER_SIZE = 14
SPECIFICATION FairSpec
CHECK_DEADLOCK FALSE
PROPERTY ProcessReadReturns
