CONSTANTS
    Files <- SomeFiles
    HeaderPieces <- OneByteEach
    FormLength = 2
    WRITE_BUFFER_SIZE = 10
    INT_MAX = 10
    HeaderCuts = 2
SPECIFICATION Spec
INVARIANT EmptiedMeansHeaderSent
