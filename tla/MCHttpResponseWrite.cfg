CONSTANTS
    Files <- SomeFiles
    HeaderPieces <- OneByteEach
    FormLength = 2
    WRITE_BUFFER_SIZE = 10
    INT_MAX = 10
    HeaderCuts = 1
SPECIFICATION FairSpec
INVARIANTS WirePrefix
PROPERTIES CompleteWhenDone MappingReleased 
