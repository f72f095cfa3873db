CONSTANTS
    c1 = c1
    c2 = c2
    Clients = {c1, c2}
    DBs = {0, 1}
    Names = {"k"}
    None = None
    MaxOpen = 1
    MaxQueue = 2
    QueuedOps = {"set", "get", "swapdb", "unwatch", "replicaof", "noone"}
SPECIFICATION Spec
SYMMETRY ClientSymmetry
INVARIANTS
    WatchListsAgree
    DirtyIffWritten
    
    

    
CHECK_DEADLOCK FALSE
