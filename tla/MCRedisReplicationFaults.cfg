SPECIFICATION FairSpec
CONSTANTS
    A = A
    B = B
    C = C
    Nodes = {A, B}
    Root = A
    Targets = {A, B}
    None = None
    BacklogSize = 1
    MaxWrites = 2
    MaxSaves = 1
    MaxMoves = 2
    MaxFaults = 1
CHECK_DEADLOCK FALSE
INVARIANTS OneHistoryPerId LinkedReplicaFollows RolesConsistent
PROPERTY ReplicasConverge
