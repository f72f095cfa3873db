SPECIFICATION Spec
CONSTANTS
    A = A
    B = B
    C = C
    Nodes = {A, B, C}
    Root = A
    Targets = {B}
    None = None
    BacklogSize = 2
    MaxWrites = 2
    MaxSaves = 0
    MaxMoves = 3
    MaxFaults = 0
CHECK_DEADLOCK FALSE
INVARIANTS OneHistoryPerId SecondIdIsPast LinkedReplicaFollows
