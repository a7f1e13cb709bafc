\* Two requests at a time on two levels and the layers under them, four in all.
SPECIFICATION Spec
CONSTANTS
    Sessions = {s1, s2}
    NoSession = NoSession
    Rows = {null, b1}
    NoBatch = null
    Methods = {"fifo", "weighted_average"}
    InitStock <- MCStock
    InitLayer <- MCLayer
    MaxUnits = 1
    MaxStock = 3
    MaxRequests = 4
    Mixes <- MCMixes
INVARIANTS LayersMatch AveragesMatch DeadlockNeedsTwoLevels
CHECK_DEADLOCK FALSE
SYMMETRY MCSymmetry
