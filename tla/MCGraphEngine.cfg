CONSTANTS
    k1 = k1
    k2 = k2
    k3 = k3
    k4 = k4
    Keys <- MCKeys
    MaxEdges = 4

SPECIFICATION Spec

INVARIANT TypeOK
INVARIANT WellFormed
INVARIANT CycleIsReal
INVARIANT NoMissedCycle
PROPERTY PruneExact
