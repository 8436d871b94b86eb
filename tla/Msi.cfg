SPECIFICATION MsiFairSpec
CONSTANTS
    Callers = {c1, c2}
    Cpus = {u1, u2}
    Vectors = {0, 1, 2}
    NumVectors = 2
    MaxCalls = 3
    NoIrq = NoIrq
INVARIANTS NoIrqAfterRemoval
PROPERTY LatestIsDelivered
CHECK_DEADLOCK FALSE
