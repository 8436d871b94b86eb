SPECIFICATION FairSpec
CONSTANTS
    Threads = {t1, t2, t3}
    Funcs = {0, 1}
    MaxObjs = 2
    InitMayFail = TRUE
    Careless = {}
INVARIANTS StateOutlivesFds OnBusIffRegistered ActivationHasDevice NothingLeft
CHECK_DEADLOCK FALSE
