SPECIFICATION Spec
CONSTANTS
    Threads = {t1, t2}
    Funcs = {0}
    MaxObjs = 1
    InitMayFail = TRUE
    Careless = {"guess"}
INVARIANT StateOutlivesFds
CHECK_DEADLOCK FALSE
