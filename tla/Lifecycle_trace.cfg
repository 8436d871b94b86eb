SPECIFICATION Spec
CONSTANTS
    Threads = {t1, t2}
    Funcs = {0}
    MaxObjs = 1
    InitMayFail = FALSE
    Careless = {"trace"}
INVARIANT NothingLeft
CHECK_DEADLOCK FALSE
