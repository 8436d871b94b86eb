SPECIFICATION Spec
CONSTANTS
    Threads = {t1, t2}
    Funcs = {0}
    MaxObjs = 2
    InitMayFail = FALSE
    Careless = {"create"}
INVARIANT NothingLeft
CHECK_DEADLOCK FALSE
