SPECIFICATION Spec
CONSTANTS
    Threads = {t1}
    Funcs = {0, 1}
    MaxObjs = 2
    InitMayFail = FALSE
    Careless = {}
INVARIANT RegisterSucceeds
CHECK_DEADLOCK FALSE
