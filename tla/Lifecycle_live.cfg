SPECIFICATION FairSpec
CONSTANTS
    Threads = {t1, t2}
    Funcs = {0, 1}
    MaxObjs = 2
    InitMayFail = TRUE
    Careless = {}
INVARIANTS TypeOK OneRegistrar
PROPERTIES StartActivates DestroyEnds
CHECK_DEADLOCK FALSE
