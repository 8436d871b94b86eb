SPECIFICATION Spec
CONSTANTS
    Irqfds = {i1, i2}
    Eventfds = {e1, e2}
    IrqReady = {TRUE}
    None = None
SYMMETRY Symmetry
INVARIANTS NoUseAfterFree NothingLeaked NoLockInversion
CHECK_DEADLOCK FALSE
