SPECIFICATION FairSpec
CONSTANTS
    Irqfds = {i1, i2}
    Eventfds = {e1, e2}
    IrqReady = {TRUE}
    None = None
INVARIANTS TypeOK
PROPERTIES HupFrees WriteIsInjected DestroyEnds
CHECK_DEADLOCK FALSE
