SPECIFICATION FairSpec
CONSTANTS
    Irqfds = {i1, i2}
    Eventfds = {e1}
    IrqReady = {TRUE}
    None = None
PROPERTIES WriteIsInjected DestroyEnds
CHECK_DEADLOCK FALSE
