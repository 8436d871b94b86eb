SPECIFICATION Spec
CONSTANTS
    Irqfds = {i1}
    Eventfds = {e1}
    IrqReady = {TRUE, FALSE}
    None = None
INVARIANT NoBug
CHECK_DEADLOCK FALSE
