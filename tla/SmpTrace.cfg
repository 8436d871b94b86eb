SPECIFICATION FairSpec
CONSTANTS
    CPUs = {c1, c2}
    Maps = {m1, m2}
    LateDriver = {TRUE, FALSE}
    None = None
INVARIANTS HandlerSafe PoisonedIsHandled CleanWhenOff
CHECK_DEADLOCK FALSE
