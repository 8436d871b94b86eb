SPECIFICATION FairSpec
CONSTANTS
    CPUs = {c1, c2}
    Maps = {m1, m2}
    LateDriver = {TRUE, FALSE}
    None = None
INVARIANTS TypeOK QuietDriverUndisturbed
PROPERTIES StopEnds
CHECK_DEADLOCK FALSE
