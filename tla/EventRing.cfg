SPECIFICATION FairSpec
CONSTANTS
    RingSize = 3
    Producers = {p1, p2}
    Setters = {s1, s2}
    Eventfds = {e1, e2}
    SetArgs = {e1, e2}
    MaxEvents = 4
    None = None
    Torn = Torn
INVARIANTS HandledSlotIntact NoLostWakeup
PROPERTIES ImplementsQueue AcceptedIsHandled
