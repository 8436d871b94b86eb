SPECIFICATION BochsSpec
CONSTANTS
    RingSize = 3
    Producers = {p1}
    Setters = {s1}
    Eventfds = {e1}
    SetArgs = {e1}
    MaxEvents = 4
    MaxHead = 6
    None = None
    Torn = Torn
INVARIANT HandledInOrder
