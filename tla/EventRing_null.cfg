SPECIFICATION Spec
CONSTANTS
    RingSize = 3
    Producers = {p1}
    Setters = {s1}
    Eventfds = {e1}
    SetArgs = {e1, None}
    MaxEvents = 2
    None = None
    Torn = Torn
INVARIANT NoNullSignal
