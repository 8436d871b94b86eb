SPECIFICATION Spec
CONSTANTS
    MaxQueues = 16
    AdminDepth = 2
    IoDepth = 3
    Sectors = 2
    Queries <- MCQueries
    IoCommands <- MCIoCommands
    MaxCommands = 3
    MaxGen = 3
    Hasty = FALSE
    MaxResets = 2
    RingRoom = 9
INVARIANTS
    NewEntriesAnswer
    LoopOnDriversQueue
PROPERTIES
    EverythingEnds
CHECK_DEADLOCK FALSE
