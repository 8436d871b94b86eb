SPECIFICATION Spec
CONSTANTS
    Space = 6
    MaxSize = 4
    MaxTransfer = 3
    MaxTokens = 2
    MaxRegions = 3
    Others = {{"add", "remove"}}
    None = None
INVARIANTS
    SoleAccessInside
CHECK_DEADLOCK FALSE
