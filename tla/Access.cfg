SPECIFICATION AccessSpec
CONSTANTS
    Space = 6
    MaxSize = 4
    MaxTransfer = 3
    MaxTokens = 2
    MaxRegions = 3
    Others = {{"add"}, {"remove"}}
    None = None
    KPage = 2
    Iommus <- MCIommus
    PageSizes = {2, 4}
    Offsets = {0, 1}
    Lengths = {1, 2, 3, 5, 8, 12}
    DataPages <- MCDataPages
    ListPages <- MCListPages
    Funcs = {"ours"}
    Words = 4
INVARIANTS
    TransferExact
    CleanEnd
    MappedIsTranslated
    AccessInside
    ValidatedSucceeds
CHECK_DEADLOCK FALSE
