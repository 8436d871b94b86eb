SPECIFICATION BarsSpec
CONSTANTS
    Bars = {0, 1, 2}
    Half = 8
    BarSizes = {0, 1, 2, 4, 8, 16}
    Layouts = {{"high"}}
INVARIANTS
    BarsTypeOK
    BarsFound
