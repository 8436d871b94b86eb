SPECIFICATION Spec
CONSTANTS
    Base = 2
    PoolPages = 2
    Sizes = {0, 1, 2}
    Insts = {i1, i2}
    Bars = {0, 1}
    Threads = {t1}
    Usages = {{"off"}, {"again", "off"}}
    None = None
SYMMETRY Symmetry
INVARIANTS ChunksDisjoint DecodedStaysReserved NoLeak RegisteredBarsBacked
CHECK_DEADLOCK FALSE
