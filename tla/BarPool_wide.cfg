SPECIFICATION Spec
CONSTANTS
    Base = 3
    PoolPages = 4
    Sizes = {0, 1, 2}
    Insts = {i1, i2}
    Bars = {0, 1}
    Threads = {t1}
    Usages = {{"off"}, {"again"}}
    None = None
SYMMETRY Symmetry
INVARIANTS TypeOK ChunksDisjoint DecodedStaysReserved NoLeak RegisteredBarsBacked
CHECK_DEADLOCK FALSE
