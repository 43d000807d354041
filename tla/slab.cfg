SPECIFICATION Spec
CONSTANTS
    Mem = {a, b, c}
    Null = Null
    CACHE_START_ORDER = 1
    CACHE_END_ORDER = 3
    OFF_SLAB_THRESHOLD = 4
    SlabSize = 2
    PageAllocationSize = 2
    Count <- MCCountThree
    Sizes = {1, 4, 7, 9}
SYMMETRY MCSymmetry
INVARIANTS NoPagesLost EveryPointerFreeable SlabsExact
