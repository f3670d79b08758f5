SPECIFICATION Spec
CONSTANTS
    PMM_MAX_ORDER = 1
    Size <- MCSize
    NPages = 12
    LowEnd = 1
    KernelEnd = 2
    DmaEnd = 4
    NormalEnd = 8
    Maps <- HighEntryMaps
    NULL = NULL
INVARIANT
    RangeAddedOnce
