SPECIFICATION Spec
CONSTANTS
    PMM_MAX_ORDER = 2
    Size <- MCSize
    NPages = 16
    LowEnd = 1
    KernelEnd = 2
    DmaEnd = 8
    NormalEnd = 12
    Maps <- BootMaps
    NULL = NULL

INVARIANT
    KernelStaysReserved
