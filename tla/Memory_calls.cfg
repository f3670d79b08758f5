SPECIFICATION MCSpec
CONSTANTS
    E = 4
    KernelPde = 3
    IdPages = 7
    NFrames = 8
    KDir = 1
    Machines <- MCMachines
    Normal <- MCNormal
    Pages <- MCPages
    Token = {"a", "b"}
    MaxHeld = 2
    MaxClones = 1
    MaxCalls = 6
    NONE = NONE
    HDR = 2
    PAGE = 4
    HEAP_SIZE = 16
    Sizes = {1, 4}
    NULL = NULL
CHECK_DEADLOCK FALSE
INVARIANTS
    TlbCoherent
    SpacesIsolated
    FramesOwnedOnce
    BlocksDisjoint
    NothingLeaks
