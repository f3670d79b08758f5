SPECIFICATION HeapSpec
CONSTANTS
    HDR = 2
    PAGE = 5
    HEAP_SIZE = 15
    Sizes = {1, 4}
    NULL = NULL
INVARIANT
    BlocksApart
