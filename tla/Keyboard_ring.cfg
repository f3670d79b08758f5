SPECIFICATION FairSpec
CONSTANTS
    KB_BUF_SIZE = 3
    Char <- MCChar
    scancode_to_ascii <- MCAscii
    scancode_shift <- MCShift
    Keys <- TypedKeys
    ExtKeys <- ArrowUp
    PortDepth = 4
    MaxBytes = 8
INVARIANTS
    TypeOK
    NothingLost
    ReaderHoldsOldest
    ShiftNeverSticks
PROPERTIES
    ImplementsQueue
    EveryCharReturned
