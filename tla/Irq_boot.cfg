SPECIFICATION FairSpec
CONSTANTS
    Nics <- MCNics
    Foreign <- MCForeign
    MaxBytes = 3
    MaxEvents = 4
    MaxReads = 1
CHECK_DEADLOCK FALSE
INVARIANTS
    NoStrayInterrupt
    NothingInService
    KeyboardNotWedged
PROPERTIES
    EveryByteRead
