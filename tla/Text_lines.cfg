SPECIFICATION Spec
CONSTANTS
    IntBits = 6
    OctetBits = 4
    AddrBuf = 12
    Alphabets <- MCAlphabets
INVARIANTS
    ArithmeticRight
    AddressRight
