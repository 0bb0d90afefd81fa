CONSTANTS
    a = a  b = b  nl = nl  nul = nul
    NL = nl
    NUL = nul
    Byte <- AllBytes
    Buffers <- AllBuffers
    MaxLen = 6
SPECIFICATION Spec
CHECK_DEADLOCK FALSE
INVARIANTS
    TypeOK
    StrlenStaysInside
    CallsAreCommands
    CallsMatchReference
