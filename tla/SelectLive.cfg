CONSTANTS
    c1 = c1  c2 = c2  c3 = c3
    a = a  nl = nl  nul = nul
    Conns = {c1, c2}
    NumFds = 4
    Inherited = {0}
    Backlog = 1
    BufSize = 2
    SndBuf = 2
    Char = {a}
    NL = nl
    NUL = nul
    Writes <- ShortLines
    MaxWrites = 2
    Faults = {"close", "abort", "enfile"}
SPECIFICATION AllRead
CHECK_DEADLOCK FALSE
PROPERTIES
    ReadInFull
    HangupServed
    Accepted
    SendToEveryone
