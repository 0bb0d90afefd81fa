CONSTANTS
    c1 = c1  c2 = c2  c3 = c3
    s = s  d = d  x = x  nl = nl  nul = nul
    Conns = {c1, c2}
    NumFds = 4
    Inherited = {0}
    Backlog = 1
    BufSize = 6
    SndBuf = 6
    Char = {s, d, x}
    NL = nl
    NUL = nul
    Writes <- Pieces
    MaxWrites = 2
    Faults = {"close", "abort"}
    ShutdownWord <- TheWord
    EventLen = 6
SPECIFICATION Spec
CHECK_DEADLOCK FALSE
INVARIANTS
    CommandsIntact
