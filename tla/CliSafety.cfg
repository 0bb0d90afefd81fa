CONSTANTS
    c1 = c1  c2 = c2  c3 = c3
    s = s  d = d  x = x  nl = nl  nul = nul
    Conns = {c1, c2}
    NumFds = 4
    Inherited = {0}
    Backlog = 1
    BufSize = 6
    SndBuf = 6
    Char = {s, d, x}
    NL = nl
    NUL = nul
    Writes <- Batches
    MaxWrites = 1
    Faults = {"close", "abort", "enfile"}
    ShutdownWord <- TheWord
    EventLen = 6
SPECIFICATION FairSpec
CHECK_DEADLOCK FALSE
INVARIANTS
    TypeOK
    WatchedExactly
    NeverBlocksInScan
    CommandsIntact
PROPERTIES
    ShutdownHonoured
