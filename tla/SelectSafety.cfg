CONSTANTS
    c1 = c1  c2 = c2  c3 = c3
    a = a  nl = nl  nul = nul
    Conns = {c1, c2, c3}
    NumFds = 5
    Inherited = {0}
    Backlog = 1
    BufSize = 2
    SndBuf = 2
    Char = {a}
    NL = nl
    NUL = nul
    Writes <- ShortLines
    MaxWrites = 1
    Faults = {"close", "abort", "enfile"}
SPECIFICATION Spec
SYMMETRY Symmetry
CHECK_DEADLOCK FALSE
INVARIANTS
    TypeOK
    WatchedExactly
    NeverBlocksInScan
    BroadcastInOrder
PROPERTIES
    ImplementsGroup
