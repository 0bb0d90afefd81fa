CONSTANTS
    p1 = p1  p2 = p2  p3 = p3
    h1 = h1  h2 = h2
    a = a  b = b
    Procs = {p1, p2, p3}
    Prog <- Programs
    Host <- Hosts
    BufSize = 2
    RcvBuf = 1
    Char = {a, b}
    NUL = nul
    Junk = junk
    Messages <- Texts
SPECIFICATION FairSpec
CHECK_DEADLOCK FALSE
INVARIANTS
    TypeOK
    SaysWhatCame
PROPERTIES
    EndsWhenQuiet
