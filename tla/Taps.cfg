CONSTANTS
    a1 = a1  a2 = a2  s1 = s1  s2 = s2
    Everybody = Everybody
    DUT = a1
    None = None
    Frames <- AllFrames
    MaxFrames = 4
SPECIFICATION Spec
CHECK_DEADLOCK FALSE
INVARIANTS
    TypeOK
    TablesMatch
    HeardRssi
    ListingsComplete
    StatsMatch
    AirTimeAddsUp
    GapsReported
