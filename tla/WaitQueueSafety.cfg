CONSTANTS
    Nobody = Nobody
    Producers = {p1, p2}
    Consumers = {c1, c2, c3}
    MaxJobs = 4
    Spurious = TRUE
SPECIFICATION FairSpec
CHECK_DEADLOCK FALSE
INVARIANTS
    TypeOK
    EachJobOnce
    NoLostSignal
PROPERTIES
    EveryJobTaken
