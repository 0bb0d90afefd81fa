CONSTANTS
    Nobody = Nobody
    Producers = {p1, p2}
    Consumers = {c1, c2}
    MaxJobs = 4
    Spurious = FALSE
SPECIFICATION Spec
CHECK_DEADLOCK FALSE
INVARIANTS
    PopFindsJob
