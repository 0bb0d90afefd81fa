CONSTANTS
    MaxArgs = 4
    Number <- Numbers
    CommandLines <- AllLines
    Topologies <- AllTopologies
SPECIFICATION Spec
CHECK_DEADLOCK FALSE
INVARIANTS
    TypeOK
    AsksTheRightHub
    SaysWhatWasAsked
    ReportsEachHub
