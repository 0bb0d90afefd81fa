CONSTANTS
    Timeout = 3
    Enough = 2
    QueueLen = 2
    MaxFrames = 5
    MaxSignals = 2
SPECIFICATION FairSpec
CHECK_DEADLOCK FALSE
INVARIANTS
    TypeOK
    EchoesInOrder
    NeverBlocksInRead
PROPERTIES
    FramesServed
