SPECIFICATION FairSpec
CONSTANTS
    Blocks = {b1, b2, b3}
    Null = Null
    Parts = 2
    Faults <- AllFaults
    MaxTriggers = 4
\* the program ends, or waits for a trigger
CHECK_DEADLOCK FALSE
INVARIANTS
    TypeOK
    WritesToLiveBlock
    BufferFullAtEvent
PROPERTIES
    FramesFed
    Rearmed
