SPECIFICATION FairSpec
CONSTANTS
    Producers = {p1, p2}
    Consumers = {c1, c2}
    Values = {v1, v2}
    Nothing = Nothing
    NoThread = NoThread
    MaxLen = 2
INVARIANTS
    TypeOK
    MutexHeldInside
    NoLostWakeup
PROPERTIES
    AtomicQueue
    AtomicQueueFair
