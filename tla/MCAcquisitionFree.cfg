SPECIFICATION Spec
CONSTANTS
    Blocks = {b1, b2, b3}
    Null = Null
    Parts = 2
    Faults <- NoFaults
    MaxTriggers = 1
\* the program ends, or waits for a trigger
CHECK_DEADLOCK FALSE
INVARIANT
    DestructorFreesAll
