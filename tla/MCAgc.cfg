SPECIFICATION FairSpec
CONSTANTS
    gainMin = 0
    gainMax = 1004
    gainStep = 497
    initGainValue = 500
    Faults <- AllFaults
    MaxQueue = 2
    MaxLate = 1
\* writeByte may have ended the program
CHECK_DEADLOCK FALSE
INVARIANTS
    TypeOK
    DacFollowsGain
PROPERTIES
    GainMovesBySteps
    GainSettles
