SPECIFICATION FlowingSpec
CONSTANTS
    ClientMoves <- AllMoves
    MaxQueue = 3
    MaxInbox = 2
\* the thread may have ended, by stopThread or otherwise
CHECK_DEADLOCK FALSE
INVARIANTS
    TypeOK
    NoSocketLeak
    NothingStaleSent
    DrainFindsFrames
PROPERTY
    SilentClientDropped
