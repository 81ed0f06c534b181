SPECIFICATION FairSpec
CONSTANTS
    ClientMoves <- NoMoves
    MaxQueue = 1
    MaxInbox = 2
\* the thread may have ended, by stopThread or otherwise
CHECK_DEADLOCK FALSE
PROPERTY
    StopEndsThread
