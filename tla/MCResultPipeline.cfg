SPECIFICATION FairSpec
CONSTANTS
    AgcEnabled = TRUE
    MaxFrames = 3
\* the scan ends after MaxFrames and every thread waits for a queue
CHECK_DEADLOCK FALSE
INVARIANTS
    TypeOK
    ProtocolObeyed
    RowsAligned
    DroppedKeepUp
PROPERTY
    EveryFrameSaved
