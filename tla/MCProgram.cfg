\* Two frames of two channels: one may be left over when the flag is cleared.
SPECIFICATION Spec
CONSTANTS
    Frames = 2
    Channels = 2
    Malformed = {"signal", "AGC", "transmit"}
INVARIANTS
    TypeOK
    AliveWhenUsed
    WaveformLive
    RecordingWhole
    NothingSkipped
    ConfiguredWhenTrue
PROPERTIES
    RecorderEnds
    FramesRecorded
CHECK_DEADLOCK FALSE
