\* References of up to three samples in frames of six, two channels; steps that
\* divide the circle of 360 units and steps that do not.
SPECIFICATION Spec
CONSTANTS
    Unit = 2
    HalfTurn = 180
    MaxReference = 3
    FrameLength = 6
    MaxNoise = 2
    MaxBody = 5
    Amplitude = 1
    MaxChannels = 2
    MaxRate = 2
    MaxSamples = 2
    Values = {0, 1, 2}
    Alphabet = {44, 48, 65, 70}
    Steps = {1, 7, 40, 45, 100, 175, 180, 250, 360}
INVARIANTS
    CorrelationSlides
    PingFound
    WindowInside
    BeamsDistinct
    PacketRoundTrip
    SentenceVerified
    CorruptionDetected
CHECK_DEADLOCK FALSE
