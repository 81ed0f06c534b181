\* One frame of one channel is enough: the saver waits for a second one.
SPECIFICATION Spec
CONSTANTS
    Frames = 1
    Channels = 1
    Malformed = {}
\* the program may have ended
CHECK_DEADLOCK FALSE
PROPERTY
    CloseEndsThread
