\* The window is closed while the loop is starting a stream.
SPECIFICATION Spec
CONSTANTS
    MaxFrames = 1
    MaxSession = 3
    StopsAlone = FALSE
    None = None
INVARIANT NoCrash
CHECK_DEADLOCK FALSE
