\* The server's connection while its constructors run.
SPECIFICATION SpecWhileBuilding
CONSTANTS
    None = None
    Senders = {"open", "video", "audio"}
    MaxQueue = 3
    Room = 3
    MaxVideo = 2
    MaxAudio = 1
INVARIANT NoBadWeakPtr
CHECK_DEADLOCK FALSE
