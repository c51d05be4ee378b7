\* One publisher: three threads on one connection that holds three units and queues
\* three packets, two pictures and a sound.
SPECIFICATION FairSpec
CONSTANTS
    None = None
    Senders = {"open", "video", "audio"}
    MaxQueue = 3
    Room = 3
    MaxVideo = 2
    MaxAudio = 1
INVARIANTS
    TypeOK
    HeadersFirst
PROPERTIES
    ImplementsMessageChannel
    PublishAnswered
    QueuedIsSent
CHECK_DEADLOCK FALSE
