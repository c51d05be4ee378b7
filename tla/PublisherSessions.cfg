\* Streams of any backend opened, failing, rebuilt and closed, one handler at a time.
SPECIFICATION Spec
CONSTANTS
    None = None
    MaxFrames = 3
    MaxOpens = 2
    RebuildsAlone = TRUE
INVARIANTS
    TypeOK
    NoCrash
    UsersEndFirst
    FrameStaysIntact
    PoolSuffices
    NothingLeft
PROPERTIES
    TakesNewest
    CloseReturns
CHECK_DEADLOCK FALSE
