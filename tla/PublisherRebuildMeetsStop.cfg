\* The Qt thread rebuilds a stream while the loop stops or starts one.
SPECIFICATION Spec
CONSTANTS
    None = None
    MaxFrames = 2
    MaxOpens = 3
    RebuildsAlone = FALSE
INVARIANT SourceOutlivesVideo
CHECK_DEADLOCK FALSE
