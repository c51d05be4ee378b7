\* Streams start on the loop while the GUI thread paints; the window is closed
\* between two handlers.  A window makes the presenter's third reset at most.
SPECIFICATION Spec
CONSTANTS
    MaxFrames = 3
    MaxSession = 4
    StopsAlone = TRUE
    None = None
INVARIANTS TypeOK OneNotification OneStreamIsSafe
PROPERTIES CloseReturns ImplementsLatestFrame
CHECK_DEADLOCK FALSE
