\* A publisher on one loop, its player and the cleaner on the other.
SPECIFICATION FairSpec
CONSTANTS
    None = None
    p1 = p1
    p2 = p2
    v1 = v1
    v2 = v2
    live = live
    Paths = {live}
    PathOf <- OneStream
    Ids = {1, 2, 3, 4}
    Publishers = {p1}
    Players = {v1}
    LoopOf <- Crossed
PROPERTIES
    CleanerRepeats
CHECK_DEADLOCK FALSE
