\* Two publishers of a stream on two loops and a player that joins any time.
SPECIFICATION TimelySpec
CONSTANTS
    None = None
    p1 = p1
    p2 = p2
    v1 = v1
    v2 = v2
    live = live
    Paths = {live}
    PathOf <- OneStream
    Ids = {1, 2, 3, 4}
    Publishers = {p1, p2}
    Players = {v1}
    LoopOf <- InTurn
INVARIANTS
    TypeOK
    Decodable
    SessionKept
PROPERTIES
    PathFreed
CHECK_DEADLOCK FALSE
