\* Two windows, an account, a few clicks; two faults: queries that fail, servers that start again.
SPECIFICATION FairSpec
CONSTANTS
    None = None
    Clients = {w1, w2}
    Accounts = {a1}
    MaxFaults = 2
    MaxClicks = 3
INVARIANTS
    TypeOK
    FlagFollowsSession
    OneSession
PROPERTIES
    AccountFreed
    LoginAnswered
CHECK_DEADLOCK FALSE
