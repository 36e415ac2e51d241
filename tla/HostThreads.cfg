SPECIFICATION ThreadsSpec
CONSTANTS
    c1 = c1
    c2 = c2
    c3 = c3
    alice = alice
    bob = bob
    None = None
    Conns <- MCConns2
    Users <- MCUsers
    Canon <- OneAccount
    SingleThread = FALSE
    IdleLogout = TRUE
    Signals = TRUE
    MaxFailures = 2
    MaxGeneration = 2
    FrameSizes = {1, 2}
    Levels = {1, 2}
    ChanCap = 2
    MaxChanges = 3
INVARIANTS
    ClaimIsHeld
PROPERTIES
    RatesSettle
CHECK_DEADLOCK FALSE
