SPECIFICATION PartsSpec
CONSTANTS
    c1 = c1
    c2 = c2
    c3 = c3
    alice = alice
    bob = bob
    None = None
    Conns <- MCConns3
    Users <- MCUsers
    Canon <- TwoAccounts
    SingleThread = TRUE
    IdleLogout = TRUE
    Signals = FALSE
    MaxFailures = 2
    MaxGeneration = 6
    Links = {1, 2}
    Upstreams = {1, 2}
    MaxStatus = 1
    MaxFaults = 1
    BufferSizes = {0, 1, 3}
    FrameSamples = 2
    QueueCap = 2
    MaxSamples = 7
CHECK_DEADLOCK FALSE
INVARIANTS
    
    LinksAreOwned
    AudioSafe
PROPERTIES
    
    LinksSettle
    
