SPECIFICATION DirectSpec
CONSTANTS
    MaxEvents = 4
    QueueLimit = 3
    BatchLimit = 2
    Retention = TRUE
    MaxFaults = 2
    Lifetime = 12
    Rotation = 5
    Overlap = 4
    HeartbeatDelay = 1
    RecordExpiry = 1
    TicketLife = 1
    MaxClock = 13
    MaxCertFaults = 2
    Tickets = {1, 2}
    Handlers = {1, 2}
    TicketTTL = 1
    ClockSkew = 1
    Cooldown = 2
    MaxKeys = 2
    MaxTime = 3
    MaxTicketFaults = 2
    MaxCalls = 2
INVARIANTS
    AuditSafe
    CertSafe
    TicketsSafe
    ViewerSafe
PROPERTIES
    LogSpec
    EventuallySettled
    KeyFollows
    
CHECK_DEADLOCK FALSE
