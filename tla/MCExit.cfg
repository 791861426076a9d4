\* The host leaves with /exit while one participant is in the room.
SPECIFICATION SupSpec
CONSTANTS
    Peer <- One
    Honest <- First
    MaxPendingRequests = 1
    MaxPreAuth = 1
    FailureThreshold = 1
    LockoutBase = 1
    LockoutMax = 1
    QueueCapacity = 1
    MaxToken = 1
    MaxAdminPeers = 1
    MaxInbound = 1
    MaxEvents = 1
    MaxBatches = 1
INVARIANTS
    ShutdownReachesMembers
CHECK_DEADLOCK FALSE
