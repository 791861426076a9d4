\* A participant and a stranger at the gate: one slot before authentication, a lockout after one wrong proof.
SPECIFICATION SupSpec
CONSTANTS
    Peer <- Two
    Honest <- First
    MaxPendingRequests = 1
    MaxPreAuth = 1
    FailureThreshold = 1
    LockoutBase = 1
    LockoutMax = 1
    QueueCapacity = 1
    MaxToken = 2
    MaxAdminPeers = 1
    MaxInbound = 1
    MaxEvents = 1
    MaxBatches = 1
INVARIANTS
    GateTypeOK
    EarnedEntry
    LockoutBoundsGuesses
    RecordsAgree
    RefusedOnlyForCause
CHECK_DEADLOCK FALSE
