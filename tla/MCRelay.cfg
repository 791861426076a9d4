\* The relay: genuine, forged and replayed messages, the rate limit, timeout requests.
SPECIFICATION Spec
CONSTANTS
    MaxConn = 2
    Nickname = {"host", "ada", "bob"}
    Identity = {"k0", "k1", "k2"}
    Color = {1}
    HostNickname = "host"
    HostIdentity = "k0"
    DefaultColor = 1
    MaxActiveMembers = 3
    MaxPendingRequests = 1
    EpochAckTimeout = 1
    Burst = 1
    RateLimitTermination = 2
    Kinds = {"Chat", "TimeoutRequest"}
    MaxSenderSequence = 1
    MaxRoomSequence = 0
    MaxToken = 1
    Applications <- Forms
    Intervals <- Intervals1
INVARIANTS
    TypeOK
    RelayReachesKeyHolders
    RequestIdsDisjoint
PROPERTIES
    RelayedOnce
