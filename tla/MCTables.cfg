\* Member tables when transitions nest.
SPECIFICATION SessionSpec
CONSTANTS
    MaxConn = 2
    Nickname = {"host", "ada", "bob"}
    Identity = {"k0", "k1", "k2"}
    Color = {1}
    HostNickname = "host"
    HostIdentity = "k0"
    DefaultColor = 1
    MaxActiveMembers = 3
    MaxPendingRequests = 2
    EpochAckTimeout = 1
    Burst = 1
    RateLimitTermination = 2
    Kinds = {}
    MaxSenderSequence = 1
    MaxRoomSequence = 0
    MaxToken = 1
    Applications <- TwoForms
    Intervals <- Intervals1
INVARIANTS
    TablesAlwaysAgree
CHECK_DEADLOCK FALSE
