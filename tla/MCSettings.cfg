\* Colours and the message lifetime: requests, changes and the rebroadcast cross in flight.
SPECIFICATION SessionSpec
CONSTANTS
    MaxConn = 1
    Nickname = {"host", "ada", "bob"}
    Identity = {"k0", "k1", "k2"}
    Color = {1, 2}
    HostNickname = "host"
    HostIdentity = "k0"
    DefaultColor = 1
    MaxActiveMembers = 3
    MaxPendingRequests = 2
    EpochAckTimeout = 1
    Burst = 1
    RateLimitTermination = 2
    Kinds = {"Color", "TimeoutRequest", "TimeoutChanged"}
    MaxSenderSequence = 1
    MaxRoomSequence = 6
    MaxToken = 1
    Applications <- Forms
    Intervals <- Intervals2
INVARIANTS
    TimeoutsAgreeUnlessNested
    ArrivesAsExpected
CHECK_DEADLOCK FALSE
