\* Participants join, chat, leave, are kicked and evicted while everything is in flight.
SPECIFICATION SessionSpec
CONSTANTS
    MaxConn = 2
    Nickname = {"host", "ada", "bob"}
    Identity = {"k0", "k1", "k2"}
    Color = {1}
    HostNickname = "host"
    HostIdentity = "k0"
    DefaultColor = 1
    MaxActiveMembers = 3
    MaxPendingRequests = 2
    EpochAckTimeout = 1
    Burst = 1
    RateLimitTermination = 1
    Kinds = {"Chat"}
    MaxSenderSequence = 1
    MaxRoomSequence = 0
    MaxToken = 1
    Applications <- TwoForms
    Intervals <- Intervals1
INVARIANTS
    ArrivesAsExpected
    TablesAgreeUnlessNested
    UnreadableOnlyUntilAnnounced
PROPERTIES
    HonestMemberNotPunished
CHECK_DEADLOCK FALSE
