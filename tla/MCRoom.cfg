\* The room actor under hostile peers: admission, membership, keys and invitations.
SPECIFICATION Spec
CONSTANTS
    MaxConn = 2
    Nickname = {"host", "ada", "bob"}
    Identity = {"k0", "k1", "k2"}
    Color = {1}
    HostNickname = "host"
    HostIdentity = "k0"
    DefaultColor = 1
    MaxActiveMembers = 3
    MaxPendingRequests = 2
    EpochAckTimeout = 1
    Burst = 1
    RateLimitTermination = 2
    Kinds = {}
    MaxSenderSequence = 1
    MaxRoomSequence = 4
    MaxToken = 2
    Applications <- ClashingForms
    Intervals <- Intervals1
INVARIANTS
    QueueMatchesRegistry
    RegistryMatchesMembers
    MembersDistinct
    TransitionShape
    KeyGoesToMembers
PROPERTIES
    GoneForGood
    ImplementsGroupKey
    ImplementsRoomGate
    TransitionEnds
