\* Chat lines at and just below the documented limit.
SPECIFICATION Spec
CONSTANTS
    End <- Ends
    Traffic <- ChatLimit
    MaxFrame = 40
    PipeCapacity = 10
    ReadSizes <- Sizes
    InboundCapacity = 1
    OutboundCapacity = 1
INVARIANT
    ChatIsNeverRefused
CHECK_DEADLOCK FALSE
