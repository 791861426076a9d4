\* Messages of every type, well formed and with one thing wrong, and two-way traffic.
SPECIFICATION Spec
CONSTANTS
    End <- Ends
    Traffic <- AllTraffic
    MaxFrame = 40
    PipeCapacity = 10
    ReadSizes <- Sizes
    InboundCapacity = 1
    OutboundCapacity = 1
INVARIANTS
    WireTypeOK
    StrictDecoding
PROPERTIES
    ImplementsFifoLink
    TrafficMoves
CHECK_DEADLOCK FALSE
