SPECIFICATION LiveSpec
CONSTANTS
    kWritePackets = 2
    Threshold = 2
    CongestionWindow = 3
    FlowWindow = 4
    MaxChunks = 6
INVARIANTS
    BufferIsBounded
PROPERTIES
    NeverStalls
    CarriesBytes
\* Nothing is left to do once the stream is destroyed and all has arrived.
CHECK_DEADLOCK FALSE
