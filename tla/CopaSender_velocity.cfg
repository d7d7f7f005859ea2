SPECIFICATION Spec
CONSTANTS
    MSS = 2
    InitialPackets = 5
    VelocityBits = 3
    Second = 12
    MinRtt = 1
    MaxRtt = 2
    MaxAcked = 2
    WindowBound = 24
    Horizon = 8
INVARIANT
    VelocityIsPositive
CHECK_DEADLOCK FALSE
