SPECIFICATION Spec
CONSTANTS
    VegasMSS = 2
    VegasInitialPackets = 10
    VegasMaxWindowPackets = 14
    Window = 2
    VegasHorizon = 5
    VegasMaxPackets = 5
    VegasMaxInFlight = 4
    CopaMSS = 2
    CopaInitialPackets = 5
    VelocityBits = 3
    Second = 12
    MinRtt = 1
    MaxRtt = 2
    MaxAcked = 2
    WindowBound = 24
    CopaHorizon = 8
    CdgMSS = 10
    CdgInitialPackets = 4
    CdgMaxWindowPackets = 6
    RttWin = 2
    UseShadow = TRUE
    Shadows = {0, 100}
    Ineffective = {0, 1}
    CdgRtts = {1, 2}
    CdgMaxPackets = 4
    CdgMaxInFlight = 3
INVARIANTS
    TypeOK
    RecoveryIsNamed
    EpochHasSamples
    ChecksHoldInWindow
    VelocityCountsRtts
    SlowStartPace
    SumIsOfTheLastRounds
PROPERTIES
    CutIsBounded
    NoFastStepBackwards
\* A controller ends at its bounds, and Vegas at a failed CHECK.
CHECK_DEADLOCK FALSE
