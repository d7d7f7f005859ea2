SPECIFICATION TracesSpec
CONSTANTS
    MaxSeq = 5
    Base = 2
    Times = {0, 1, 6}
    Servers = {"h1", "h5"}
    Clients = {"c"}
    Interval = 3
    Millisecond = 2
    MaxTime = 7
    MaxBytes = 5
    ClientIps = {1, 4}
    ServerIps = {2, 3, 5}
    ClientPorts = {1, 2, 3}
    MaxOpened = 4
    Values = {0, 1, 2}
    MaxSent = 4
INVARIANTS
    LossIsExact
    LossIsNeverUnderstated
    TagRoundTrips
    LinesTile
    TotalCountsEveryByte
    OnlyCrossedPairsAreLost
    ShippedPairsAreTraced
    FileShowsSamples
\* Every trace ends at its bounds.
CHECK_DEADLOCK FALSE
