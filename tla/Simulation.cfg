SPECIFICATION Spec
CONSTANTS
    Horizon = 5
    Simulations = {s1, s2}
    FolderNames = {"a", "b"}
    MaxDepth = 2
    OtherNames = {"cdg"}
    OtherOptions = {"cc"}
INVARIANTS
    BottleneckHoldsItsRtts
    UtilisationIsNear
    RunningHasItsFolder
    FlowRunsWhatIsNamed
PROPERTIES
    InTheEndItRuns
\* Every part ends.
CHECK_DEADLOCK FALSE
