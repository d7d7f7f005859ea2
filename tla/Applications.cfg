SPECIFICATION Spec
CONSTANT MaxSeq = 4
INVARIANTS
    BacklogNeverShrinks
    CloseIsHeard
PROPERTIES
    StopIsAnnounced
\* Both applications stop.
CHECK_DEADLOCK FALSE
