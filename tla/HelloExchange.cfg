SPECIFICATION LiveSpec
CONSTANT Pieces = 6
PROPERTIES
    BothStreamsEnd
    CarriesBytes
\* Both streams are destroyed in the end.
CHECK_DEADLOCK FALSE
