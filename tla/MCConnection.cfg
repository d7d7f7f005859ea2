SPECIFICATION Spec
CONSTANTS
    s1 = s1
    s2 = s2
    s3 = s3
    Streams <- MCStreams
    Bidi <- MCBidi
    NoStream = NoStream
INVARIANTS
    ChannelIsLive
    OneChannelIsSafe
    AlarmHasItsStream
    ShippedPairIsSafe
\* Both sessions end.
CHECK_DEADLOCK FALSE
