SPECIFICATION FairFramingSpec
CONSTANTS
    HeaderLen = 2
    BodyLen = 3
    MaxBytes = 12
INVARIANT FramingInv
PROPERTY SilenceTimesOut
CHECK_DEADLOCK FALSE
