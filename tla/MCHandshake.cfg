SPECIFICATION FairSpec
CONSTANTS
    Password = {good, bad}
    UserPassword = good
    ErrorCode <- BoundaryCodes
    MaxVersion = 1
    MaxAttempt = 2
INVARIANT HandshakeInv
INVARIANT Authenticated
INVARIANT HonestServerConnects
PROPERTY AttemptEnds
CHECK_DEADLOCK FALSE
