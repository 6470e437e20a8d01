SPECIFICATION FairSpec
CONSTANTS
    Driver = {"trio", "twisted", "tornado", "gevent"}
    Task = {u1, u2}
    MaxToken = 2
    MaxStream = 1
    MaxRows = 1
    MaxFaults = 1
INVARIANT LoopInv
PROPERTY ImplementsResultStream
PROPERTY CallEnds
CHECK_DEADLOCK FALSE
