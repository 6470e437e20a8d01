SPECIFICATION FairSpec
CONSTANTS
    Conn = {c1, c2, c3}
    Task = {u1, u2}
    MaxIdle = 1
INVARIANT PoolInv
INVARIANT ClosedMeansClosed
PROPERTY PoolCallEnds
CHECK_DEADLOCK FALSE
