SPECIFICATION FairSpec
CONSTANTS
    Task = {u1, u2}
    MaxGen = 1
    MaxToken = 1
    MaxRows = 2
    MaxFaults = 2
INVARIANT AsyncioInv
PROPERTY ImplementsResultStream
PROPERTY CallEnds
CHECK_DEADLOCK FALSE
