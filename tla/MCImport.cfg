SPECIFICATION FairSpec
CONSTANTS
    t1 = t1
    t2 = t2
    Table = {t1, t2}
    Writer = {w1, w2}
    RowCount <- Rows
    BatchSize = 2
    QueueSize = 1
    TimingSize = 2
    MaxFaults = 1
INVARIANT ImportInv
INVARIANT NoDuplicate
INVARIANT RowsAccounted
INVARIANT CompleteUnlessReported
INVARIANT RowsFound
PROPERTY ImportEnds
CHECK_DEADLOCK FALSE
