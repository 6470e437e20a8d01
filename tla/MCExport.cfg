SPECIFICATION FairSpec
CONSTANTS
    Table = {a, b}
    Clients = 2
    RowCount = 2
    QueueSize = 1
    MaxLost = 1
INVARIANT ExportInv
INVARIANT FileFaithful
INVARIANT LossReported
INVARIANT TablesFound
PROPERTY ExportEnds
CHECK_DEADLOCK FALSE
