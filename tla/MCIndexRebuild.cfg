SPECIFICATION FairRebuildSpec
CONSTANTS
    Index = {x, y, z}
    Concurrent = 2
    MaxRuns = 2
INVARIANT IndexSurvives
INVARIANT SuccessMeansCurrent
PROPERTY RunEnds
CHECK_DEADLOCK FALSE
