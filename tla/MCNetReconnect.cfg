SPECIFICATION FairSpec
CONSTANTS
    MaxGen = 2
    MaxToken = 1
    MaxRows = 2
    MaxNoreply = 1
INVARIANT StaleCursorInert
PROPERTY ImplementsResultStream
PROPERTY CallReturns
