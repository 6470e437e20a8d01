SPECIFICATION Spec
CONSTANTS
    MaxGen = 1
    MaxToken = 2
    MaxRows = 3
    MaxNoreply = 1
INVARIANT NoUnexpectedResponse
INVARIANT RequestsAccounted
INVARIANT NoRowLost
INVARIANT WaiterHasRequest
INVARIANT FlushedMeansExecuted
