SPECIFICATION Spec
CONSTANTS
    Task = {u1, u2}
    MaxGen = 2
    MaxToken = 1
    MaxRows = 1
    MaxFaults = 0
SYMMETRY Symmetry
PROPERTY ContinuesOwnStream
CHECK_DEADLOCK FALSE
