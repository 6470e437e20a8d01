SPECIFICATION Spec
CONSTANTS
    Actor = {main, b, c}
    Root = main
    Times = 2
    MaxConn = 2
SYMMETRY Symmetry
INVARIANT NoSharedConnection
INVARIANT ExecutedOnce
