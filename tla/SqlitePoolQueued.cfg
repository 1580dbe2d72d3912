SPECIFICATION PoolSpec
CONSTANTS
    a = a
    b = b
    c1 = c1
    c2 = c2
    Tasks <- MCPair
    Nested <- MCNone
    Conns <- MCConns
    Initial <- MCAlone
    MayClose = FALSE
    MaxCancels = 1
    MaxCancelled = 1
    MaxBroken = 0
    MaxLost = 0
INVARIANTS CleanHandover
