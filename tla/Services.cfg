SPECIFICATION ServicesSpec
CONSTANTS
    t1 = t1
    t2 = t2
    t3 = t3
    k1 = k1
    k2 = k2
    k3 = k3
    Tasks <- MCTasks
    Nested <- MCTasks
    Conns <- MCConns
    Initial <- MCInitial
    MayClose = TRUE
    MaxCancels = 1
    MaxCancelled = 1
    MaxBroken = 1
    MaxLost = 1
    NSteps = 4
    Passes <- MCPasses
    MaxLoops = 2
CHECK_DEADLOCK FALSE
INVARIANTS ServicesTypeOK RunsAsDrawn CapacityKept CleanButForLate
PROPERTIES Served RunComesToEnd
