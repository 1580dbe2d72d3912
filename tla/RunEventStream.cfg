CONSTANTS
    Watched = r1
    r1 = r1
    s1 = s1
    c1 = c1
    w1 = w1
    key = key
    None = None
    Runs = {r1}
    Streams = {s1}
    Cancels = {c1}
    Sweepers = {w1}
    Keys <- MCKeys
    KeyOf <- MCKeyOf
    RunStale = 4
    LeaseStale = 4
    HeartbeatEvery = 1
    Prompt = TRUE
    MaxPause = 1
    MaxSteps = 0
    MaxFaults = 0
SPECIFICATION StreamFairSpec
INVARIANTS TypeOK LeaseInv EndedStreamIsComplete
PROPERTIES OneExecutionAtATime StreamEnds
