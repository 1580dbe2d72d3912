SPECIFICATION EndingsSpec
CONSTANTS
    plain = plain
    routed = routed
    Answers <- MCAnswers
    Orchestrated <- MCRouted
    Balanced <- MCRouted
    Candidates = 2
    MaxWorkers = 1
    MaxTokens = 1
    Renewing <- MCRouted
    key = key
    None = None
    Runs = {r1}
    Streams = {}
    Cancels = {c1}
    Sweepers = {s1}
    Keys <- MCKeys
    KeyOf <- MCKeyOf
    RunStale = 1
    LeaseStale = 1
    HeartbeatEvery = 0
    Prompt = FALSE
    MaxPause = 1
    MaxSteps = 1
    MaxFaults = 1
INVARIANTS TypeOK SlotsAccounted OneWholeVoice InterruptedKept
PROPERTIES AnswersEnd EverythingEnds
