SPECIFICATION Spec
CONSTANTS
    plain = plain
    routed = routed
    Answers <- MCAnswers
    Orchestrated <- MCRouted
    Balanced <- MCRouted
    Candidates = 1
    MaxWorkers = 1
    MaxTokens = 1
    Renewing = {}
INVARIANTS NoSlotLost
