SPECIFICATION AccountsSpec
CONSTANTS
    id1 = id1
    id2 = id2
    h1 = h1
    h2 = h2
    c1 = c1
    c2 = c2
    wk = wk
    n1 = n1
    t1 = t1
    None = None
    Nobody = Nobody
    NoOne = NoOne
    NoCode = NoCode
    Sids <- MCRows
    Browsers <- MCHolding
    Reqs <- MCCalls
    MaxTokens = 2
    MaxPasswords = 1
    Workers <- MCWorkers
    Creds <- MCCreds
    Checks <- MCCalls
    Second = 2
    TTL = 2
    MaxTime = 4
    MaxChanges = 1
    Holders <- MCRows
    Names <- MCNames
    Mails <- MCHolding
    Clients <- MCCalls
    Long <- MCLong
    MaxLinks = 2
    Codes <- MCRows
    Editors <- MCCalls
    short = short
    long = long
    someone = someone
    Wide = Wide
    Limiters <- MCLimiters
    Window <- MCWindow
    Principals <- MCPrincipals
    Addresses <- MCHolding
    Calls = 1
    IpCalls = 1
    LocalCalls = 2
    LocalWindow = 3
    Costs <- MCOne
    Askers <- MCCalls
    Slots = 1
    LastNow = 5
    Patience = 2
    wf1 = wf1
    wf2 = wf2
    ag1 = ag1
    ag2 = ag2
    pc1 = pc1
    pc2 = pc2
    Workflows <- MCWorkflows
    Agents <- MCAgents
    Pieces <- MCPieces
    Own <- MCOwn
    MayFail = TRUE
    Owner = Owner
    BCalls <- MCCalls
    Mates <- MCPrincipals
    Seats <- MCTwo
    NSubs = 2
    MaxTurns = 3
    MaxEvents = 3
SYMMETRY Symmetry
CHECK_DEADLOCK FALSE
INVARIANTS AccountsTypeOK RevocationWins ReuseIsTold CancellationArrives
PROPERTIES CountsWithinTTL WorkOnce QuotaKept SharingIsUndone CancelIsFinal
