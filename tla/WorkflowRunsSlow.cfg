CONSTANTS
    r1 = r1
    s1 = s1
    c1 = c1
    w1 = w1
    key = key
    None = None
    Runs = {r1}
    Streams = {s1}
    Cancels = {c1}
    Sweepers = {w1}
    Keys <- MCKeys
    KeyOf <- MCKeyOf
    RunStale = 0
    LeaseStale = 0
    HeartbeatEvery = 0
    Prompt = FALSE
    MaxPause = 1
    MaxSteps = 0
    MaxFaults = 1
    upload = upload
    sync = sync
    path1 = path1
    path2 = path2
    thing1 = thing1
    thing2 = thing2
    ed1 = ed1
    ed2 = ed2
    NoRow = NoRow
    Requests <- MCRequests
    Paths <- MCPaths
    About <- MCAbout
    Texts <- MCThings
    MaxItems = 2
    Callers <- MCCallers
    NFiles = 2
    Sizes <- MCSizes
    Limit = 3
    MaxDeaths = 1
    adm1 = adm1
    adm2 = adm2
    agentPart = agentPart
    toolPart = toolPart
    Editors <- MCCallers
    Admins <- MCAdmins
    Reviewers <- MCReviewers
    Components <- MCComponents
    Needs <- MCNeeds
    Tools <- MCTools
    Tree <- MCTree
    Drafts <- MCThings
    MaxSources = 1
    Budget = 2
    NListed = 3
    PageLimit = 1
    Listings = {"resources", "knowledge", "explore", "feed", "users"}
    MaxNow = 2
    MaxWrites = 1
SYMMETRY Symmetry
CHECK_DEADLOCK FALSE
SPECIFICATION RunsSpec
INVARIANTS UploadsTypeOK OutcomeIsLogged PackIsConsistent OneWholeImport SelectionIsClosed SourceIsOne PagesAreExact
PROPERTIES OnlyOwnLeaseReleased NeverRunsAgain NeverBack
