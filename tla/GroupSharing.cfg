SPECIFICATION GroupSharingSpec
CONSTANTS
    a1 = a1
    p = p
    Workflows <- MCWorkflows
    Agents <- MCAgents
    Pieces <- MCPieces
    Own <- MCOwn
    MayFail = FALSE
INVARIANTS NothingLeft
