SPECIFICATION PopulationSpec
CONSTANTS
    u1 = u1
    u2 = u2
    t1 = t1
    q1 = q1
    q2 = q2
    g1 = g1
    g2 = g2
    v1 = v1
    c1 = c1
    c2 = c2
    None = None
    NoGuest = NoGuest
    Loop = Loop
    Users <- MCUsers
    Teams <- MCTeams
    GReqs <- MCRequests
    Admins <- MCAdmins
    MaxInvites = 0
    MaxFailures = 0
    Guests <- MCGuests
    Visitors <- MCVisitors
    Calls <- MCCalls
    Cap = 1
    MaxStumbles = 0
CHECK_DEADLOCK FALSE
PROPERTY TeamsOutliveTheirOwner
