SPECIFICATION BillingSpec
CONSTANTS
    request = request
    mate = mate
    Owner = Owner
    BCalls <- MCRequests
    Mates <- MCMates
    Seats <- MCSeats
    NSubs = 2
    MaxTurns = 2
    MaxEvents = 3
CHECK_DEADLOCK FALSE
INVARIANT SignUpCanBeRetried
