CONSTANTS
    u1 = u1
    u2 = u2
    u3 = u3
    w1 = w1
    w2 = w2
    Users <- MCUsers
    Rosters <- MCRosters
    Workers <- MCWorkers
    Blockable <- MCBlockable
    Ranked = FALSE
    ScanLimit = 3
    MaxTickets = 3
    MaxClaims = 2
    MaxFaults = 0
    ClaimOutlivesRequest = TRUE
SPECIFICATION Spec
SYMMETRY Requests
INVARIANTS
    AssignedNotSearching
