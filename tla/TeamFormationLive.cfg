CONSTANTS
    u1 = u1
    u2 = u2
    u3 = u3
    w1 = w1
    w2 = w2
    Users <- TwoUsers
    Rosters <- TwoRosters
    Workers <- MCWorkers
    Blockable <- NoneBlocked
    Ranked = FALSE
    ScanLimit = 2
    MaxTickets = 2
    MaxClaims = 2
    MaxFaults = 1
    ClaimOutlivesRequest = TRUE
SPECIFICATION FairSpec
PROPERTIES
    UsesTicketStore
    MatchedFromOpenEntries
    NobodyTrapped
