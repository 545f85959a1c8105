CONSTANTS
    u1 = u1
    u2 = u2
    u3 = u3
    u4 = u4
    u5 = u5
    u6 = u6
    Users <- MCUsers
    Rosters <- MCRosters
    Ranked = TRUE
    ScanLimit = 3
    MaxTickets = 4
    MaxClaims = 3
SPECIFICATION StoreSpec
INVARIANTS
    TypeOK
    PointersNeverDangle
    ClaimRecoverable
PROPERTIES
    TicketsStand
