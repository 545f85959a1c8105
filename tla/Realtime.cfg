CONSTANTS
    v1 = v1
    v2 = v2
    s1 = s1
    s2 = s2
    i1 = i1
    i2 = i2
    m1 = m1
    m2 = m2
    t1 = t1
    t2 = t2
    u1 = u1
    u2 = u2
    x = x
    y = y
    Parts = {"channel", "chat"}
    Participants = {v1, v2}
    TeamOf <- MCTeamOf
    Sockets = {s1, s2}
    UserOf <- MCUserOf
    Instances = {i1}
    InstanceOf <- MCInstanceOf
    Commands = {"mark"}
    QueueSize = 1
    MaxEvents = 2
    PubFaults = {"retried"}
    SubFaults = FALSE
    Mates = {m1, m2}
    Texts = {t1, t2}
    AuthorOf <- MCAuthorOf
    Images = {u1, u2}
    OwnerOf <- MCTwoOwnersOf
    Unfit = {u2}
    ChatCalls = {x, y}
    MaxSends = 1
    StorageFaults = TRUE
    RetriesOverlap = FALSE
SPECIFICATION RealtimeSpec
SYMMETRY MCSymmetry
CHECK_DEADLOCK FALSE
INVARIANTS
    RealtimeTypeOK
    DeliveredExactly
    AttachmentsOpen
PROPERTIES
    ReportedAreKept
