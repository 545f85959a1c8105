CONSTANTS
    a = a
    b = b
    x = x
    y = y
    Parts = {"rooms", "parties", "friends", "pairs", "search", "keys", "solo", "challenges", "boards", "seasons"}
    Players = {host, a, b}
    Host = host
    Calls = {x, y}
    Capacities = {2, 3}
    Rounds = 2
    MaxScore = 1
    MaxRoomFaults = 1
    Users = {a, b, c}
    MaxSocial = 4
    PartySocial = 1
    Restless <- MCRestless
    PartyIds = {x, y}
    PartyCapacity = 2
    CasualEnabled = TRUE
    Invites = {invite1}
    PartyCalls = {request}
    Seekers = {a, b}
    PairCalls = {x, y}
    Entries <- MCEntries
    PairClaims <- MCClaims
    PairFaults = 1
    ClaimOutlives = TRUE
    Ratings = {299, 800, 901}
    TeamSize = 2
    MaxDelta = 250
    MaxWait = 3
    Keys = {key}
    Bodies = {a, b}
    KeyCalls = {x, y}
    MaxRuns = 2
    LockOutlives = TRUE
    SoloModes = {"solo", "daily", "practice"}
    SoloRounds = 3
    Tabs = {x, y}
    GuessKeys = {a, b}
    LastDay = 2
    GamesPerDay = 1
    Hooks = {x, y}
    Milestone = 2
    MaxChains = 3
    BoardGames = {g1, g2}
    PracticeGames = {}
    BestScore = 2
    Projections = {x, y}
    Readers = {reader}
    MaxBumps = 2
    MaxCommits = 2
    PageReaders = {opener}
    MaxRatings = 2
    CacheFaults = FALSE
SPECIFICATION ServicesSpec
SYMMETRY MCSymmetry
CHECK_DEADLOCK FALSE
INVARIANTS
    ServicesTypeOK
    RoomFollowsGame
    OnePartyEach
    SearchersAreServed
    PartyKeysRunOnce
    SoloRowsAgree
    CreditsStand
    BoardsKeepUp
PROPERTIES
    MembershipKept
    QueuedByConsent
