\* A player whose first request of the new season is a queue join.
SPECIFICATION Spec
CONSTANTS
    m1 = m1
    m2 = m2
    None = None
    Users = {1, 2}
    GoodStanding = {1, 2}
    Matches = {m1, m2}
    Team <- MCTeam
    Workers = {w1, w2}
    Rollers = {q1, q2}
    Requests = {r1}
    InitialRating = 4
    ResetBPS = 5000
    PlacementsRequired = 1
    TopMinMatches = 1
    LegendRating = 4
    TopLimit = 1
    AbandonPenalty = 1
    Elo <- MCElo
    BatchSize = 2
    MaxSeason = 2
    Results = {0, 1, 2}
INVARIANTS
    SoftResetApplied
