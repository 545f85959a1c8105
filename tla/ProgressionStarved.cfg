\* As many matches left over from the closed season as a tick takes: one.
SPECIFICATION FairSpec
CONSTANTS
    m1 = m1
    m2 = m2
    None = None
    Users = {1, 2}
    GoodStanding = {1, 2}
    Matches = {m1, m2}
    Team <- MCTeam
    Workers = {w1}
    Rollers = {q1}
    Requests = {r1}
    InitialRating = 4
    ResetBPS = 5000
    PlacementsRequired = 1
    TopMinMatches = 1
    LegendRating = 4
    TopLimit = 1
    AbandonPenalty = 1
    Elo <- MCElo
    BatchSize = 1
    MaxSeason = 2
    Results = {1}
PROPERTIES
    CurrentSeasonRated
