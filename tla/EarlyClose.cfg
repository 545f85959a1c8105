CONSTANTS
    p1 = p1
    p2 = p2
    p3 = p3
    p4 = p4
    q1 = q1
    q2 = q2
    sweeper = sweeper
    Players <- TwoPlayers
    TeamOne <- FirstTwo
    TeamTwo <- LastTwo
    Requests <- OneRequest
    Sweeper = sweeper
    Modes = {"casual", "ranked"}
    Rounds = 1
    MaxScore = 1
    Flaky <- FirstTwo
    Scores <- TwoScores
    Readers <- Nobody
    Viewers <- Nobody
SPECIFICATION ViewSpec
CHECK_DEADLOCK FALSE
INVARIANTS
    EarlyCloseLeavesNobodyOut
