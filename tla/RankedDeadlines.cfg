CONSTANTS
    p1 = p1
    p2 = p2
    p3 = p3
    p4 = p4
    q1 = q1
    q2 = q2
    sweeper = sweeper
    Players <- OnePlayers
    TeamOne <- One
    TeamTwo <- Other
    Requests <- TwoRequests
    Sweeper = sweeper
    Modes = {"ranked"}
    Rounds = 2
    MaxScore = 1
    Flaky <- Nobody
    Scores <- OneScores
    Readers <- Nobody
    Viewers <- Nobody
SPECIFICATION UnpolledSpec
CHECK_DEADLOCK FALSE
PROPERTIES
    RankedMatchEnds
