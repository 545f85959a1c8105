\* Two connections of one participant, an opponent who may leave, two sweepers, one disturbance.
SPECIFICATION FairSpec
CONSTANTS
    a = a
    b = b
    a1 = a1
    a2 = a2
    None = None
    Users = {a, b}
    Sockets = {a1, a2}
    Owner <- MCOwner
    TeamOf <- MCTeamOf
    Sweepers = {w1, w2}
    MaxFaults = 1
    PromptHandlers = FALSE
INVARIANTS
    PresenceTypeOK
    CountExact
    MarkerGetsRepaired
    OneForfeit
PROPERTIES
    PresenceRecovers
    ConnectedIsMarked
