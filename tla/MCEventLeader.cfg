CONSTANTS
    p1 = p1
    p2 = p2
    p3 = p3
    p1b = p1b
    None = None
    Scripts <- Ludi
    Players <- TwoPlayers
    Char <- TwoChar
    Leaders <- OneLeader
    PartyOf <- TwoParty
    Instances <- OneInstance
SPECIFICATION Spec
PROPERTY LeaderBootsAll
CHECK_DEADLOCK FALSE
