CONSTANTS
    p1 = p1
    p2 = p2
    p3 = p3
    p1b = p1b
    None = None
    Scripts <- PairQuests
    Players <- ThreePlayers
    Char <- ThreeChar
    Leaders <- PairLeaders
    PartyOf <- PairParty
    Instances <- TwoInstances
SPECIFICATION Spec
INVARIANTS MemberOfOwnInstance ClosedMeansLive
CHECK_DEADLOCK FALSE
