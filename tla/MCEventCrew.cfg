CONSTANTS
    p1 = p1
    p2 = p2
    p3 = p3
    p1b = p1b
    None = None
    Scripts <- AllScripts
    Players <- Relogged
    Char <- RelogChar
    Leaders <- OneLeader
    PartyOf <- RelogParty
    Instances <- OneInstance
SPECIFICATION FairSpec
INVARIANTS TypeOK MemberOfOwnInstance ClosedMeansLive MembersInside 
PROPERTIES EveryInstanceEnds EventReopens
CHECK_DEADLOCK FALSE
