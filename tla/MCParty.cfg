\* Three characters, two parties of two at a time, one expedition
SPECIFICATION Spec
CONSTANTS
    Players = {p1, p2, p3}
    Travellers = {p1, p2}
    Parties = {q1, q2}
    Expeds = {e1}
    None = None
    MaxMembers = 2
    ExpedMembers = 4
    ExpedParties = 2
SYMMETRY Symmetry
INVARIANTS TypeOK LeaderSits LinksAgree
PROPERTIES ShownWhenHere StaysSettled KnowsWhenHere KeepsItsLeader
