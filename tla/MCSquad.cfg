CONSTANTS
    c1 = c1
    c2 = c2
    s1 = s1
    s2 = s2
    s3 = s3
    s4 = s4
    f1 = f1
    None = None
    Char = {c1, c2}
    Squads = {s1, s2, s3, s4}
    Fights = {f1}
SPECIFICATION FairSpec
INVARIANT ClockOfRegistered
PROPERTY SquadEnds
CONSTRAINT Bounds
CHECK_DEADLOCK FALSE
