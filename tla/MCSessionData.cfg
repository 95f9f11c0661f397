\* Two connections, two channels and one deed, one redirection under way at a
\* time.
SPECIFICATION Spec
CONSTANTS
    s1 = s1
    s2 = s2
    s3 = s3
    c1 = c1
    c2 = c2
    d1 = d1
    Sessions = {s1, s2}
    Channels = {c1, c2}
    Shop = Shop
    Nowhere = Nowhere
    None = None
    Deeds = {d1}
SYMMETRY MCSymmetry
CONSTRAINTS OneClientUnderWay SweptAwayFromShop
INVARIANTS TypeOK NoFork
PROPERTIES SavedKept
