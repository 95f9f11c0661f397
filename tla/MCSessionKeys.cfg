\* Three connections of one account, one channel; what is played, and the timer that
\* saves it, are left out.
SPECIFICATION Spec
CONSTANTS
    s1 = s1
    s2 = s2
    s3 = s3
    c1 = c1
    c2 = c2
    d1 = d1
    Sessions = {s1, s2, s3}
    Channels = {c1}
    Shop = Shop
    Nowhere = Nowhere
    None = None
    Deeds = {}
SYMMETRY MCSymmetry
CONSTRAINT NothingSwept
INVARIANTS OneHeir
