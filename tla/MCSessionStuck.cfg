\* The comment in MapleClient.login, on two connections and one channel.
SPECIFICATION Spec
CONSTANTS
    s1 = s1
    s2 = s2
    s3 = s3
    c1 = c1
    c2 = c2
    d1 = d1
    Sessions = {s1, s2}
    Channels = {c1}
    Shop = Shop
    Nowhere = Nowhere
    None = None
    Deeds = {}
SYMMETRY MCSymmetry
INVARIANTS NotStuck
