\* Two players trade two items of a restricted kind, a third item and mesos.
SPECIFICATION Spec
CONSTANTS
    p1 = p1
    p2 = p2
    a = a
    r1 = r1
    r2 = r2
    m1 = m1
    m2 = m2
    Players = {p1, p2}
    Items = {a, r1, r2}
    Restricted = {r1, r2}
    Maps = {m1, m2}
    Nobody = Nobody
    Slots = 2
    WindowSlots = 2
    MaxMeso = 2
    Tax <- MCTax
SYMMETRY MCSymmetry
INVARIANTS TypeOK Paired LockedOfferStands
PROPERTIES NoItemDuplicated LostOnlyIfRefused ImplementsBarter MesoAccounted
