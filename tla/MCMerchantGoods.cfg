SPECIFICATION Spec
CONSTANTS
    owner = owner
    guest = guest
    x = x
    r1 = r1
    r2 = r2
    m1 = m1
    m2 = m2
    Players = {owner, guest}
    Owner = owner
    Lots = {r1, r2}
    Restricted = {r1, r2}
    Bundles <- MCBundles
    Price <- MCPrice
    Shops = {m1, m2}
    None = None
    Slots = 2
    Seats = 1
    IntMax = 1
    Tax <- MCTax
SYMMETRY MCSymmetry
INVARIANTS SeatsMatch ClosedToVisitors ServedFromTheMap
PROPERTIES ItemsMadeOnly ItemsLostOnly

