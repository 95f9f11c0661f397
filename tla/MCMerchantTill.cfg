SPECIFICATION Spec
CONSTANTS
    owner = owner
    guest = guest
    x = x
    r1 = r1
    r2 = r2
    m1 = m1
    m2 = m2
    Players = {owner, guest}
    Owner = owner
    Lots = {x}
    Restricted = {}
    Bundles <- MCBundles
    Price <- MCPrice
    Shops = {m1, m2}
    None = None
    Slots = 1
    Seats = 1
    IntMax = 2
    Tax <- MCTax
SYMMETRY MCSymmetry
CONSTRAINT NothingDropped
INVARIANTS TypeOK
PROPERTIES MesosMadeOnly

