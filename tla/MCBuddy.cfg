\* Two characters who come and go, with lists of one or two entries
SPECIFICATION Spec
CONSTANTS
    Chars = {c1, c2}
    Capacities = {1, 2}
SYMMETRY Symmetry
INVARIANTS TypeOK BuddyByChoice SeenWhenHere
PROPERTIES RequestStands
CONSTRAINT OneBefriendsHimself
