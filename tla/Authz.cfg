SPECIFICATION Spec
CONSTANTS
    Checks = {k1, k2}
    Claims <- TwoRoles
    Tools = {a}
    None = None
    Ttl = 1
    MaxEntries = 1
    Delay = 1
    MaxClock = 4
    Garbage = TRUE
SYMMETRY Symmetry
INVARIANTS
    Bounded
    DecisionsRecent
PROPERTIES
    LiveStay
