SPECIFICATION Spec
CONSTANTS
    Conns = {c1, c2}
    Identities = {i1, i2}
    Pids = {p1, p2}
    None = None
    Readonly = TRUE
    MaxStarts = 4
SYMMETRY Alike
CHECK_DEADLOCK FALSE
INVARIANTS
    RunsAsOwner
    NoneLeftBehind
