SPECIFICATION Spec
CONSTANTS
    Callers = {c1, c2}
    None = None
    InOrder = TRUE
    Noise = {}
    MaxNoise = 0
    Faults = {}
INVARIANTS
    OwnAnswer
