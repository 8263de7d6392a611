SPECIFICATION FairSpec
CONSTANTS
    Callers = {c1, c2, c3}
    None = None
    InOrder = FALSE
    Noise = {"note", "ask"}
    MaxNoise = 1
    Faults = {"cancel", "torn", "exit"}
INVARIANTS
    NobodyStarves
PROPERTIES
    ImplementsRpc
    EveryCallReturns
