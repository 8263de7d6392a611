SPECIFICATION Spec
CONSTANTS
    Main = main
    Reloads = {r1, r2}
    Calls = {c1}
    None = None
    Candidates = 3
    Kinds = {"valid", "no base", "other", "garbage", "cut"}
    Schemas <- SomeSchemas
    Graphs <- SomeGraphs
    Used = "order"
    MaxChanges = 2
SYMMETRY Alike
CHECK_DEADLOCK FALSE
INVARIANTS
    SeesReload
    
