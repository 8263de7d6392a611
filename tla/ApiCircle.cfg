SPECIFICATION Spec
CONSTANTS
    Main = main
    Reloads = {r1}
    Calls = {c1}
    None = None
    Candidates = 2
    Kinds = {"valid", "no base", "other", "garbage", "cut"}
    Schemas <- SomeSchemas
    Graphs <- SomeGraphs
    Used = "order"
    MaxChanges = 1
SYMMETRY Alike
CHECK_DEADLOCK FALSE
INVARIANTS
    KeepsServing
