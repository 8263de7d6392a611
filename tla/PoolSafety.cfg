SPECIFICATION Spec
CONSTANTS
    Requests = {r1, r2, r3}
    Identities <- SomeIdentities
    Blank = ""
    None = None
    Boot = Boot
    Modes = {"shared", "principal", "session"}
    MaxTenantClients = 1
    IdleTtl = 1
    MaxTime = 1
    Ops = {"call", "reload", "health"}
    Faults = {"spawn_failure", "disconnect", "exit"}
SYMMETRY Symmetry
INVARIANTS
    PoolBounded
    Isolation
    PooledNotShut
    SoleDisposer
    ReloadLeavesNothingOld
PROPERTIES
    ImplementsContract
