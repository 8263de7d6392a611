SPECIFICATION ListingSpec
CONSTANTS
    Requests = {r1, r2, r3}
    Identities <- SomeIdentities
    Blank = ""
    None = None
    Boot = Boot
    Modes = {"principal"}
    MaxTenantClients = 0
    IdleTtl = 1
    MaxTime = 1
    Ops = {"call", "reload", "health"}
    Faults = {}
INVARIANTS
    NothingLost
PROPERTIES
    CallsResolve
    RemovedAreShut
