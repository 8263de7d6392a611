SPECIFICATION FairSpec
CONSTANTS
    Calls = {c1}
    Lists = {l1}
    Reloads = {r1, r2}
    None = None
    HasTimeout = TRUE
    Identity = "alice"
    NullWord = "null"
    Empty = ""
    Written <- SomeEdits
    Bodies <- SomeBodies
    Results <- SomeResults
    Env <- SomeEnv
    Variables <- SomeVariables
    Regexes <- SomeRegexes
    Wraps <- SomeWraps
INVARIANTS
    OnlyJudgedIsSent
    IdentityIsVerified
    NothingRedactedIsAnswered
    SeesReload
    ReloadTakesEffect
PROPERTIES
    EveryRequestEnds
