SPECIFICATION Spec
CONSTANTS
    Upstreams <- Google
    Reads <- GoogleReads
    Flows = {f1, f2, f3}
    Tokens = {t1, t2}
    None = None
    TTL = 2
    MaxFaults = 2
SYMMETRY Alike
INVARIANTS
    TokensAreOneTime
    ReloadedHasLatest
    StaysConnected
