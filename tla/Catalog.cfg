SPECIFICATION FairSpec
CONSTANTS
    Upstreams <- TwoUpstreams
    Searches = {s1, s2}
    Calls = {c1}
    Finder = s1
    Poller = Poller
    Concurrency = 2
    SearchLimit = 2
    Lowercase <- Spellings
    ToolsOffered <- OneOrTwo
    MaxChanges = 1
    None = None
    Unpolled = Unpolled
INVARIANTS
    FanOut
    ListIsFiltered
    ListedWasOffered
    IndexAgrees
PROPERTIES
    Converges
    EveryFindEnds
