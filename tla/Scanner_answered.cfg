\* Liveness: two requests, a longer clock, every failure.  No symmetry.
SPECIFICATION FairSpec
CONSTANTS
    Requests = {r1, r2}
    Urls = {u1}
    Callers <- MCOneCaller
    TTL = 1
    Horizon = 2
    CacheSafeResults = FALSE
    FeedsEnabled = TRUE
    Replies = {"text", "parsed"}
    Faults = {"redis", "crash"}
PROPERTY EveryRequestAnswered
