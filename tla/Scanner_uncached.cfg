\* The client the repository builds, which parses JSON replies; no failure.
SPECIFICATION Spec
CONSTANTS
    Requests = {r1, r2}
    Urls = {u1}
    Callers <- MCOneCaller
    TTL = 1
    Horizon = 1
    CacheSafeResults = FALSE
    FeedsEnabled = TRUE
    Replies = {"parsed"}
    Faults = {}
PROPERTY CachedResultIsUsed
