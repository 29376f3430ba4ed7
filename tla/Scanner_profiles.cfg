\* Two concurrent requests over both cache profiles, with an entry that
\* expires, Redis commands that fail and workers that crash.
SPECIFICATION Spec
CONSTANTS
    Requests = {r1, r2}
    Urls = {u1}
    Callers <- MCTwoProfiles
    TTL = 1
    Horizon = 1
    CacheSafeResults = FALSE
    FeedsEnabled = TRUE
    Replies = {"text", "parsed"}
    Faults = {"redis", "crash"}
SYMMETRY RequestSymmetry
INVARIANTS TypeOK CacheSound
PROPERTY ImplementsService
