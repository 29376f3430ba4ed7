\* CacheManager's load and one round of the poller, over every feed: an entry
\* that lasts and one that comes and goes, everything that can fail failing.
SPECIFICATION FairSpec
CONSTANTS
    Loaders = {cm, p1}
    CacheManager = cm
    Entries = {e, n}
    Lasting = {e}
    Trusted = {n}
INVARIANTS TypeOK FreshIsConsistent
PROPERTIES NeverEmptied PublishesWhatItRead LastingStaysFlagged RefreshedAgain
\* A load of a stream that hangs is the end of the cycle.
CHECK_DEADLOCK FALSE
