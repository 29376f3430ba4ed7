\* Four requests over two URLs, two of them at a time, and the worker loop.
SPECIFICATION QueueSpec
CONSTANTS
    Urls = {u, v}
    Users = {r1, r2}
    Analyst = worker
    MaxAsked = 4
INVARIANTS QueueTypeOK QueueWithinAsked
CHECK_DEADLOCK FALSE
