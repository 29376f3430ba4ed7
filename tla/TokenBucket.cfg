\* The default limit of 4; a tick is 60000 / 14 ms, so that refills round.
SPECIFICATION Spec
CONSTANTS
    Limit = 4
    Window = 14
INVARIANTS AtMostTwiceLimit SkippedOnlyWhenBusy
