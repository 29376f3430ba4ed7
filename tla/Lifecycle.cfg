\* Three workers, and everything that can die or be signalled, at any time.
SPECIFICATION FairSpec
CONSTANT Workers = {w1, w2, w3}
INVARIANT TypeOK
PROPERTIES NothingCutEarly ShutdownEnds CapacityComesBack RefreshesForever
CHECK_DEADLOCK FALSE
