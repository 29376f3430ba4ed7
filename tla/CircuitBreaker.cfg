\* Three overlapping calls, a circuit that opens at the second failure.
SPECIFICATION FairSpec
CONSTANTS
    Calls = {c1, c2, c3}
    Threshold = 2
    Reset = 2
INVARIANT CountMatchesState
PROPERTIES WaitIsRespected RecoveredServiceIsUsed
