\* Four checkers; a tick is 100 ms.  A run of the checkers ends.
SPECIFICATION FairSpec
CONSTANTS
    Registered = {"heuristics", "openphish", "virustotal", "ml"}
    Questions <- MCQuestions
    Points <- MCPoints
    MlScores <- MCMlScores
    MlCap = 60
    Deadline = 25
    WhoisMax = 3
    RdapMax = 20
    Prompt = 1
CHECK_DEADLOCK FALSE
INVARIANTS TypeOK PhishingIsCorroborated OnTimeIfPrompt MlCountsOnlyWithoutVeto
PROPERTY EveryRunEnds
