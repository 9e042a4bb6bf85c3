CONSTANTS
    Calls = {c1, c2}
    MaxAge = 1
    MaxRetries = 1
    MaxChanges = 2
SPECIFICATION FairSpec
INVARIANTS
    AloneTurnsOnce
    AnswersKeepUp
PROPERTIES
    ListHeals
