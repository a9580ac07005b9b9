SPECIFICATION FairSpec
CONSTANTS
    Tasks = {t1, t2}
    Loops = {l1}
    MaxConcurrent = 2
    MaxStarts = 1
    MaxLosses = 1
    MaxInFlight = 1
    MaxRepeats = 2
INVARIANTS
    NeverOverLimit
    StatusEarned
PROPERTIES
    EveryTaskTaken
CHECK_DEADLOCK FALSE
