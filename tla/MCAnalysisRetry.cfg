SPECIFICATION FairSpec
CONSTANTS
    Worker = {w1}
    Tab = {o1, o2}
    MaxRuns = 2
    MaxAttempts = 2
    Limit = 2
    NotificationsEnabled = TRUE
    MaxNotices = 0
    MaxInterruptions = 1
INVARIANT TypeOK
PROPERTIES VerdictIsFinal EveryRunEnds
CHECK_DEADLOCK FALSE
