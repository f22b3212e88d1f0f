SPECIFICATION Spec
CONSTANTS
    Worker = {w1, w2}
    Tab = {o1}
    MaxRuns = 1
    MaxAttempts = 2
    Limit = 2
    NotificationsEnabled = TRUE
    MaxNotices = 1
    MaxInterruptions = 1
INVARIANTS NothingMislaid RequestFollowsRun
CHECK_DEADLOCK FALSE
