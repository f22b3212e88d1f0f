SPECIFICATION FairSpec
CONSTANTS
    Worker = {w1}
    Tab = {o1}
    MaxRuns = 2
    MaxAttempts = 1
    Limit = 2
    NotificationsEnabled = FALSE
    MaxNotices = 0
    MaxInterruptions = 0
PROPERTY OutboxIsPublished
CHECK_DEADLOCK FALSE
