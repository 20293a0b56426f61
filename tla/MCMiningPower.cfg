SPECIFICATION FairSpec
CONSTANTS
    Configurations <- SafeSettings
    MaxRetries = 2
    QueueLength = 8
    MaxSuccesses = 1
    TaskIds = {t1, t2}
    NoTask = NoTask
    StopsInTime = TRUE
INVARIANT OneTask
INVARIANT NeverAbandoned
PROPERTY SupervisionSpec
PROPERTY Recovers
PROPERTY ReturnsToPrimary
CHECK_DEADLOCK FALSE
