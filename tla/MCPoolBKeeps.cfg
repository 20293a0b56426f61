SPECIFICATION FairSpec
CONSTANTS
    Configurations <- DualSetting
    MaxRetries = 1
    QueueLength = 8
    MaxSuccesses = 1
    TaskIds = {t1, t2}
    NoTask = NoTask
    StopsInTime = TRUE
PROPERTIES PoolBKeepsMining
CHECK_DEADLOCK FALSE
