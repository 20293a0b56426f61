CONSTANTS
    Pools <- MCPools
    Configurations <- MCKinds
    Ring = 2
    Outstanding = 2
    Early = 1
    QueueSize = 2
    MaxJobs = 4
    MaxTips = 3
    Flips = FALSE
SPECIFICATION FairSpec
INVARIANTS CastAsMade HandedOverOnce QueueIsOfTip
 
