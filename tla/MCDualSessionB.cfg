CONSTANTS
    Bounds <- Reconnects
    QueueSize = 2
    En2Width  = 2
SPECIFICATION Spec
INVARIANT SharesReachTheirPool
