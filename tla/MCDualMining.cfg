CONSTANTS
    Bounds <- Mixed
    QueueSize = 2
    En2Width  = 2
SPECIFICATION FairSpec
INVARIANTS TypeOK OneOwner Alive NewestTakesOver
PROPERTIES NoJobTwice NeverIdle Donates
