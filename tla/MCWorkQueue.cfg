CONSTANTS
    feeder = feeder
    jobs = jobs
    coordinator = coordinator
    NULL = NULL
    Items = {i1, i2}
    Producers <- MCProducers
    Consumers <- MCConsumers
    Clearers  <- MCClearers
    QueueSize = 3
SPECIFICATION FairSpec
PROPERTIES QueueSpec EnqueueReturns
