SPECIFICATION FairSpec
CONSTANTS
    Processes = {p1}
    Poison = {1, 2}
    MaxItems = 2
    Threshold = 2
    KilledAt <- OutsideWrites
    MaxEnqueues = 4
    MaxCrashes = 2
PROPERTIES HealthyFlushesRun ImplementsDurableWork
