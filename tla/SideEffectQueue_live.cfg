\* A batch of 3 items of at most 1 second and a 3-second lease: the last item of
\* a batch may be run again while it runs.  Item 1 never succeeds.
SPECIFICATION FairSpec
CONSTANTS
    NoKey = NoKey
    Drainers = {d1, d2}
    Keys = {k1}
    Poison = {1}
    MaxEnqueues = 3
    MaxCrashes = 1
    MaxItems = 3
    LeaseSeconds = 3
    MaxBackoff = 2
    MaxExponent = 1
    BreakerThreshold = 2
    OpenSeconds = 1
    MaxProcess = 1
INVARIANTS UniqueKeys NothingLost OneRunPerLease
PROPERTIES LiveLeaseRespected ImplementsDurableWork HealthyItemsFinish
