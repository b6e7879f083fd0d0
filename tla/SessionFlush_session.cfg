SPECIFICATION FairFlushSpec
CONSTANTS
    NoBody = NoBody
    Adapters = {a1}
    Workers = {w1}
    Turns = {t1, t2}
    Bodies = {b1, b2}
    SessionOf <- OneSession
    Deliveries <- Anything
    Private = {}
    Outcomes <- AllOutcomes
    Legacy = {t1}
    Mortal <- Everyone
    Window = 25
    MaxEvents = 1
    MaxFailures = 1
    MaxCrashes = 1
    Flushers = {f1}
    MayOverride = TRUE
INVARIANT FlushBarrier
INVARIANT WaiverAudited
PROPERTY LatestCommittedIsFlushed
CHECK_DEADLOCK FALSE
