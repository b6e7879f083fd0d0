SPECIFICATION FairSpec
CONSTANTS
    NoBody = NoBody
    Adapters = {a1, a2}
    Workers = {w1, w2}
    Turns = {t1}
    Bodies = {b1}
    SessionOf <- OneSession
    Deliveries <- Anything
    Private = {}
    Outcomes <- Authored
    Legacy = {}
    Mortal <- Workers
    Window = 25
    MaxEvents = 2
    MaxFailures = 0
    MaxCrashes = 2
PROPERTY RetriedTurnsCommit
CHECK_DEADLOCK FALSE
