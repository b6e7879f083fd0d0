SPECIFICATION Spec
CONSTANTS
    NoBody = NoBody
    Adapters = {a1}
    Workers = {w1}
    Turns = {t1}
    Bodies = {b1}
    SessionOf <- OneSession
    Deliveries <- Anything
    Private = {}
    Outcomes <- Authored
    Legacy = {}
    Mortal <- Everyone
    Window = 25
    MaxEvents = 2
    MaxFailures = 1
    MaxCrashes = 0
INVARIANT WorkedOffHasBead
CHECK_DEADLOCK FALSE
