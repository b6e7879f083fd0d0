SPECIFICATION Spec
CONSTANTS
    NoBody = NoBody
    Adapters = {a1, a2}
    Workers = {w1}
    Turns = {t1}
    Bodies = {b1, b2}
    SessionOf <- OneSession
    Deliveries <- Anything
    Private = {}
    Outcomes <- AllOutcomes
    Legacy = {}
    Mortal <- Everyone
    Window = 25
    MaxEvents = 2
    MaxFailures = 1
    MaxCrashes = 1
SYMMETRY AdapterSymmetry
INVARIANT CommittedHasBead
INVARIANT BeadHasEvent
INVARIANT OneBeadPerTurn
CHECK_DEADLOCK FALSE
