\* Four hosts: three with a crawler, one that reviews associations.
SPECIFICATION ReviewSpec
SYMMETRY ReviewerSymmetry
CONSTANTS
    b1 = b1
    b2 = b2
    b3 = b3
    NoBead = NoBead
    Beads = {b1, b2}
    Session = {b1, b2}
    Edges <- OneEdge
    Hosts = {{"crawler", "mark", "sessions"}, {"crawler", "link"}, {"crawler", "events", "sessions"}, {"review"}}
    Reviewers = {p1, p2}
    Jobs <- OneJob
    MaxIds = 2
    MaxRows = 1
    MaxCrashes = 1
    MaxStarts = 3
INVARIANTS  OneRecordPerEdge RetractionSticks LinkedIsBacked OperatorStands
PROPERTY QueuedUpdatesArrive
CHECK_DEADLOCK FALSE
