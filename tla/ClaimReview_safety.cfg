SPECIFICATION Spec
CONSTANTS
    t1 = t1
    t2 = t2
    t3 = t3
    None = None
    Turns = {t1, t2}
    Place <- RandomIds
    Workers = {w1, w2}
    Answers <- AllAnswers
    MaxRows = 1
    MaxForks = 1
    MaxReviews = 2
    MaxKills = 1
SYMMETRY WorkerSymmetry
INVARIANT LastRulingDecides
INVARIANT AppliedIsBacked
INVARIANT RetriesWriteOnce
 
CHECK_DEADLOCK FALSE
