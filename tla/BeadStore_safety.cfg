SPECIFICATION Spec
CONSTANTS
    b1 = b1
    Beads = {b1}
    SpeculativeAtBirth = {b1}
    Rebuilds = {"events", "sessions"}
    MaxRevs = 1
    MaxCrashes = 1
INVARIANTS DetailKept SpeculativeCeiling ArchiveFirst
VIEW NoHistory
CONSTRAINT RebuiltOrCompacted
