SPECIFICATION Spec
CONSTANTS
    Keys = {k1}
    Drafts <- SomeDrafts
    Bridges = {b1}
    Repairers = {r1, r2}
    MaxRows = 4
    MaxKills = 1
INVARIANTS SettledOnce AgentSparesProtected RepairRemovesNoise
INVARIANTS PageIsCurrent ProposedOnce
CHECK_DEADLOCK FALSE
