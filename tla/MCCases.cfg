SPECIFICATION Spec
CONSTANTS
    Cases = {c1}
    Users = {u1}
    Sessions = {s1, s2}
    NoUser = NoUser
    NoCase = NoCase
    MaxHistory = 5
    MaxClock = 2
SYMMETRY CaseSymmetry
CHECK_DEADLOCK FALSE
INVARIANTS
    TypeOK
    WorkHasAssignee
    ResolvedHasTime
    HistoryReplays
    InversionNeedsWait
PROPERTIES
    LifecycleFollowsGraph
    EscalationSticks
