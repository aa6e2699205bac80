SPECIFICATION Spec
CONSTANTS
    case1 = case1
    reply2 = reply2
    municipality = municipality
    utility = utility
    Txns = {t1, t2, t3}
    Objects <- MCObjects
    TenantOf <- MCTenantOf
    NoObject = NoObject
    MaxRows = 3
    MaxClock = 1
SYMMETRY TxnSymmetry
CHECK_DEADLOCK FALSE
INVARIANTS
    TypeOK
    NoDanglingLink
    LinksLeadBack
    ForkNeedsOverlap
    ObjectHistoryInOrder
