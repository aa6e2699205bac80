SPECIFICATION FairSpec
CONSTANTS
    Users = {head, officer}
    Managers = {head, officer}
    CrisisLeads = {head}
    Approvers = {head}
    Readers = {officer}
    Cases = {c1}
    Replies = {r1}
    Evaluators = {worker, request}
    Worker = worker
    SlaTicks = {1}
    NoUser = NoUser
    MaxRequests = 3
    MaxFaults = 1
    MaxClock = 2
CHECK_DEADLOCK FALSE
INVARIANTS
    TypeOK
    OncePerEvent
PROPERTIES
    NoWarningAfterBreach
    ConcernsAreAnnounced
