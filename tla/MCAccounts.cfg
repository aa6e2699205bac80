SPECIFICATION Spec
CONSTANTS
    Users = {u1, u2}
    Founder = u1
    Roles = {admin, officer}
    AdminRole = admin
    RoleRequests <- Requests
    officer = officer
    branch = branch
    Units = {head_office, branch}
    HomeUnit = head_office
    Sessions = {s1, s2}
    NoUser = NoUser
    MaxAssignments = 2
    MaxTokens = 2
CHECK_DEADLOCK FALSE
INVARIANTS
    TypeOK
    RolesPileUpByOverlapOnly
PROPERTY EndedLoginsStayEnded
