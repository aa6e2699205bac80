SPECIFICATION Spec
CONSTANTS
    d1 = d1
    d2 = d2
    Documents <- MCDocuments
    Versions = {v1}
    Users = {u1, u2}
    Sessions = {s1, s2}
    Windows <- TodayOnly
    NoUser = NoUser
    NoDocument = NoDocument
    NoVersion = NoVersion
    MaxDay = 1
    MaxGenerations <- AgainOnce
CHECK_DEADLOCK FALSE
INVARIANT CitationsResolve
