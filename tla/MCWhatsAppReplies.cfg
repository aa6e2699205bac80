SPECIFICATION Spec
CONSTANTS
    officer = officer
    head1 = head1
    head2 = head2
    text1 = text1
    text2 = text2
    empty = empty
    Users <- MCUsers
    Approvers <- MCApprovers
    Bodies <- MCBodies
    ShortBodies <- MCShort
    EmptyBody = empty
    Replies = {r1}
    Sessions = {s1, s2}
    Refs = {m1, m2, m3}
    NoUser = NoUser
    NoRef = NoRef
    NoReply = NoReply
    MaxTrail = 5
SYMMETRY OfficeSymmetry
CHECK_DEADLOCK FALSE
INVARIANTS
    TypeOK
    MakerChecker
    PublishedIsDelivered
    OneDeliveryWithoutFault
    AnswersAgree
    TrailExplainsRow
PROPERTIES
    ImplementsRelease
