SPECIFICATION Spec
CONSTANTS
    text1 = text1
    text2 = text2
    audio = audio
    waste = waste
    roads = roads
    Messages <- MCMessages
    Texts <- MCTexts
    Words <- SameWords
    SentAt <- SameSecond
    Clamped = {text2}
    Handlers = {h1, h2}
    Workers = {w1, w2}
    ReplyMode = "acknowledge"
    MayRaise = TRUE
    NoMessage = NoMessage
    NoRow = NoRow
    MaxFaults = 2
    MaxClock = 1
CHECK_DEADLOCK FALSE
SYMMETRY TeamSymmetry
INVARIANTS
    TypeOK
    AnsweredIsInHand
    OneCaseOneDraft
    AcksAreExplained
