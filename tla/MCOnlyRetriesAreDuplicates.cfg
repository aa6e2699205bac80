SPECIFICATION Spec
CONSTANTS
    text1 = text1
    text2 = text2
    audio = audio
    waste = waste
    roads = roads
    Messages <- MCMessages
    Texts <- MCTexts
    Words <- SameWords
    SentAt <- SameSecond
    Clamped = {}
    Handlers = {h1, h2}
    Workers = {w1}
    ReplyMode = "draft"
    MayRaise = FALSE
    NoMessage = NoMessage
    NoRow = NoRow
    MaxFaults = 0
    MaxClock = 0
CHECK_DEADLOCK FALSE
INVARIANT OnlyRetriesAreDuplicates
