SPECIFICATION FairSpec
CONSTANTS
    c1 = c1
    c2 = c2
    Clients = {c1, c2}
    MaxChannels = 2
    MaxInput = 1
    Buffer = 1
    Backlog = 1
    Limit = 1
INVARIANTS
    ServicesSound
    AnswerIsWhole
PROPERTIES
    Answered
CHECK_DEADLOCK FALSE
