SPECIFICATION FairServerSpec
CONSTANTS
    narrow = narrow
    wide = wide
    Sizes <- Wide
    InitialSizes <- Narrow
    Budget = 1
    Keepalive = TRUE
    MaxCommands = 2
    MaxChunks = 2
    MaxPerMessage = 2
INVARIANTS
    SessionSound
    EventsInSequence
PROPERTIES
    SessionsEnd
