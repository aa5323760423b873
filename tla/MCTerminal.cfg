SPECIFICATION PaneSpec
CONSTANTS
    Streams <- MCStreams
    ScreenLines = 1
    Characters = {"x", "-", " "}
    Writings <- MCWritings
    Queries <- MCQueries
    Takes = {"character", "word"}
    FirstRows <- MCRows
    MaxChunk = 3
    Capacity = 2
    MaxPending = 6
    MaxOscLen = 3
    MaxTurns = 2
    Cols = 2
    ScreenRows = 2
    HistoryMax = 1
    MaxOutput = 1
    MaxDrags = 1
    Buttons = {"left", "right"}
    Positions = {"near", "far", "outside"}
    MaxModes = 2
    MaxHides = 1
    Texts = {"line", "lines", "other lines"}
    MaxReads = 2
    Keys = {"k1", "k2"}
    MaxRefusals = 2
INVARIANTS
    StreamReads
    ViewSound
    
    
PROPERTIES
    StepsOn
    PasteAsked
CHECK_DEADLOCK FALSE
