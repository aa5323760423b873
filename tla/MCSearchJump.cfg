SPECIFICATION Spec
CONSTANTS
    Cols = 2
    ScreenRows = 2
    HistoryMax = 1
    Characters = {"x", "-", " "}
    Writings <- MCWritings
    Queries <- MCQueries
    Takes = {"word"}
    FirstRows <- MCRows
    MaxOutput = 1
    MaxDrags = 1
PROPERTIES
    NeverJumps
CHECK_DEADLOCK FALSE
