SPECIFICATION WindowSpec
CONSTANTS
    MaxPanes = 3
    MaxTabs = 3
    Dirs = {home, logs}
    Names = {one, two}
    Files = {one}
    NoDir = NoDir
    MaxListings = 2
    MaxBatches = 2
    MaxRequests = 3
    Profiles = {mail, web}
    MaxFollowed = 3
    MaxEdits = 3
    NoBoard = NoBoard
    Disks <- Trees
    Origins <- Screens
    Target <- Dst
    MaxOthers = 1
INVARIANTS
    WindowsSound
    QuestionsMatchListing
    NothingGoneIsShown
PROPERTIES
    OthersStay
    BoardsKept
SYMMETRY Symmetric
CHECK_DEADLOCK FALSE
