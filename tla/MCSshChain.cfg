SPECIFICATION RouteSpec
CONSTANTS
    Legs = 3
    Methods <- AllMethods
    Sessions = {one, two}
    Tabs = {one, two}
    Rules = 2
    Dynamic = {2}
    Label <- RuleLabel
    MaxWorkers = 2
    MaxErrors = 2
    MaxConnections = 1
    Hosts <- MCHosts
    Folded <- MCFolded
    Keys <- MCKeys
    Threads = {"t1", "t2"}
    Processes = {"p1"}
    ProcessOf <- OneProcess
    InitialFiles <- MCFiles
    ReadMayFail = TRUE
    WriteMayFail = TRUE
    MaxCalls = 3
    Folders = {home, logs}
    Rows = {1, 2}
    NoPlace = NoPlace
    MaxAsks = 2
INVARIANTS
    
    TrustFirst
    RejectionNamesItsLeg
    CarriersHeld
    MarksFollowListeners
    RecordsKept
    NoResurrection
