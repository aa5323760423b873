SPECIFICATION FairSpec
CONSTANTS
    Sources = {"local", "windows", "script"}
    MaxContents = 2
    Panes <- SomePanes
INVARIANTS
    
    CleanIsStored
    ArmedForCause
PROPERTIES
    SavesLand
CHECK_DEADLOCK FALSE
