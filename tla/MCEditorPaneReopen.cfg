SPECIFICATION Spec
CONSTANTS
    Sources = {"local", "windows", "script"}
    MaxContents = 2
    Panes <- SomePanes
INVARIANT NothingTypedLost
CHECK_DEADLOCK FALSE
