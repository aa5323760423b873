SPECIFICATION SessionSpec
CONSTANTS
    Kinds = {"shell", "tail", "local"}
    Routes = {"direct", "hops", "secrets"}
    Sizes = {"narrow", "wide"}
    Rules = {"rule"}
    MaxStarts = 2
    MaxTyped = 1
    MaxQueued = 3
    Windows = {left, right}
    Shells = {mail, build}
    Timeout = 1
    Fresh = 3
    MaxGestures = 2
    MaxChanges = 1
    Nobody = Nobody
INVARIANTS
    StatusHonest
    MismatchExplainsFailure
    GuardSound
PROPERTIES
    EndedStaysEnded
SYMMETRY Symmetric
CHECK_DEADLOCK FALSE
