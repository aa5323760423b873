SPECIFICATION FairShell
CONSTANTS
    Sizes = {"narrow", "wide"}
    Budget = 1
    MaxCommands = 2
    MaxOutput = 2
INVARIANTS
    ShellsSound
PROPERTIES
    ShellsKeepPromise
