SPECIFICATION PartsSpec
CONSTANTS
  MaxAccounts = 3
  Hosts = {1}
  MaxEdits = 2
  MaxTroubles = 1
  AppWindows = {w1, w2}
  MaxBoards = 2
  MaxTurns = 3
  MaxDamage = 1
INVARIANTS
  PartsSound
PROPERTIES
  SessionAsAsked
  FilesKept
SYMMETRY Symmetric
CHECK_DEADLOCK FALSE
