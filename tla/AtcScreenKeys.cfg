SPECIFICATION ScreenSpec
CONSTANTS
  Width = 4
  Height = 3
  Exits <- TinyExits
  Airports <- None
  Beacons <- TinyBeacons
  NewplaneTime = 2
  MaxPlanes = 1
  MaxSpawns = 1
  Commands <- NoCommands
  Keys <- CommandKeys
  Taps <- NoCommands
  Layout = "wide"
  Menu = FALSE
  MaxGames = 2
  MaxQueued = 2
INVARIANTS PendingWhileDelaying
PROPERTIES TimerFollowsGame
CHECK_DEADLOCK FALSE
