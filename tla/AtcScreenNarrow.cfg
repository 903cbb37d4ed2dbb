SPECIFICATION FairScreenSpec
CONSTANTS
  Width = 5
  Height = 3
  Exits <- StripExits
  Airports <- None
  Beacons <- None
  NewplaneTime = 2
  MaxPlanes = 1
  MaxSpawns = 1
  Commands <- NoCommands
  Keys <- SelectKeys
  Taps <- TapsAll
  Layout = "narrow"
  Menu = TRUE
  MaxGames = 2
  MaxQueued = 2
INVARIANTS AnnouncedOnce
PROPERTIES LossIsShown StaleSelectionDropped
CHECK_DEADLOCK FALSE
