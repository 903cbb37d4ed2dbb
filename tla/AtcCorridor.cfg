SPECIFICATION Spec
CONSTANTS
  Width = 7
  Height = 5
  Exits <- CorridorExits
  Airports <- None
  Beacons <- None
  NewplaneTime = 2
  MaxPlanes = 2
  MaxSpawns = 3
  Commands <- CorridorCommands
INVARIANTS IndInv Separation Conservation
CHECK_DEADLOCK FALSE
