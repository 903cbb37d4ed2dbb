CONSTANTS
  Width = 6
  Height = 4
  Exits <- MCExits
  Airports <- MCAirports
  Beacons <- MCBeacons
  Letters = 2
  Births = 3
  Alarms = 1
  Commands = 3
  Names = {"a","b"}
  Keys = {"a","0","9","c","RET"}
  Arrivals <- MCArrivals
SPECIFICATION Spec
INVARIANTS TypeOK ListsLinked Separation Conservation SearchFinds
CHECK_DEADLOCK FALSE
