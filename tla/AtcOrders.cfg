CONSTANTS
  Width = 6
  Height = 4
  Exits <- MCFacing
  Airports <- MCAirports
  Beacons <- MCBeacons
  Letters = 1
  Births = 2
  Alarms = 1
  Commands = 2
  Names = {"a"}
  Keys = {"a","0","9","t","c","d","m","u","i","l","r","b","e","R","L","RET"}
  Arrivals <- MCCrossing
SPECIFICATION Spec
INVARIANT Whereabouts
PROPERTIES OrdersAsMeant FlightsEnd
CHECK_DEADLOCK FALSE
