SPECIFICATION FairSpec
CONSTANTS
  Width = 5
  Height = 4
  Exits <- FieldExits
  Airports <- FieldAirports
  Beacons <- FieldBeacons
  NewplaneTime = 2
  MaxPlanes = 1
  MaxSpawns = 1
  Commands <- FieldCommands
INVARIANT Whereabouts
PROPERTIES FlightEnvelope DepartsAtDestination NoEternalFlight
CHECK_DEADLOCK FALSE
