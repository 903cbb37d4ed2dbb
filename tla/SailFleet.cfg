CONSTANTS
  Players = {p1, p2}
  Ships = {s1, s2}
  AliveEvery = 2
  CheckEvery = 4
  TurnCycle = 4
  MaxFiles = 1
  MaxLost = 1
  MaxDrivers = 1
  Pace = 1
  WindEvery = 4
  Mortal = {p2}
  MortalDriver = {p1}
SPECIFICATION Spec
INVARIANTS PeopleCounted
PROPERTIES NotAbandoned DriverGoes EndSpreads
CHECK_DEADLOCK FALSE
