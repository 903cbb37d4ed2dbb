SPECIFICATION ScreenSpec
CONSTANTS
  Rows = 5
  Cols = 4
  SpawnCol = 1
  Types <- Squares
  LinesPerLevel = 1
  MaxLines = 12
  MaxDialogs = 2
INVARIANTS TimerIffPlaying NeverTooFast
PROPERTIES GameOverAnnounced
CHECK_DEADLOCK FALSE
