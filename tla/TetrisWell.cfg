SPECIFICATION FairSpec
CONSTANTS
  Rows = 5
  Cols = 4
  SpawnCol = 1
  Types <- BarSquareSkew
  LinesPerLevel = 2
  MaxLines = 4
INVARIANTS PieceFits CellsConserved
PROPERTIES ClearsInOrder PieceLands
CHECK_DEADLOCK FALSE
