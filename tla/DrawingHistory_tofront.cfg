SPECIFICATION DrawingSpec
CONSTANTS
  HistoryLimit = 3
  PersistLimit = 2
  MaxShapes = 3
  MaxSelected = 2
  MaxEdits = 4
PROPERTIES BroughtToFront
CHECK_DEADLOCK FALSE
