SPECIFICATION SessionSpec
CONSTANTS
  BackupRetention = 0
  MaxStrokes = 2
  MaxOrders = 1
  MaxLosses = 2
INVARIANT SessionSurvives
CHECK_DEADLOCK FALSE
