SPECIFICATION Spec
CONSTANTS
  k1 = k1
  k2 = k2
  Actions = {1, 2}
  Chords = {k1, k2}
  EditCapacity = 1
  MaxGestures = 3
  MaxDisturbances = 1
  f1 = f1
  f2 = f2
  w1 = w1
  w2 = w2
  DocFiles = {f1, f2}
  FirstFile = f1
  Editors = {w1}
  Configurators = {w2}
  Free = Free
  MaxSaves = 1
  MaxOutside = 2
  StartFile <- MCStartFile
  Gestures <- MCGestures
  MaxGenerations = 3
  MaxDaemons = 2
  Candidates = 2
  MaxMishaps = 2
  t1 = t1
  t2 = t2
  Threads = {t1, t2}
  Nobody = Nobody
  Capacity = 1
  MaxRequests = 2
  HistoryLimit = 2
  PersistLimit = 2
  MaxShapes = 3
  MaxSelected = 2
  MaxEdits = 4
  Backends = {"wlr", "portal"}
  MaxAttempts = 2
  MaxLayouts = 2
  MaxFaults = 1
  r1 = r1
  r2 = r2
  Stores = {r1, r2}
  Foreign = {"invalid"}
  MaxMutations = 1
  MaxTroubles = 1
  BackupRetention = 1
  MaxStrokes = 2
  MaxOrders = 1
  MaxLosses = 2
INVARIANTS ComponentTypesOK EditsForesee EditsReportTruthful DocNothingLost DocOutcomeTrue OverlayOneActor OverlayTidy BrokerAnswersOwn BrokerLeaves HistoryExact CaptureUncovered CaptureOwned StoreLosesNothing StoreReportsTrue SessionRestores
PROPERTIES EditsSettled OverlayFollowsDaemon OverlayAlwaysReturns BrokerStops CaptureFresh CaptureReturns SessionAutosaved
CHECK_DEADLOCK FALSE
