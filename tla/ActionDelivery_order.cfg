SPECIFICATION Spec
CONSTANTS
  c1 = c1
  c2 = c2
  i1 = i1
  NoSession = NoSession
  SessionFiles = {}
  Commands = {c1, c2}
  Intents = {i1}
  Off = {c2, i1}
  MaxGen = 1
  MaxChildren = 1
INVARIANTS TypeOK NoOrphan
PROPERTIES AppliedInOrder
CHECK_DEADLOCK FALSE
