SPECIFICATION FairSpec
CONSTANTS
  c1 = c1
  c2 = c2
  i1 = i1
  NoSession = NoSession
  SessionFiles = {}
  Commands = {c1}
  Intents = {i1}
  Off = {}
  MaxGen = 1
  MaxChildren = 1
PROPERTIES EveryIntentDisposed
CHECK_DEADLOCK FALSE
