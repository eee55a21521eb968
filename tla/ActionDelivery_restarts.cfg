SPECIFICATION FairSpec
CONSTANTS
  c1 = c1
  c2 = c2
  i1 = i1
  NoSession = NoSession
  SessionFiles = {}
  Commands = {c1}
  Intents = {i1}
  Off = {}
  MaxGen = 2
  MaxChildren = 2
INVARIANTS OutcomeTruthful
PROPERTIES KeepsActionPromise Disposed
CHECK_DEADLOCK FALSE
