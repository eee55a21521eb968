SPECIFICATION Spec
CONSTANTS
  c1 = c1
  c2 = c2
  sketch = sketch
  NoSession = NoSession
  Clients = {c1, c2}
  SessionFiles = {sketch}
  MaxGen = 2
  Mortal = {c1}
  LocalWakes = {1}
  Request <- MCRequest
INVARIANTS TypeOK WellFormed AtMostOneEffect TruthfulRecord DefiniteFailure LeaseProtects
PROPERTIES ResponseFinal FifoCommit KeepsPromise
CHECK_DEADLOCK FALSE
