SPECIFICATION Spec
CONSTANTS
  c1 = c1
  c2 = c2
  sketch = sketch
  NoSession = NoSession
  Clients = {c1, c2}
  SessionFiles = {sketch}
  MaxGen = 1
  Mortal = {c1}
  LocalWakes = {}
  Request <- MCRequest
INVARIANTS EffectIsCommitted
CHECK_DEADLOCK FALSE
