SPECIFICATION Spec
CONSTANTS
  st1 = st1
  st2 = st2
  s1 = s1
  s2 = s2
  None = None
  Stream = {st1, st2}
  Sketch = {s1, s2}
  MaxHashBuffers = 5
  MaxCountBuffers = 1
  SettlesAfterThrow = TRUE
INVARIANTS
  NoInvalidAccess
  CompletesBeforeReturning
  NoLeak
  FreedOnOwnStream
SYMMETRY Interchangeable
