SPECIFICATION Spec
CONSTANTS
  Width = 4
  LgKs = {1}
  Split = 3
  Foreign <- MCForeign
  Streams = {st1, st2}
  Sketches = {s1, s2}
  Batches <- MCBatches
  Earlier <- MCEarlier
  None = None
  MaxCalls = 3
SYMMETRY Symmetric
INVARIANTS
  TypeOK
  AnswersCover
  ImageConsistent
  EmptyMeansEmpty
  Converges
PROPERTIES
  RegistersOnlyRise
